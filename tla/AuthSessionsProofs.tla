------------------------- MODULE AuthSessionsProofs -------------------------
(***************************************************************************)
(* AuthInv is an inductive invariant of AuthSpec, for any number of        *)
(* sessions, users, browsers and requests and with no bound on time: one   *)
(* lemma for each action, and in it one step for each conjunct.            *)
(* Tokens, rows and requests are records that stay folded: what a step     *)
(* leaves of them is said once, by Moved and Written.                      *)
(***************************************************************************)
EXTENDS AuthSessions, TLAPS

\* One step of one request, or of the clock.
LEMMA StepCases ==
  ASSUME AuthTypeOK, [AuthNext]_vars
  PROVE  \/ UNCHANGED vars
         \/ \E r \in Requests :
              \/ \E u \in Users, s \in Sessions : SignIn(r, u, s)
              \/ CreateAuthSession(r) \/ SendRefresh(r) \/ Verify(r) \/ Issue(r)
              \/ RotateAuthSession(r) \/ SendLogout(r) \/ RevokeAuthSession(r)
              \/ Reply(r) \/ Fail(r)
         \/ \E b \in Browsers : ClearCookie(b)
         \/ Tick
  BY DEF AuthTypeOK, AuthNext, Register, Login, Refresh, Logout

\* What records of the two kinds are made of: below, they stay folded.
LEMMA TokenFields ==
  \A t \in Tokens :
    /\ t.session \in Sessions /\ t.user \in Users /\ t.issued \in Nat
    /\ t # NoToken
  BY NullAssumption DEF Tokens

\* A token is its three fields.
LEMMA SameToken ==
  ASSUME NEW t \in Tokens, NEW o \in Tokens,
         t.session = o.session, t.user = o.user, t.issued = o.issued
  PROVE  t = o
  BY DEF Tokens

LEMMA RowFields ==
  \A w \in Rows :
    /\ w.hash \in Tokens /\ w.expires \in Nat
    /\ w.revoked \in Nat \cup {Never}
    /\ w # NoRow
  BY NullAssumption DEF Rows

\* What NewTokenPair issues.
LEMMA NewTokens ==
  \A s \in Sessions, u \in Users : now \in Nat =>
    /\ NewToken(s, u) \in Tokens
    /\ NewToken(s, u).session = s
    /\ NewToken(s, u).user = u
    /\ NewToken(s, u).issued = now
  BY DEF NewToken, Tokens

\* What the statements write.
LEMMA NewRows ==
  \A t \in Tokens, e \in Nat, v \in Nat \cup {Never} :
    /\ Row(t, e, v) \in Rows
    /\ Row(t, e, v).hash = t
    /\ Row(t, e, v).expires = e
    /\ Row(t, e, v).revoked = v
  BY DEF Row, Rows

\* What a step of request r leaves.
Moved(r, step, token) ==
  /\ request' \in [Requests -> AuthRequests]
  /\ request'[r].at = step
  /\ request'[r].token = token
  /\ \A q \in Requests : q # r => request'[q] = request[q]

\* GoTo moves one request.
LEMMA Moves ==
  ASSUME NEW r \in Requests, NEW step \in Steps, NEW token \in Tokens \cup {NoToken},
         request \in [Requests -> AuthRequests], GoTo(r, step, token)
  PROVE  Moved(r, step, token)
  BY DEF GoTo, AuthRequests, Moved

\* What a request is made of.
LEMMA RequestFields ==
  \A q \in AuthRequests : q.at \in Steps /\ q.token \in Tokens \cup {NoToken}
  BY DEF AuthRequests

\* The places a request goes through.
LEMMA StepNames ==
  /\ "idle" \in Steps /\ "verify" \in Steps /\ "issue" \in Steps /\ "create" \in Steps
  /\ "rotate" \in Steps /\ "revoke" \in Steps /\ "signedIn" \in Steps /\ "signedOut" \in Steps
  BY DEF Steps

\* The token of a request under way.
LEMMA SentToken ==
  ASSUME AuthTypeOK, RequestsAreOfSessions, NEW r \in Requests, Sent(r)
  PROVE  /\ request[r].token \in Tokens
         /\ Session(r) \in Sessions
         /\ request[r].token.issued \in Nat
         /\ request[r].token.issued <= now
  BY TokenFields, RequestFields DEF AuthTypeOK, RequestsAreOfSessions, Session

\* What a statement on the row of session s leaves.
Written(s, token, expires, revoked) ==
  /\ row' \in [Sessions -> Rows \cup {NoRow}]
  /\ row'[s] # NoRow
  /\ row'[s].hash = token
  /\ row'[s].expires = expires
  /\ row'[s].revoked = revoked
  /\ \A o \in Sessions : o # s => row'[o] = row[o]

\* A statement writes one row.
LEMMA Writes ==
  ASSUME NEW s \in Sessions, NEW token \in Tokens,
         NEW expires \in Nat, NEW revoked \in Nat \cup {Never},
         row \in [Sessions -> Rows \cup {NoRow}],
         row' = [row EXCEPT ![s] = Row(token, expires, revoked)]
  PROVE  Written(s, token, expires, revoked)
  BY RowFields, NewRows DEF Written

\* A session id of its own: no row, no request and no cookie knows it yet.
LEMMA SignInStep ==
  ASSUME AuthInv, NEW r \in Requests, NEW u \in Users, NEW s \in Sessions, SignIn(r, u, s)
  PROVE  AuthInv'
<1> USE DEF AuthInv, AuthTypeOK
<1>1. NewToken(s, u) \in Tokens /\ At(r, "idle")
  BY AuthAssumption, NewTokens DEF SignIn, history, InFlight
<1>2. Moved(r, "create", NewToken(s, u))
  BY <1>1, Moves, StepNames DEF SignIn, history
<1>3. AuthTypeOK'
  BY <1>2 DEF SignIn, history, Moved
<1>4. TokensAreOfSessions'
  BY DEF SignIn, history, TokensAreOfSessions, Exists
<1>5. RequestsAreOfSessions'
  BY <1>2, TokenFields, NewTokens
     DEF SignIn, InFlight, Moved, RequestsAreOfSessions, Sent, At, Session, Exists
<1>6. AccessEnds'
  BY DEF SignIn, history, AccessEnds, TokensAreOfSessions, Revoked
<1>7. RepliesAreOlder'
  BY <1>2 DEF SignIn, Moved, RepliesAreOlder, RequestsAreOfSessions, Sent, At, Session, Revoked
<1>8. SessionOutlivesToken'
  BY DEF SignIn, history, SessionOutlivesToken, Exists
<1>9. AloneInSession'
  BY <1>2, NewTokens DEF SignIn, history, InFlight, Moved, AloneInSession, Sent, At, Session
<1>10. FindsItsRow'
  BY <1>2 DEF SignIn, history, Moved, FindsItsRow, Sent, At, Session
<1>11. RetiredIsOlder'
  BY DEF SignIn, history, RetiredIsOlder
<1>12. OneBrowserPerSession'
  BY <1>2, NewTokens, AuthAssumption
     DEF SignIn, InFlight, Moved, OneBrowserPerSession, RequestsAreOfSessions,
         TokensAreOfSessions, Sent, At, Session, Exists
<1>13. CookieFollows'
  BY <1>2 DEF SignIn, history, Moved, CookieFollows, At, Session, Exists, Revoked
<1> QED
  BY <1>3, <1>4, <1>5, <1>6, <1>7, <1>8, <1>9, <1>10, <1>11, <1>12, <1>13

\* The row is new, and the request alone in its session.
LEMMA CreateAuthSessionStep ==
  ASSUME AuthInv, NEW r \in Requests, CreateAuthSession(r)
  PROVE  AuthInv'
<1> USE DEF AuthInv, AuthTypeOK
<1>1. Sent(r) /\ request[r].token \in Tokens /\ Session(r) \in Sessions
  <2>1. Sent(r)
    BY DEF CreateAuthSession, history, Sent, At
  <2> QED
    BY <2>1, SentToken, NewTokens, TokenFields DEF Session
<1>2. Moved(r, "signedIn", request[r].token)
  BY <1>1, Moves, StepNames DEF CreateAuthSession, history
<1>w. PICK e \in Nat : /\ request[r].token.issued + RefreshTTL <= e
                      /\ Written(Session(r), request[r].token, e, Never)
  <2>1. PICK t \in request[r].token.issued .. now :
          row' = [row EXCEPT ![Session(r)] = Row(request[r].token, t + RefreshTTL, Never)]
    BY DEF CreateAuthSession, history
  <2>2. t + RefreshTTL \in Nat /\ request[r].token.issued + RefreshTTL <= t + RefreshTTL
    BY <1>1, TokenFields, AuthAssumption
  <2> QED
    BY <1>1, <2>1, <2>2, Writes
<1>g. At(r, "create") /\ UNCHANGED <<now, users, jar, handed, retired, overlapped, lost>>
  BY DEF CreateAuthSession, history
<1>n. ~Exists(Session(r))
  BY <1>1, <1>g DEF RequestsAreOfSessions
<1>3. AuthTypeOK'
  BY <1>2, <1>w, <1>g DEF Written, Moved
<1>4. TokensAreOfSessions'
  BY <1>1, <1>w, <1>g, TokenFields, SentToken DEF Written, TokensAreOfSessions, Session, Exists
<1>5. RequestsAreOfSessions'
  BY <1>2, <1>w, <1>g, SentToken
     DEF Written, Moved, RequestsAreOfSessions, Sent, At, Session, Exists
<1>6. AccessEnds'
  BY <1>w, <1>g, TokenFields DEF Written, AccessEnds, TokensAreOfSessions, Revoked
<1>7. RepliesAreOlder'
  BY <1>2, <1>w, SentToken
     DEF Written, Moved, RepliesAreOlder, RequestsAreOfSessions, Sent, At, Session, Revoked
<1>8. SessionOutlivesToken'
  BY <1>w DEF Written, SessionOutlivesToken, Exists
<1>9. AloneInSession'
  BY <1>2, <1>g DEF Moved, AloneInSession, Sent, At, Session
<1>10. FindsItsRow'
  BY <1>2, <1>w, <1>g, SentToken
     DEF Written, Moved, FindsItsRow, AloneInSession, Sent, At, Session
<1>11. RetiredIsOlder'
  BY <1>w, <1>g, <1>n, TokenFields DEF Written, RetiredIsOlder, TokensAreOfSessions
<1>12. OneBrowserPerSession'
  BY <1>1, <1>2, <1>g DEF Moved, OneBrowserPerSession, Sent, At, Session
<1>13. CookieFollows'
  BY <1>2, <1>w, <1>g, TokenFields, RequestFields
     DEF Written, Moved, CookieFollows, RequestsAreOfSessions, At, Session, Exists, Revoked
<1> QED
  BY <1>3, <1>4, <1>5, <1>6, <1>7, <1>8, <1>9, <1>10, <1>11, <1>12, <1>13

\* The cookie becomes the token of the request.
LEMMA SendRefreshStep ==
  ASSUME AuthInv, NEW r \in Requests, SendRefresh(r)
  PROVE  AuthInv'
<1> USE DEF AuthInv, AuthTypeOK
<1>1. Cookie(r) \in Tokens /\ At(r, "idle")
  BY AuthAssumption, NewTokens DEF SendRefresh, Send, Cookie, InFlight
<1>2. Moved(r, "verify", Cookie(r))
  BY <1>1, Moves, StepNames DEF SendRefresh, Send
<1>c. Cookie(r) # NoToken /\ Exists(Cookie(r).session) /\ Cookie(r).issued <= now
  BY AuthAssumption DEF SendRefresh, Send, Cookie, TokensAreOfSessions
<1>3. AuthTypeOK'
  BY <1>1, <1>2, TokenFields DEF SendRefresh, Send, Moved
<1>4. TokensAreOfSessions'
  BY DEF SendRefresh, TokensAreOfSessions, Exists
<1>5. RequestsAreOfSessions'
  BY <1>2, <1>c DEF SendRefresh, Moved, RequestsAreOfSessions, Sent, At, Session, Exists
<1>6. AccessEnds'
  BY DEF SendRefresh, AccessEnds, TokensAreOfSessions, Revoked
<1>7. RepliesAreOlder'
  BY <1>2
     DEF SendRefresh, Moved, RepliesAreOlder, RequestsAreOfSessions, Sent, At, Session, Revoked
<1>8. SessionOutlivesToken'
  BY DEF SendRefresh, Send, SessionOutlivesToken, Exists
<1>9. AloneInSession'
  BY <1>2 DEF SendRefresh, Send, InFlight, Moved, AloneInSession, Sent, At, Session
<1>10. FindsItsRow'
  BY <1>2 DEF SendRefresh, Send, Moved, FindsItsRow, Sent, At, Session
<1>11. RetiredIsOlder'
  BY DEF SendRefresh, Send, RetiredIsOlder
<1>12. OneBrowserPerSession'
  BY <1>2, AuthAssumption
     DEF SendRefresh, Cookie, Moved, OneBrowserPerSession, Sent, At, Session
<1>13. CookieFollows'
  BY <1>2
     DEF SendRefresh, Send, Moved, CookieFollows, RequestsAreOfSessions, At, Session, Exists,
         Revoked
<1> QED
  BY <1>3, <1>4, <1>5, <1>6, <1>7, <1>8, <1>9, <1>10, <1>11, <1>12, <1>13

\* What passes is the token of the row.
LEMMA VerifyStep ==
  ASSUME AuthInv, NEW r \in Requests, Verify(r)
  PROVE  AuthInv'
<1> USE DEF AuthInv, AuthTypeOK
<1>1. Sent(r) /\ request[r].token \in Tokens /\ Session(r) \in Sessions
  <2>1. Sent(r)
    BY DEF Verify, history, Sent, At
  <2> QED
    BY <2>1, SentToken, NewTokens, TokenFields DEF Session
<1>2. Moved(r, "issue", request[r].token)
  BY <1>1, Moves, StepNames DEF Verify, history
<1>3. AuthTypeOK'
  BY <1>2 DEF Verify, history, Moved
<1>4. TokensAreOfSessions'
  BY DEF Verify, history, TokensAreOfSessions, Exists
<1>5. RequestsAreOfSessions'
  BY <1>2 DEF Verify, Moved, RequestsAreOfSessions, Sent, At, Session, Exists
<1>6. AccessEnds'
  BY DEF Verify, history, AccessEnds, TokensAreOfSessions, Revoked
<1>7. RepliesAreOlder'
  BY <1>2 DEF Verify, Moved, RepliesAreOlder, RequestsAreOfSessions, Sent, At, Session, Revoked
<1>8. SessionOutlivesToken'
  BY DEF Verify, history, SessionOutlivesToken, Exists
<1>9. AloneInSession'
  BY <1>2 DEF Verify, history, Moved, AloneInSession, Sent, At, Session
<1>10. FindsItsRow'
  BY <1>2 DEF Verify, history, Moved, FindsItsRow, Sent, At, Session
<1>11. RetiredIsOlder'
  BY DEF Verify, history, RetiredIsOlder
<1>12. OneBrowserPerSession'
  BY <1>2
     DEF Verify, Moved, OneBrowserPerSession, RequestsAreOfSessions, TokensAreOfSessions, Sent,
         At, Session, Exists, Revoked
<1>13. CookieFollows'
  BY <1>2
     DEF Verify, history, Moved, CookieFollows, AloneInSession, At, Session, Exists, Revoked
<1> QED
  BY <1>3, <1>4, <1>5, <1>6, <1>7, <1>8, <1>9, <1>10, <1>11, <1>12, <1>13

\* The new token is not older than the one it replaces.
LEMMA IssueStep ==
  ASSUME AuthInv, NEW r \in Requests, Issue(r)
  PROVE  AuthInv'
<1> USE DEF AuthInv, AuthTypeOK
<1>1. /\ Sent(r) /\ request[r].token \in Tokens /\ Session(r) \in Sessions
      /\ NewToken(Session(r), request[r].token.user) \in Tokens
  <2>1. Sent(r)
    BY DEF Issue, history, Sent, At
  <2> QED
    BY <2>1, SentToken, NewTokens, TokenFields DEF Session
<1>2. Moved(r, "rotate", NewToken(Session(r), request[r].token.user))
  BY <1>1, Moves, StepNames DEF Issue, history
<1>3. AuthTypeOK'
  BY <1>2 DEF Issue, history, Moved
<1>4. TokensAreOfSessions'
  BY DEF Issue, history, TokensAreOfSessions, Exists
<1>5. RequestsAreOfSessions'
  BY <1>1, <1>2, TokenFields, NewTokens
     DEF Issue, history, Moved, RequestsAreOfSessions, Sent, At, Session, Exists
<1>6. AccessEnds'
  BY DEF Issue, history, AccessEnds, TokensAreOfSessions, Revoked
<1>7. RepliesAreOlder'
  BY <1>2 DEF Issue, Moved, RepliesAreOlder, RequestsAreOfSessions, Sent, At, Session, Revoked
<1>8. SessionOutlivesToken'
  BY DEF Issue, history, SessionOutlivesToken, Exists
<1>9. AloneInSession'
  BY <1>1, <1>2, TokenFields, NewTokens
     DEF Issue, history, Moved, AloneInSession, Sent, At, Session
<1>10. FindsItsRow'
  BY <1>2, TokenFields, NewTokens, SentToken
     DEF Issue, history, Moved, FindsItsRow, Sent, At, Session
<1>11. RetiredIsOlder'
  BY DEF Issue, history, RetiredIsOlder
<1>12. OneBrowserPerSession'
  BY <1>2, TokenFields, NewTokens, SentToken
     DEF Issue, history, Moved, OneBrowserPerSession, RequestsAreOfSessions,
         TokensAreOfSessions, Sent, At, Session, Exists
<1>13. CookieFollows'
  BY <1>2
     DEF Issue, history, Moved, CookieFollows, RequestsAreOfSessions, At, Session, Exists,
         Revoked
<1> QED
  BY <1>3, <1>4, <1>5, <1>6, <1>7, <1>8, <1>9, <1>10, <1>11, <1>12, <1>13

\* A live row gets the token of the request, and the replaced one is older.
LEMMA RotateAuthSessionStep ==
  ASSUME AuthInv, NEW r \in Requests, RotateAuthSession(r)
  PROVE  AuthInv'
<1> USE DEF AuthInv, AuthTypeOK
<1>1. Sent(r) /\ request[r].token \in Tokens /\ Session(r) \in Sessions
  <2>1. Sent(r)
    BY DEF RotateAuthSession, Sent, At
  <2> QED
    BY <2>1, SentToken, NewTokens, TokenFields DEF Session
<1>2. Moved(r, "signedIn", request[r].token)
  BY <1>1, Moves, StepNames DEF RotateAuthSession
<1>w. PICK e \in Nat : /\ request[r].token.issued + RefreshTTL <= e
                      /\ Written(Session(r), request[r].token, e, Never)
  <2>1. PICK t \in request[r].token.issued .. now :
          row' = [row EXCEPT ![Session(r)] = Row(request[r].token, t + RefreshTTL, Never)]
    BY DEF RotateAuthSession
  <2>2. t + RefreshTTL \in Nat /\ request[r].token.issued + RefreshTTL <= t + RefreshTTL
    BY <1>1, TokenFields, AuthAssumption
  <2> QED
    BY <1>1, <2>1, <2>2, Writes
<1>g. /\ At(r, "rotate") /\ Exists(Session(r)) /\ row[Session(r)].revoked = Never
      /\ retired' = retired \cup ({row[Session(r)].hash} \ {request[r].token})
      /\ UNCHANGED <<now, users, jar, handed, overlapped, lost>>
  BY DEF RotateAuthSession, Live
<1>h. /\ row[Session(r)].hash \in Tokens
      /\ row[Session(r)].hash.session = Session(r)
      /\ row[Session(r)].hash.issued <= now
  BY <1>1, <1>g, RowFields DEF TokensAreOfSessions, Exists
<1>i. Session(r) \notin overlapped =>
        /\ row[Session(r)].hash.issued <= request[r].token.issued
        /\ row[Session(r)].hash.user = request[r].token.user
  BY <1>1, <1>g DEF FindsItsRow
<1>j. Session(r) \notin overlapped /\ row[Session(r)].hash # request[r].token =>
        row[Session(r)].hash.issued < request[r].token.issued
  BY <1>1, <1>h, <1>i, SameToken, TokenFields DEF Session
<1>3. AuthTypeOK'
  BY <1>2, <1>w, <1>g, RowFields DEF Written, Moved, Exists
<1>4. TokensAreOfSessions'
  BY <1>1, <1>w, <1>g, SentToken, TokenFields DEF Written, TokensAreOfSessions, Exists, Session
<1>5. RequestsAreOfSessions'
  BY <1>2, <1>w, <1>g, SentToken
     DEF Written, Moved, RequestsAreOfSessions, Sent, At, Session, Exists
<1>6. AccessEnds'
  BY <1>w, <1>g, TokenFields DEF Written, AccessEnds, TokensAreOfSessions, Revoked
<1>7. RepliesAreOlder'
  BY <1>2, <1>w, SentToken
     DEF Written, Moved, RepliesAreOlder, RequestsAreOfSessions, Sent, At, Session, Revoked
<1>8. SessionOutlivesToken'
  BY <1>w DEF Written, SessionOutlivesToken, Exists
<1>9. AloneInSession'
  BY <1>2, <1>g DEF Moved, AloneInSession, Sent, At, Session
<1>10. FindsItsRow'
  BY <1>2, <1>w, <1>g, SentToken
     DEF Written, Moved, FindsItsRow, AloneInSession, Sent, At, Session
<1>11. RetiredIsOlder'
  <2> SUFFICES ASSUME NEW t \in retired', t.session \notin overlapped'
               PROVE  t.issued < row'[t.session].hash.issued
    BY DEF RetiredIsOlder
  <2>1. CASE t \in retired /\ t.session # Session(r)
    BY <1>w, <1>g, <2>1, TokenFields DEF Written, RetiredIsOlder
  <2>2. CASE t \in retired /\ t.session = Session(r)
    BY <1>1, <1>w, <1>g, <1>h, <1>i, <2>2, TokenFields DEF Written, RetiredIsOlder
  <2>3. CASE t = row[Session(r)].hash /\ t # request[r].token
    BY <1>w, <1>g, <1>h, <1>j, <2>3 DEF Written
  <2> QED
    BY <1>g, <2>1, <2>2, <2>3
<1>12. OneBrowserPerSession'
  BY <1>2, <1>g
     DEF Moved, OneBrowserPerSession, RequestsAreOfSessions, Sent, At, Session, Exists
<1>13. CookieFollows'
  <2> SUFFICES ASSUME NEW b \in Browsers, jar[b] # NoToken,
                      jar[b].session \notin overlapped \cup lost
               PROVE  \/ Revoked(jar[b].session)'
                      \/ row'[jar[b].session].hash = jar[b]
                      \/ \E q \in Requests : At(q, "signedIn")' /\ Session(q)' = jar[b].session
    BY <1>g DEF CookieFollows
  <2>1. CASE jar[b].session = Session(r)
    BY <1>2, <2>1 DEF Moved, At, Session
  <2>2. CASE jar[b].session # Session(r)
    <3>1. jar[b].session \in Sessions
      BY TokenFields
    <3>2. row'[jar[b].session] = row[jar[b].session]
      BY <1>w, <2>2, <3>1 DEF Written
    <3>3. \/ Revoked(jar[b].session)
          \/ row[jar[b].session].hash = jar[b]
          \/ \E q \in Requests : At(q, "signedIn") /\ Session(q) = jar[b].session
      BY DEF CookieFollows
    <3>4. ASSUME NEW q \in Requests, At(q, "signedIn"), Session(q) = jar[b].session
          PROVE  At(q, "signedIn")' /\ Session(q)' = jar[b].session
      BY <1>2, <2>2, <3>4 DEF Moved, At, Session
    <3> QED
      BY <1>g, <3>2, <3>3, <3>4 DEF Revoked, Exists
  <2> QED
    BY <2>1, <2>2
<1> QED
  BY <1>3, <1>4, <1>5, <1>6, <1>7, <1>8, <1>9, <1>10, <1>11, <1>12, <1>13

\* The cookie becomes the token of the request.
LEMMA SendLogoutStep ==
  ASSUME AuthInv, NEW r \in Requests, SendLogout(r)
  PROVE  AuthInv'
<1> USE DEF AuthInv, AuthTypeOK
<1> DEFINE step == IF Unexpired(Cookie(r)) THEN "revoke" ELSE "signedOut"
<1>1. Cookie(r) \in Tokens /\ At(r, "idle")
  BY AuthAssumption, NewTokens DEF SendLogout, Send, Cookie, InFlight
<1>2. Moved(r, step, Cookie(r))
  BY <1>1, Moves, StepNames DEF SendLogout, Send
<1>s. step \in {"revoke", "signedOut"}
  OBVIOUS
<1> HIDE DEF step
<1>c. Cookie(r) # NoToken /\ Exists(Cookie(r).session) /\ Cookie(r).issued <= now
  BY AuthAssumption DEF SendLogout, Send, Cookie, TokensAreOfSessions
<1>3. AuthTypeOK'
  BY <1>1, <1>2, TokenFields DEF SendLogout, Send, Moved
<1>4. TokensAreOfSessions'
  BY DEF SendLogout, TokensAreOfSessions, Exists
<1>5. RequestsAreOfSessions'
  BY <1>2, <1>s, <1>c DEF SendLogout, Moved, RequestsAreOfSessions, Sent, At, Session, Exists
<1>6. AccessEnds'
  BY DEF SendLogout, AccessEnds, TokensAreOfSessions, Revoked
<1>7. RepliesAreOlder'
  BY <1>2, <1>s
     DEF SendLogout, Moved, RepliesAreOlder, RequestsAreOfSessions, Sent, At, Session, Revoked
<1>8. SessionOutlivesToken'
  BY DEF SendLogout, Send, SessionOutlivesToken, Exists
<1>9. AloneInSession'
  BY <1>2 DEF SendLogout, Send, InFlight, Moved, AloneInSession, Sent, At, Session
<1>10. FindsItsRow'
  BY <1>2, <1>s DEF SendLogout, Send, Moved, FindsItsRow, Sent, At, Session
<1>11. RetiredIsOlder'
  BY DEF SendLogout, Send, RetiredIsOlder
<1>12. OneBrowserPerSession'
  BY <1>2, AuthAssumption
     DEF SendLogout, Send, Cookie, Moved, OneBrowserPerSession, Sent, At, Session, Exists
<1>13. CookieFollows'
  BY <1>2
     DEF SendLogout, Send, InFlight, Moved, CookieFollows, AloneInSession, FindsItsRow,
         OneBrowserPerSession, At, Session, Exists, Revoked
<1> QED
  BY <1>3, <1>4, <1>5, <1>6, <1>7, <1>8, <1>9, <1>10, <1>11, <1>12, <1>13

\* All tokens of the session, handed out or on their way, are older than now.
LEMMA RevokeAuthSessionStep ==
  ASSUME AuthInv, NEW r \in Requests, RevokeAuthSession(r)
  PROVE  AuthInv'
<1> USE DEF AuthInv, AuthTypeOK
<1>1. Sent(r) /\ request[r].token \in Tokens /\ Session(r) \in Sessions
  <2>1. Sent(r)
    BY DEF RevokeAuthSession, history, Sent, At
  <2> QED
    BY <2>1, SentToken, NewTokens, TokenFields DEF Session
<1>2. Moved(r, "signedOut", request[r].token)
  BY <1>1, Moves, StepNames DEF RevokeAuthSession, history
<1>w. IF Live(Session(r))
      THEN Written(Session(r), row[Session(r)].hash, row[Session(r)].expires, now)
      ELSE row' = row
  <2>1. CASE Live(Session(r))
    <3>1. row[Session(r)].hash \in Tokens /\ row[Session(r)].expires \in Nat
      BY <1>1, <2>1, RowFields DEF Live, Exists
    <3>2. row' = [row EXCEPT ![Session(r)] = Row(row[Session(r)].hash, row[Session(r)].expires, now)]
      BY <1>1, <2>1 DEF RevokeAuthSession, history
    <3> QED
      BY <1>1, <2>1, <3>1, <3>2, Writes
  <2>2. CASE ~Live(Session(r))
    BY <1>1, <2>2 DEF RevokeAuthSession, history
  <2> QED
    BY <2>1, <2>2
<1>g. At(r, "revoke") /\ UNCHANGED <<now, users, jar, handed, retired, overlapped, lost>>
  BY DEF RevokeAuthSession, history
<1>3. AuthTypeOK'
  BY <1>2, <1>w, <1>g DEF Written, Moved
<1>4. TokensAreOfSessions'
  BY <1>w, <1>g, TokenFields DEF Written, Live, TokensAreOfSessions, Exists
<1>5. RequestsAreOfSessions'
  BY <1>2, <1>w, <1>g, SentToken
     DEF Written, Moved, RequestsAreOfSessions, Sent, At, Session, Exists
<1>6. AccessEnds'
  BY <1>w, <1>g, TokenFields DEF Written, AccessEnds, TokensAreOfSessions, Revoked
<1>7. RepliesAreOlder'
  BY <1>2, <1>w, SentToken
     DEF Written, Moved, RepliesAreOlder, RequestsAreOfSessions, Sent, At, Session, Revoked
<1>8. SessionOutlivesToken'
  BY <1>w DEF Written, Live, SessionOutlivesToken, Exists
<1>9. AloneInSession'
  BY <1>2, <1>g DEF Moved, AloneInSession, Sent, At, Session
<1>10. FindsItsRow'
  BY <1>2, <1>w, <1>g, SentToken DEF Written, Moved, FindsItsRow, Sent, At, Session
<1>11. RetiredIsOlder'
  BY <1>w, <1>g, TokenFields DEF Written, RetiredIsOlder
<1>12. OneBrowserPerSession'
  BY <1>2, <1>g
     DEF Written, Moved, OneBrowserPerSession, RequestsAreOfSessions, TokensAreOfSessions,
         Sent, At, Session, Revoked
<1>13. CookieFollows'
  BY <1>2, <1>w, <1>g, TokenFields, SentToken, RequestFields
     DEF Written, Live, Moved, CookieFollows, FindsItsRow, RequestsAreOfSessions,
         TokensAreOfSessions, Sent, At, Session, Exists, Revoked
<1> QED
  BY <1>3, <1>4, <1>5, <1>6, <1>7, <1>8, <1>9, <1>10, <1>11, <1>12, <1>13

\* The jar gets what the row has, unless a request overlapped.
LEMMA ReplyStep ==
  ASSUME AuthInv, NEW r \in Requests, Reply(r)
  PROVE  AuthInv'
<1> USE DEF AuthInv, AuthTypeOK
<1>1. Sent(r) /\ request[r].token \in Tokens /\ Session(r) \in Sessions
  BY SentToken, StepNames DEF Reply, End, Sent, At
<1>2. Moved(r, "idle", NoToken)
  BY <1>1, Moves, StepNames DEF Reply, End
<1>3. AuthTypeOK'
  BY <1>1, <1>2 DEF Reply, Moved
<1>4. TokensAreOfSessions'
  BY <1>1 DEF Reply, TokensAreOfSessions, RequestsAreOfSessions, At, Session, Exists
<1>5. RequestsAreOfSessions'
  BY <1>2 DEF Reply, End, Moved, RequestsAreOfSessions, Sent, At, Session, Exists
<1>6. AccessEnds'
  BY <1>1
     DEF Reply, AccessEnds, TokensAreOfSessions, RepliesAreOlder, RequestsAreOfSessions, At,
         Session, Revoked
<1>7. RepliesAreOlder'
  BY <1>2 DEF Reply, Moved, RepliesAreOlder, RequestsAreOfSessions, Sent, At, Session, Revoked
<1>8. SessionOutlivesToken'
  BY DEF Reply, End, SessionOutlivesToken, Exists
<1>9. AloneInSession'
  BY <1>2 DEF Reply, Moved, AloneInSession, Sent, At, Session
<1>10. FindsItsRow'
  BY <1>2 DEF Reply, Moved, FindsItsRow, Sent, At, Session
<1>11. RetiredIsOlder'
  BY DEF Reply, RetiredIsOlder
<1>12. OneBrowserPerSession'
  <2>1. /\ jar' \in [Browsers -> Tokens \cup {NoToken}]
        /\ jar'[BrowserOf[r]] \in {request[r].token, NoToken}
        /\ \A b \in Browsers : b # BrowserOf[r] => jar'[b] = jar[b]
    BY <1>1, AuthAssumption DEF Reply
  <2>2. \A q \in Requests : Sent(q)' => q # r /\ Sent(q) /\ Session(q)' = Session(q)
    BY <1>2 DEF Moved, Sent, At, Session
  <2>3. \A b \in Browsers : jar[b] # NoToken /\ jar[b].session = Session(r) => b = BrowserOf[r]
    BY <1>1 DEF OneBrowserPerSession
  <2>4. \A q \in Requests : Sent(q) /\ Session(q) = Session(r) => BrowserOf[q] = BrowserOf[r]
    BY <1>1 DEF OneBrowserPerSession
  <2> QED
    BY <1>1, <2>1, <2>2, <2>3, <2>4 DEF OneBrowserPerSession, Session
<1>13. CookieFollows'
  BY <1>1, <1>2
     DEF Reply, End, Moved, CookieFollows, FindsItsRow, OneBrowserPerSession,
         TokensAreOfSessions, Sent, At, Session, Exists, Revoked
<1> QED
  BY <1>3, <1>4, <1>5, <1>6, <1>7, <1>8, <1>9, <1>10, <1>11, <1>12, <1>13

\* A reply that gets lost marks its session.
LEMMA FailStep ==
  ASSUME AuthInv, NEW r \in Requests, Fail(r)
  PROVE  AuthInv'
<1> USE DEF AuthInv, AuthTypeOK
<1>1. Sent(r) /\ request[r].token \in Tokens /\ Session(r) \in Sessions
  BY SentToken, StepNames DEF Fail, End, Sent, At
<1>2. Moved(r, "idle", NoToken)
  BY <1>1, Moves, StepNames DEF Fail, End
<1>3. AuthTypeOK'
  BY <1>1, <1>2 DEF Fail, Moved
<1>4. TokensAreOfSessions'
  BY DEF Fail, TokensAreOfSessions, Exists
<1>5. RequestsAreOfSessions'
  BY <1>2 DEF Fail, Moved, RequestsAreOfSessions, Sent, At, Session, Exists
<1>6. AccessEnds'
  BY DEF Fail, AccessEnds, TokensAreOfSessions, Revoked
<1>7. RepliesAreOlder'
  BY <1>2 DEF Fail, Moved, RepliesAreOlder, RequestsAreOfSessions, Sent, At, Session, Revoked
<1>8. SessionOutlivesToken'
  BY DEF Fail, End, SessionOutlivesToken, Exists
<1>9. AloneInSession'
  BY <1>2 DEF Fail, Moved, AloneInSession, Sent, At, Session
<1>10. FindsItsRow'
  BY <1>2 DEF Fail, Moved, FindsItsRow, Sent, At, Session
<1>11. RetiredIsOlder'
  BY DEF Fail, RetiredIsOlder
<1>12. OneBrowserPerSession'
  BY <1>2 DEF Fail, Moved, OneBrowserPerSession, Sent, At, Session, Revoked
<1>13. CookieFollows'
  BY <1>2 DEF Fail, Moved, CookieFollows, At, Session, Exists, Revoked
<1> QED
  BY <1>3, <1>4, <1>5, <1>6, <1>7, <1>8, <1>9, <1>10, <1>11, <1>12, <1>13

\* A jar may lose its cookie at any time.
LEMMA ClearCookieStep ==
  ASSUME AuthInv, NEW b \in Browsers, ClearCookie(b)
  PROVE  AuthInv'
<1> USE DEF AuthInv, AuthTypeOK
<1>1. /\ jar' \in [Browsers -> Tokens \cup {NoToken}]
      /\ jar'[b] = NoToken
      /\ \A c \in Browsers : c # b => jar'[c] = jar[c]
  BY DEF ClearCookie
<1>2. UNCHANGED <<now, users, row, request, handed, retired, overlapped, lost>>
  BY DEF ClearCookie, history
<1>3. AuthTypeOK'
  BY <1>1, <1>2
<1>4. TokensAreOfSessions'
  BY <1>1, <1>2 DEF TokensAreOfSessions, Exists
<1>5. RequestsAreOfSessions'
  BY <1>2 DEF RequestsAreOfSessions, Sent, At, Session, Exists
<1>6. AccessEnds' /\ RepliesAreOlder' /\ SessionOutlivesToken' /\ RetiredIsOlder'
  BY <1>2
     DEF AccessEnds, RepliesAreOlder, SessionOutlivesToken, RetiredIsOlder, Revoked, Exists,
              At, Session
<1>7. AloneInSession' /\ FindsItsRow'
  BY <1>2 DEF AloneInSession, FindsItsRow, Sent, At, Session
<1>8. OneBrowserPerSession'
  BY <1>1, <1>2 DEF OneBrowserPerSession, Sent, At, Session
<1>9. CookieFollows'
  BY <1>1, <1>2 DEF CookieFollows, Revoked, Exists, At, Session
<1> QED
  BY <1>3, <1>4, <1>5, <1>6, <1>7, <1>8, <1>9

\* Time does not go back.
LEMMA TickStep ==
  ASSUME AuthInv, Tick
  PROVE  AuthInv'
<1> USE DEF AuthInv, AuthTypeOK
<1>3. AuthTypeOK'
  BY DEF Tick, history
<1>4. TokensAreOfSessions'
  BY TokenFields, RowFields DEF Tick, history, TokensAreOfSessions, Exists
<1>5. RequestsAreOfSessions'
  BY SentToken DEF Tick, RequestsAreOfSessions, Sent, At, Session, Exists
<1>6. AccessEnds'
  BY DEF Tick, history, AccessEnds, TokensAreOfSessions, Revoked
<1>7. RepliesAreOlder'
  BY DEF Tick, RepliesAreOlder, RequestsAreOfSessions, Sent, At, Session, Revoked
<1>8. SessionOutlivesToken'
  BY DEF Tick, history, SessionOutlivesToken, Exists
<1>9. AloneInSession'
  BY DEF Tick, history, AloneInSession, Sent, At, Session
<1>10. FindsItsRow'
  BY DEF Tick, history, FindsItsRow, Sent, At, Session
<1>11. RetiredIsOlder'
  BY DEF Tick, history, RetiredIsOlder
<1>12. OneBrowserPerSession'
  BY DEF Tick, OneBrowserPerSession, Sent, At, Session
<1>13. CookieFollows'
  BY DEF Tick, history, CookieFollows, At, Session, Exists, Revoked
<1> QED
  BY <1>3, <1>4, <1>5, <1>6, <1>7, <1>8, <1>9, <1>10, <1>11, <1>12, <1>13

\* There are no sessions at first.
LEMMA InitInvariant == AuthInit => AuthInv
  BY AuthAssumption, NullAssumption
     DEF AuthInit, AuthInv, AuthTypeOK, AuthRequests, Steps, Sent, At, Exists, Revoked,
         TokensAreOfSessions, RequestsAreOfSessions, AccessEnds, RepliesAreOlder,
         SessionOutlivesToken, AloneInSession, FindsItsRow, RetiredIsOlder,
         OneBrowserPerSession, CookieFollows

\* A step that changes nothing.
LEMMA StutterInvariant == AuthInv /\ UNCHANGED vars => AuthInv'
  BY DEF vars, history, AuthInv, AuthTypeOK, Sent, At, Session, Exists, Revoked,
         TokensAreOfSessions, RequestsAreOfSessions, AccessEnds, RepliesAreOlder,
         SessionOutlivesToken, AloneInSession, FindsItsRow, RetiredIsOlder,
         OneBrowserPerSession, CookieFollows

-----------------------------------------------------------------------------
(* Theorems *)

\* The conjunction that every step of a request and of the clock preserves.
THEOREM AuthInvariant == AuthSpec => []AuthInv
<1>1. AuthInv /\ [AuthNext]_vars => AuthInv'
  <2> SUFFICES ASSUME AuthInv, [AuthNext]_vars
               PROVE  AuthInv'
    OBVIOUS
  <2>1. AuthTypeOK
    BY DEF AuthInv
  <2> QED
    BY <2>1, StepCases, StutterInvariant, SignInStep, CreateAuthSessionStep, SendRefreshStep,
       VerifyStep, IssueStep, RotateAuthSessionStep, SendLogoutStep, RevokeAuthSessionStep,
       ReplyStep, FailStep, ClearCookieStep, TickStep
<1> QED
  BY <1>1, InitInvariant, PTL DEF AuthSpec

\* The rows, the cookies and the requests are well-typed.
THEOREM AuthTypeCorrect == AuthSpec => []AuthTypeOK
<1>1. AuthInv => AuthTypeOK
  BY DEF AuthInv
<1> QED
  BY <1>1, AuthInvariant, PTL

\* No access token is younger than the logout of its session.
THEOREM AccessEndsWithLogout == AuthSpec => []AccessEnds
<1>1. AuthInv => AccessEnds
  BY DEF AuthInv
<1> QED
  BY <1>1, AuthInvariant, PTL

\* A session that was logged out stays as it is.
THEOREM LogoutsAreFinal == AuthSpec => LogoutIsFinal
<1>1. ASSUME AuthInv, [AuthNext]_vars, NEW s \in Sessions, Revoked(s)
      PROVE  row'[s] = row[s]
  <2>1. \/ row' = row
        \/ \E r \in Requests :
             CreateAuthSession(r) \/ RotateAuthSession(r) \/ RevokeAuthSession(r)
    <3>1. AuthTypeOK
      BY <1>1 DEF AuthInv
    <3> QED
      BY <1>1, <3>1, StepCases
         DEF vars, SignIn, SendRefresh, Verify, Issue, SendLogout, ClearCookie, Reply, Fail, Tick
  <2>2. ASSUME NEW r \in Requests, CreateAuthSession(r)
        PROVE  row'[s] = row[s]
    <3>1. ~Exists(Session(r))
      BY <1>1, <2>2 DEF AuthInv, RequestsAreOfSessions, CreateAuthSession, Sent, At
    <3>2. s # Session(r)
      BY <1>1, <3>1 DEF Revoked
    <3> QED
      BY <1>1, <2>2, <3>2 DEF CreateAuthSession, AuthInv, AuthTypeOK
  <2>3. ASSUME NEW r \in Requests, RotateAuthSession(r) \/ RevokeAuthSession(r)
        PROVE  row'[s] = row[s]
    BY <1>1, <2>3 DEF RotateAuthSession, RevokeAuthSession, Live, Revoked, AuthInv, AuthTypeOK
  <2> QED
    BY <2>1, <2>2, <2>3
<1>2. AuthInv /\ [AuthNext]_vars => [\A s \in Sessions : Revoked(s) => row'[s] = row[s]]_vars
  BY <1>1
<1> QED
  BY <1>2, AuthInvariant, PTL DEF AuthSpec, LogoutIsFinal

\* A row does not expire before the token it names.
THEOREM SessionsOutliveTokens == AuthSpec => []SessionOutlivesToken
<1>1. AuthInv => SessionOutlivesToken
  BY DEF AuthInv
<1> QED
  BY <1>1, AuthInvariant, PTL

\* Without overlap a replaced token is not accepted again: what passed Verify
\* is the row's token, and what was retired is older than that.
THEOREM RetiredTokensAreRefused == AuthSpec => []RetiredIsRefused
<1>1. AuthInv => RetiredIsRefused
  <2> SUFFICES ASSUME AuthInv, NEW r \in Requests, At(r, "issue"),
                      Session(r) \notin overlapped, request[r].token \in retired
               PROVE  FALSE
    BY DEF RetiredIsRefused
  <2>1. Sent(r) /\ AuthTypeOK
    BY DEF Sent, At, AuthInv
  <2>2. request[r].token \in Tokens /\ request[r].token.issued \in Nat
    BY <2>1, SentToken DEF AuthInv
  <2>3. request[r].token = row[Session(r)].hash
    BY <2>1 DEF AuthInv, FindsItsRow
  <2>4. request[r].token.issued < row[Session(r)].hash.issued
    BY DEF AuthInv, RetiredIsOlder, Session
  <2> QED
    BY <2>2, <2>3, <2>4
<1> QED
  BY <1>1, AuthInvariant, PTL

\* A browser that neither overlaps its requests nor loses a reply stays
\* signed in.
THEOREM CookiesAreCurrent == AuthSpec => []CookieIsCurrent
<1>1. AuthInv => CookieIsCurrent
  <2> SUFFICES ASSUME AuthInv, NEW b \in Browsers, jar[b] # NoToken,
                      jar[b].session \notin overlapped \cup lost,
                      InFlight(jar[b].session) = {}
               PROVE  Revoked(jar[b].session) \/ row[jar[b].session].hash = jar[b]
    BY DEF CookieIsCurrent
  <2>1. \A r \in Requests : ~(At(r, "signedIn") /\ Session(r) = jar[b].session)
    BY DEF InFlight, At
  <2> QED
    BY <2>1 DEF AuthInv, CookieFollows
<1> QED
  BY <1>1, AuthInvariant, PTL
=============================================================================
