---------------------------- MODULE AuthSessions ----------------------------
(***************************************************************************)
(* Sign-in sessions: registerOwner, login, refresh and logout over the     *)
(* table auth_sessions.  A session has one refresh token at a time, whose  *)
(* hash is in its row; a refresh replaces it by a new one, which the reply *)
(* puts into the browser's cookie jar.  Requests of one browser share its  *)
(* jar and overlap, and their replies arrive in any order or not at all.   *)
(*                                                                         *)
(* A refresh token is a JWT over the session, the user and two times in    *)
(* whole seconds, with nothing random in it: two tokens issued for one     *)
(* session within one second are the same token.                           *)
(***************************************************************************)
EXTENDS Integers, FiniteSets

CONSTANTS
  Sessions,    \* session ids (uuid.NewString)
  Users,
  Browsers,
  Requests,    \* processes, each of which runs one request after another
  BrowserOf,   \* the browser each of them belongs to
  RefreshTTL,  \* life of a refresh token, in seconds
  MaxTime,     \* bound: the clock stops here
  NoRow, NoToken

ASSUME AuthAssumption ==
  /\ BrowserOf \in [Requests -> Browsers]
  /\ RefreshTTL \in Nat \ {0}
  /\ MaxTime \in Nat

VARIABLES
  now,         \* the clock, in whole seconds
  users,       \* users that registered
  row,         \* auth_sessions
  jar,         \* the cookie refresh_token of each browser
  request,     \* the request each process runs
  handed,      \* history: the tokens that a reply handed to a browser
  retired,     \* history: the tokens a refresh replaced by another
  overlapped,  \* history: sessions of which two requests were in flight
  lost         \* history: sessions of which a reply got lost

vars == <<now, users, row, jar, request, handed, retired, overlapped, lost>>
history == <<handed, retired, overlapped, lost>>

Tokens == [session : Sessions, user : Users, issued : Nat]

Never == -1  \* revoked_at IS NULL

\* The hash of a token stands for the token.
Rows == [hash : Tokens, expires : Nat, revoked : Nat \cup {Never}]

ASSUME NullAssumption == NoRow \notin Rows /\ NoToken \notin Tokens

Steps == {"idle", "verify", "issue", "create", "rotate", "revoke", "signedIn", "signedOut"}

\* token is the one a request runs on: the cookie it came with, and from
\* "create" or "rotate" on the one it issued.
AuthRequests == [at : Steps, token : Tokens \cup {NoToken}]

AuthTypeOK ==
  /\ now \in Nat
  /\ users \subseteq Users
  /\ row \in [Sessions -> Rows \cup {NoRow}]
  /\ jar \in [Browsers -> Tokens \cup {NoToken}]
  /\ request \in [Requests -> AuthRequests]
  /\ handed \subseteq Tokens
  /\ retired \subseteq Tokens
  /\ overlapped \subseteq Sessions
  /\ lost \subseteq Sessions

AuthInit ==
  /\ now = 0
  /\ users = {}
  /\ row = [s \in Sessions |-> NoRow]
  /\ jar = [b \in Browsers |-> NoToken]
  /\ request = [r \in Requests |-> [at |-> "idle", token |-> NoToken]]
  /\ handed = {} /\ retired = {} /\ overlapped = {} /\ lost = {}

-----------------------------------------------------------------------------
(* Sessions and requests *)

Row(token, expires, revoked) == [hash |-> token, expires |-> expires, revoked |-> revoked]

\* NewTokenPair: exp follows from the second of issue.
NewToken(s, u) == [session |-> s, user |-> u, issued |-> now]

Exists(s) == row[s] # NoRow
Revoked(s) == Exists(s) /\ row[s].revoked # Never
Live(s) == Exists(s) /\ row[s].revoked = Never

At(r, step) == request[r].at = step
Session(r) == request[r].token.session
InFlight(s) == {r \in Requests : ~At(r, "idle") /\ Session(r) = s}

Cookie(r) == jar[BrowserOf[r]]

GoTo(r, step, token) == request' = [request EXCEPT ![r] = [at |-> step, token |-> token]]

\* A request on the browser's cookie may overlap with another one of its session.
Send(r, step) ==
  /\ GoTo(r, step, Cookie(r))
  /\ overlapped' = overlapped \cup {s \in {Cookie(r).session} : InFlight(s) # {}}

End(r) == GoTo(r, "idle", NoToken)

\* JWT validation: exp is the second of issue plus the TTL.
Unexpired(token) == now < token.issued + RefreshTTL

-----------------------------------------------------------------------------
(* registerOwner and login *)

\* A user that is new (registerOwner, which commits the user before the rest)
\* or one whose password was right (login) gets a session id of its own.
SignIn(r, u, s) ==
  /\ At(r, "idle")
  /\ ~Exists(s) /\ InFlight(s) = {}
  /\ users' = users \cup {u}
  /\ GoTo(r, "create", NewToken(s, u))
  /\ UNCHANGED <<now, row, jar, history>>

\* INSERT.  The row's expiry is computed when the token has been issued and
\* before the statement takes effect.
CreateAuthSession(r) ==
  LET token == request[r].token IN
  /\ At(r, "create")
  /\ \E t \in token.issued .. now :
       row' = [row EXCEPT ![Session(r)] = Row(token, t + RefreshTTL, Never)]
  /\ GoTo(r, "signedIn", token)
  /\ UNCHANGED <<now, users, jar, history>>

-----------------------------------------------------------------------------
(* refresh *)

\* The cookie is sent, and passes ParseToken.
SendRefresh(r) ==
  /\ At(r, "idle")
  /\ Cookie(r) # NoToken /\ Unexpired(Cookie(r))
  /\ Send(r, "verify")
  /\ UNCHANGED <<now, users, row, jar, handed, retired, lost>>

\* Mutant: the token is not compared with the row's.
VerifyAnyToken(r) ==
  /\ At(r, "verify")
  /\ Live(Session(r))
  /\ now <= row[Session(r)].expires
  /\ GoTo(r, "issue", request[r].token)
  /\ UNCHANGED <<now, users, row, jar, history>>

\* GetAuthSession and the checks of the row.  In the second in which the row
\* expires, time.Now() may be before it or after.
Verify(r) ==
  /\ At(r, "verify")
  /\ Live(Session(r))
  /\ now <= row[Session(r)].expires
  /\ row[Session(r)].hash = request[r].token
  /\ GoTo(r, "issue", request[r].token)
  /\ UNCHANGED <<now, users, row, jar, history>>

\* GetUserByID, then NewTokenPair.
Issue(r) ==
  /\ At(r, "issue")
  /\ GoTo(r, "rotate", NewToken(Session(r), request[r].token.user))
  /\ UNCHANGED <<now, users, row, jar, history>>

\* Mutants: a row r with these columns is updated, revoked or not; the expiry
\* is not extended; the hash is not replaced.
Rotated(r, states, columns) ==
  LET token == request[r].token
      s == Session(r)
  IN
  /\ At(r, "rotate")
  /\ Exists(s) /\ row[s].revoked \in states
  /\ row' = [row EXCEPT ![s] =
       Row(IF "hash" \in columns THEN token ELSE row[s].hash,
           IF "expires" \in columns THEN token.issued + RefreshTTL ELSE row[s].expires,
           row[s].revoked)]
  /\ retired' = retired \cup ({row[s].hash} \ {token})
  /\ GoTo(r, "signedIn", token)
  /\ UNCHANGED <<now, users, jar, handed, overlapped, lost>>

RotateRevoked(r) == Rotated(r, Nat \cup {Never}, {"hash", "expires"})
RotateKeepingExpiry(r) == Rotated(r, {Never}, {"hash"})
RotateKeepingHash(r) == Rotated(r, {Never}, {"expires"})

\* UPDATE ... WHERE revoked_at IS NULL.  The row is not compared with the one
\* that was verified.
RotateAuthSession(r) ==
  LET token == request[r].token
      s == Session(r)
  IN
  /\ At(r, "rotate")
  /\ Live(s)
  /\ \E t \in token.issued .. now :
       row' = [row EXCEPT ![s] = Row(token, t + RefreshTTL, Never)]
  /\ retired' = retired \cup ({row[s].hash} \ {token})
  /\ GoTo(r, "signedIn", token)
  /\ UNCHANGED <<now, users, jar, handed, overlapped, lost>>

-----------------------------------------------------------------------------
(* logout *)

\* The cookie is sent, and passes ParseToken.
SendLogout(r) ==
  /\ At(r, "idle")
  /\ Cookie(r) # NoToken /\ Unexpired(Cookie(r))
  /\ Send(r, "revoke")
  /\ UNCHANGED <<now, users, row, jar, handed, retired, lost>>

\* Mutant: revoked_at is written again.
RevokeAgain(r) ==
  /\ At(r, "revoke")
  /\ row' = [row EXCEPT ![Session(r)] =
               IF Exists(Session(r)) THEN Row(@.hash, @.expires, now) ELSE @]
  /\ GoTo(r, "signedOut", request[r].token)
  /\ UNCHANGED <<now, users, jar, history>>

\* UPDATE ... WHERE revoked_at IS NULL; that no row matched is no error.  The
\* token is not compared with the row's: any token of the session ends it.
RevokeAuthSession(r) ==
  /\ At(r, "revoke")
  /\ row' = [row EXCEPT ![Session(r)] =
               IF Live(Session(r)) THEN Row(@.hash, @.expires, now) ELSE @]
  /\ GoTo(r, "signedOut", request[r].token)
  /\ UNCHANGED <<now, users, jar, history>>

\* A logout with no cookie, or with one that does not parse, only clears the
\* jar: also of a cookie that another reply has put there since it was sent.
\* A cookie whose MaxAge is over goes the same way.
ClearCookie(b) ==
  /\ jar[b] # NoToken
  /\ jar' = [jar EXCEPT ![b] = NoToken]
  /\ UNCHANGED <<now, users, row, request, history>>

-----------------------------------------------------------------------------
(* Replies, failures, time *)

\* The reply sets or clears the cookie of the browser.
Reply(r) ==
  LET token == request[r].token IN
  /\ \/ /\ At(r, "signedIn")
        /\ jar' = [jar EXCEPT ![BrowserOf[r]] = token]
        /\ handed' = handed \cup {token}
     \/ /\ At(r, "signedOut")
        /\ jar' = [jar EXCEPT ![BrowserOf[r]] = NoToken]
        /\ UNCHANGED handed
  /\ End(r)
  /\ UNCHANGED <<now, users, row, retired, overlapped, lost>>

\* A check refuses the request (401), a call fails (500), or its effect is
\* committed and the reply gets lost on the way.  The jar stays as it is.
Fail(r) ==
  /\ ~At(r, "idle")
  /\ lost' = IF At(r, "signedIn") THEN lost \cup {Session(r)} ELSE lost
  /\ End(r)
  /\ UNCHANGED <<now, users, row, jar, handed, retired, overlapped>>

Tick ==
  /\ now < MaxTime
  /\ now' = now + 1
  /\ UNCHANGED <<users, row, jar, request, history>>

Register(r) == \E u \in Users \ users, s \in Sessions : SignIn(r, u, s)
Login(r) == \E u \in users, s \in Sessions : SignIn(r, u, s)

Refresh(r) ==
  \/ SendRefresh(r)
  \/ Verify(r)
  \/ Issue(r)
  \/ RotateAuthSession(r)

Logout(r) ==
  \/ SendLogout(r)
  \/ RevokeAuthSession(r)

AuthNext ==
  \/ \E r \in Requests :
       \/ Register(r)
       \/ Login(r)
       \/ CreateAuthSession(r)
       \/ Refresh(r)
       \/ Logout(r)
       \/ Reply(r)
       \/ Fail(r)
  \/ \E b \in Browsers : ClearCookie(b)
  \/ Tick

AuthSpec == AuthInit /\ [][AuthNext]_vars

-----------------------------------------------------------------------------
(* Properties *)

\* Nobody gets an access token younger than the logout of its session, also
\* from a refresh that had passed every check before the logout: access ends
\* at the latest one AccessTTL after revoked_at.
AccessEnds ==
  \A t \in handed : Revoked(t.session) => t.issued <= row[t.session].revoked

\* The row of a session that was logged out never changes again: no late
\* rotation, no second logout that moves revoked_at.
LogoutIsFinal ==
  [][\A s \in Sessions : Revoked(s) => row'[s] = row[s]]_vars

\* A token never outlives its session: as long as the token that a row names
\* has not expired, neither has the row, whichever of two refreshes was last.
SessionOutlivesToken ==
  \A s \in Sessions : Exists(s) => row[s].hash.issued + RefreshTTL <= row[s].expires

\* As long as the requests of a session do not overlap, a refresh token that
\* was replaced is not accepted again (Verify): rotation takes it away.
RetiredIsRefused ==
  \A r \in Requests :
    At(r, "issue") /\ Session(r) \notin overlapped => request[r].token \notin retired

\* A browser that sends its requests one after another and loses no reply has
\* a cookie that the server accepts, until it expires or is logged out.
CookieIsCurrent ==
  \A b \in Browsers :
    LET s == jar[b].session IN
    (/\ jar[b] # NoToken
     /\ s \notin overlapped \cup lost
     /\ InFlight(s) = {}) => Revoked(s) \/ row[s].hash = jar[b]

-----------------------------------------------------------------------------
(* The inductive invariant *)

Sent(r) == ~At(r, "idle")

\* Tokens were issued in the past, for sessions that exist from the INSERT on.
TokensAreOfSessions ==
  /\ \A t \in handed \cup retired : t.issued <= now /\ Exists(t.session)
  /\ \A b \in Browsers : jar[b] # NoToken => jar[b].issued <= now /\ Exists(jar[b].session)
  /\ \A s \in Sessions : Exists(s) => row[s].hash.session = s /\ row[s].hash.issued <= now

RequestsAreOfSessions ==
  \A r \in Requests : Sent(r) =>
    /\ request[r].token # NoToken
    /\ request[r].token.issued <= now
    /\ IF At(r, "create")
       THEN ~Exists(Session(r)) /\ \A q \in Requests : Sent(q) /\ Session(q) = Session(r) => q = r
       ELSE Exists(Session(r))

\* A logout cuts off the replies under way as well.
RepliesAreOlder ==
  \A r \in Requests :
    At(r, "signedIn") /\ Revoked(Session(r)) =>
      request[r].token.issued <= row[Session(r)].revoked

\* Without overlap a request is alone in its session, and finds the row as it
\* left it.
AloneInSession ==
  \A r, q \in Requests :
    Sent(r) /\ Sent(q) /\ Session(r) = Session(q) /\ Session(r) \notin overlapped => r = q

FindsItsRow ==
  \A r \in Requests : Sent(r) /\ Session(r) \notin overlapped =>
    /\ At(r, "issue") => request[r].token = row[Session(r)].hash
    /\ At(r, "rotate") => /\ row[Session(r)].hash.issued <= request[r].token.issued
                          /\ row[Session(r)].hash.user = request[r].token.user
    /\ At(r, "signedIn") => request[r].token = row[Session(r)].hash

RetiredIsOlder ==
  \A t \in retired : t.session \notin overlapped => t.issued < row[t.session].hash.issued

\* A session lives in one browser.
OneBrowserPerSession ==
  /\ \A b, c \in Browsers :
       jar[b] # NoToken /\ jar[c] # NoToken /\ jar[b].session = jar[c].session => b = c
  /\ \A r \in Requests, b \in Browsers :
       Sent(r) /\ jar[b] # NoToken /\ jar[b].session = Session(r) => BrowserOf[r] = b
  /\ \A r, q \in Requests :
       Sent(r) /\ Sent(q) /\ Session(r) = Session(q) => BrowserOf[r] = BrowserOf[q]

\* The cookie is the row's token, unless the reply that will set it is under way.
CookieFollows ==
  \A b \in Browsers :
    LET s == jar[b].session IN
    jar[b] # NoToken /\ s \notin overlapped \cup lost =>
      \/ Revoked(s)
      \/ row[s].hash = jar[b]
      \/ \E r \in Requests : At(r, "signedIn") /\ Session(r) = s

AuthInv ==
  /\ AuthTypeOK
  /\ TokensAreOfSessions
  /\ RequestsAreOfSessions
  /\ AccessEnds
  /\ RepliesAreOlder
  /\ SessionOutlivesToken
  /\ AloneInSession
  /\ FindsItsRow
  /\ RetiredIsOlder
  /\ OneBrowserPerSession
  /\ CookieFollows
=============================================================================
