------------------------------- MODULE Chats -------------------------------
(***************************************************************************)
(* Chats, the messages of a chat, and the settings of its users.  A request *)
(* to POST /chats/{id}/messages, or to the streaming variant of it, writes *)
(* the question, reads the history while the knowledge base is searched,   *)
(* asks a language model, hands out what it says and writes the answer.    *)
(* Every read and write is a statement of its own: requests of one user    *)
(* overlap, chats are deleted and roles change in between, and a call may  *)
(* fail or a client go away at any point.                                  *)
(* What is retrieved, and how strict answers are checked and cached, is in *)
(* RetrievalCache and StrictAnswer.                                        *)
(***************************************************************************)
EXTENDS LLMRuntime

CONSTANTS
  Users, ChatIds,
  Requests,      \* processes, each of which serves one request
  Query,         \* the question each of them asks
  Overrides,     \* models that payloads of messages name
  Updates,       \* payloads of PATCH /me/settings
  HistoryLimit,  \* LIMIT of ListChatMessages for the history (50)
  MaxHistory,    \* messages the model is given of it (12)
  MaxRetries,    \* LLM_MAX_RETRIES
  MaxPieces,     \* bound: the pieces of an answer
  NoUser, NoChat

ASSUME ChatsAssumption ==
  /\ HistoryLimit \in Nat \ {0} /\ MaxHistory \in Nat \ {0}
  /\ MaxRetries \in Nat /\ MaxPieces \in Nat \ {0}
  /\ Overrides \subseteq Models \cup {NoModel}
  /\ Updates \subseteq Payloads
  /\ NoUser \notin Users /\ NoChat \notin ChatIds

VARIABLES
  creator,      \* chats.created_by, NoUser before the chat exists
  deleted,      \* chats that were deleted
  messages,     \* the messages of each chat, by created_at
  mayUnstrict,  \* users whose role permits unstrict mode
  settings,     \* user_settings
  request       \* the request each process serves

vars == <<creator, deleted, messages, mayUnstrict, settings, request>>

Kinds == {"message", "stream", "settings"}
Steps == {"idle", "loaded", "moded", "chosen", "asked", "ready", "complete",
          "correct", "streaming", "answered", "store", "save", "done"}

Texts == BoundedSeq({"piece"}, MaxPieces)
Messages == [from : Requests, role : {"user", "assistant"}, mode : Modes, text : Texts]

\* permitted: the user's role permitted unstrict mode when the request was
\* authorised.  text is the answer so far, shown the deltas the client was
\* sent, history the messages for the model.
IsRequest(q) ==
  /\ DOMAIN q = {"at", "kind", "user", "chat", "permitted", "mode", "provider", "attempt",
                 "history", "text", "shown", "settings"}
  /\ q.at \in Steps /\ q.kind \in Kinds
  /\ q.user \in Users \cup {NoUser} /\ q.chat \in ChatIds \cup {NoChat}
  /\ q.permitted \in BOOLEAN /\ q.mode \in Modes
  /\ q.provider \in Configured /\ q.attempt \in 0..MaxRetries
  /\ q.text \in Texts /\ q.shown \in Texts
  /\ q.settings \in Settings

ChatTypeOK ==
  /\ creator \in [ChatIds -> Users \cup {NoUser}]
  /\ deleted \subseteq ChatIds
  /\ messages \in [ChatIds -> Seq(Messages)]
  /\ mayUnstrict \subseteq Users
  /\ settings \in [Users -> Settings]
  /\ DOMAIN request = Requests
  /\ \A r \in Requests : IsRequest(request[r])

NewRequest ==
  [at |-> "idle", kind |-> "message", user |-> NoUser, chat |-> NoChat,
   permitted |-> FALSE, mode |-> "strict", provider |-> DefaultId, attempt |-> 0,
   history |-> <<>>, text |-> <<>>, shown |-> <<>>, settings |-> Fresh]

ChatInit ==
  /\ creator = [c \in ChatIds |-> NoUser]
  /\ deleted = {}
  /\ messages = [c \in ChatIds |-> <<>>]
  /\ mayUnstrict \in SUBSET Users
  /\ settings = [u \in Users |-> Fresh]
  /\ request = [r \in Requests |-> NewRequest]

-----------------------------------------------------------------------------

Exists(c) == creator[c] # NoUser /\ c \notin deleted
At(r, step) == request[r].at = step
InFlight(r) == ~At(r, "idle") /\ ~At(r, "done")

\* Request r goes on; nothing is written.
GoTo(r, rec) ==
  /\ request' = [request EXCEPT ![r] = rec]
  /\ UNCHANGED <<creator, deleted, messages, mayUnstrict, settings>>

\* What is left of a request that has ended.
Ended(r) == [request[r] EXCEPT !.at = "done", !.history = <<>>, !.attempt = 0,
                               !.provider = DefaultId, !.settings = Fresh]

\* An error or a refusal at any point, or a client that goes away: the request
\* context is cancelled, and what has been written stays.
Fail(r) ==
  /\ InFlight(r)
  /\ GoTo(r, Ended(r))

-----------------------------------------------------------------------------
(* Chats and roles *)

CreateChat(u, c) ==
  /\ creator[c] = NoUser
  /\ creator' = [creator EXCEPT ![c] = u]
  /\ UNCHANGED <<deleted, messages, mayUnstrict, settings, request>>

\* Only its creator may delete a chat; its messages go with it (ON DELETE CASCADE).
DeleteChat(u, c) ==
  /\ Exists(c) /\ creator[c] = u
  /\ deleted' = deleted \cup {c}
  /\ messages' = [messages EXCEPT ![c] = <<>>]
  /\ UNCHANGED <<creator, mayUnstrict, settings, request>>

\* A user is given another role, or the role other permissions.
ChangePermission(u) ==
  /\ mayUnstrict' = (mayUnstrict \ {u}) \cup ({u} \ mayUnstrict)
  /\ UNCHANGED <<creator, deleted, messages, settings, request>>

-----------------------------------------------------------------------------
(* Settings *)

\* updateMySettings up to its last check: the settings are read, and the
\* payload is applied to them and validated.
LoadSettings(r, u, p) ==
  LET s == Change(settings[u], p)
  IN  /\ At(r, "idle")
      /\ p.mode = "unstrict" => u \in mayUnstrict
      /\ s.provider \in Configured
      /\ LET n == Normal(s.mode, s.provider, s.model)
         IN  /\ Fits(n.provider, n.model)
             /\ GoTo(r, [request[r] EXCEPT !.at = "save", !.kind = "settings",
                                           !.user = u, !.settings = n])

\* Mutant: fields that did not change keep what the row has now.
SaveFields(r) ==
  LET new == request[r].settings
      old == settings[request[r].user]
  IN  /\ At(r, "save")
      /\ \E s \in {[new EXCEPT !.model = old.model], [new EXCEPT !.provider = old.provider]} :
           settings' = [settings EXCEPT ![request[r].user] = s]
      /\ request' = [request EXCEPT ![r] = Ended(r)]
      /\ UNCHANGED <<creator, deleted, messages, mayUnstrict>>

\* UpsertUserSettings writes all fields: of two updates that overlap the
\* second one wins as a whole.
SaveSettings(r) ==
  /\ At(r, "save")
  /\ settings' = [settings EXCEPT ![request[r].user] = request[r].settings]
  /\ request' = [request EXCEPT ![r] = Ended(r)]
  /\ UNCHANGED <<creator, deleted, messages, mayUnstrict>>

-----------------------------------------------------------------------------
(* A question *)

\* authMiddleware reads the permissions, then GetChat the chat; only its
\* creator may write to it.
LoadChat(r, u, c, kind) ==
  /\ At(r, "idle")
  /\ Exists(c) /\ creator[c] = u
  /\ GoTo(r, [request[r] EXCEPT !.at = "loaded", !.kind = kind, !.user = u,
                                !.chat = c, !.permitted = u \in mayUnstrict])

\* Mutant: the stored mode is taken to be permitted.
ResolveModeTrusting(r) ==
  /\ At(r, "loaded")
  /\ \E m \in Modes :
       /\ \/ m = "unstrict" => request[r].permitted
          \/ m = settings[request[r].user].mode
       /\ GoTo(r, [request[r] EXCEPT !.at = "moded", !.mode = m])

\* resolveMode: the mode of the payload, or else the default mode the user has
\* stored; either needs the permission.
ResolveMode(r) ==
  /\ At(r, "loaded")
  /\ \E requested \in Modes \cup {Unset} :
       LET m == Given(requested, settings[request[r].user].mode)
       IN  /\ m = "unstrict" => request[r].permitted
           /\ GoTo(r, [request[r] EXCEPT !.at = "moded", !.mode = m])

\* GetUserSettings again and resolveLLMSelection.
ChooseModel(r) ==
  /\ At(r, "moded")
  /\ \E model \in Overrides :
       LET s == settings[request[r].user]
       IN  /\ Fits(s.provider, s.model)
           /\ model # NoModel => Fits(s.provider, model)
           /\ GoTo(r, [request[r] EXCEPT !.at = "chosen", !.provider = s.provider])

\* Mutant: messages.chat_id references nothing.
WriteToAnyChat(r, role, text) ==
  messages' = [messages EXCEPT ![request[r].chat] =
    Append(@, [from |-> r, role |-> role, mode |-> request[r].mode, text |-> text])]

\* The INSERT of CreateMessage: chat_id REFERENCES chats(id).
Write(r, role, text) ==
  /\ Exists(request[r].chat)
  /\ messages' = [messages EXCEPT ![request[r].chat] =
       Append(@, [from |-> r, role |-> role, mode |-> request[r].mode, text |-> text])]

Ask(r) ==
  /\ At(r, "chosen")
  /\ Write(r, "user", <<>>)
  /\ request' = [request EXCEPT ![r].at = "asked"]
  /\ UNCHANGED <<creator, deleted, mayUnstrict, settings>>

-----------------------------------------------------------------------------
(* The history *)

\* What is kept of the messages up to each of them.
OfMode(log, mode) ==
  LET kept[n \in 0..Len(log)] ==
        IF n = 0 THEN <<>>
        ELSE IF log[n].mode = mode THEN Append(kept[n - 1], log[n])
        ELSE kept[n - 1]
  IN  kept[Len(log)]

Latest(log, n) == SubSeq(log, Len(log) - n + 1, Len(log))

\* ListChatMessages: the oldest messages of the chat, up to the limit.
Listed(c) ==
  LET log == messages[c]
  IN  SubSeq(log, 1, IF Len(log) < HistoryLimit THEN Len(log) ELSE HistoryLimit)

\* The message that was just written is not repeated in the history.
WithoutQuestion(log, r) ==
  IF log # <<>> /\ Last(log).role = "user" /\ Query[Last(log).from] = Query[r]
  THEN Front(log)
  ELSE log

\* Mutant: the question is not taken out.
HistoryAsStored(r) ==
  LET seen == OfMode(Listed(request[r].chat), request[r].mode)
  IN  Latest(seen, IF Len(seen) < MaxHistory THEN Len(seen) ELSE MaxHistory)

\* buildChatHistoryForLLM: of the messages in the request's mode the last ones
\* are kept.
HistoryOf(r) ==
  LET past == WithoutQuestion(OfMode(Listed(request[r].chat), request[r].mode), r)
  IN  Latest(past, IF Len(past) < MaxHistory THEN Len(past) ELSE MaxHistory)

\* preloadChatHistory and awaitChatHistory, while the knowledge base is
\* searched.  A history that cannot be read is empty.
ReadHistory(r) ==
  /\ At(r, "asked")
  /\ \E h \in {HistoryOf(r), <<>>} :
       GoTo(r, [request[r] EXCEPT !.at = "ready", !.history = h])

-----------------------------------------------------------------------------
(* The answer *)

\* Deltas of the answer go to the client while the model writes it.
Streams(r) == request[r].kind = "stream" /\ request[r].mode = "unstrict"

\* A strict answer from the cache or without chunks, or a cached unstrict one.
AnswerWithoutModel(r, text) ==
  /\ At(r, "ready") /\ ~Streams(r)
  /\ text # <<>>
  /\ GoTo(r, [request[r] EXCEPT !.at = "answered", !.text = text, !.history = <<>>])

CallModel(r) ==
  /\ At(r, "ready")
  /\ GoTo(r, [request[r] EXCEPT !.at = "complete", !.history = <<>>])

\* retryRequest: an attempt that ends in 429, in 5xx or without a response is
\* made again after a backoff, up to MaxRetries times; the last one's error
\* ends the request (Fail).
RetryModel(r) ==
  /\ At(r, "complete") \/ At(r, "correct")
  /\ request[r].provider # "local"
  /\ request[r].attempt < MaxRetries
  /\ GoTo(r, [request[r] EXCEPT !.attempt = @ + 1])

\* A completion of one piece; an empty one is an error.
ModelCompletes(r, text) ==
  /\ ~Streams(r)
  /\ At(r, "complete") \/ At(r, "correct")
  /\ text # <<>>
  /\ GoTo(r, [request[r] EXCEPT !.at = "answered", !.text = text])

\* Mutant: a strict answer is asked for until it is valid.
CompleteStrictUntilValid(r) ==
  /\ request[r].mode = "strict"
  /\ At(r, "complete") \/ At(r, "correct")
  /\ GoTo(r, [request[r] EXCEPT !.at = IF @ = "complete" THEN "correct" ELSE "complete",
                                !.attempt = 0])

\* completeStrictRetry: a strict answer that is not valid is asked for once
\* more, and what comes out of that is replaced by quotes or by the fallback
\* when it is not valid either.
CompleteStrictRetry(r) ==
  /\ At(r, "complete") /\ request[r].mode = "strict"
  /\ GoTo(r, [request[r] EXCEPT !.at = "correct", !.attempt = 0])

\* StreamComplete gets a response it can read.
ModelStreams(r) ==
  /\ At(r, "complete") /\ Streams(r)
  /\ GoTo(r, [request[r] EXCEPT !.at = "streaming"])

\* onDelta sends each piece on as it comes.
Delta(r) ==
  /\ At(r, "streaming")
  /\ Len(request[r].text) < MaxPieces
  /\ GoTo(r, [request[r] EXCEPT !.text = Append(@, "piece"), !.shown = Append(@, "piece")])

\* Mutant: a stream that breaks is asked for again.
EndOrRestartStream(r) ==
  /\ At(r, "streaming")
  /\ \/ /\ request[r].text # <<>>
        /\ GoTo(r, [request[r] EXCEPT !.at = "store"])
     \/ /\ request[r].attempt < MaxRetries
        /\ GoTo(r, [request[r] EXCEPT !.at = "complete", !.attempt = @ + 1, !.text = <<>>])

\* The stream ends, or is cut off without an error; a stream that breaks ends
\* the request (Fail), whatever has been shown of it.
EndStream(r) ==
  /\ At(r, "streaming")
  /\ request[r].text # <<>>
  /\ GoTo(r, [request[r] EXCEPT !.at = "store"])

\* The streaming handler sends an answer that is complete in pieces
\* (splitAnswerToChunks); the other one sends it with the reply.
SendAnswer(r) ==
  /\ At(r, "answered")
  /\ GoTo(r, [request[r] EXCEPT !.at = "store",
                !.shown = IF request[r].kind = "stream" THEN request[r].text ELSE @])

StoreAnswer(r) ==
  /\ At(r, "store")
  /\ Write(r, "assistant", request[r].text)
  /\ request' = [request EXCEPT ![r] = Ended(r)]
  /\ UNCHANGED <<creator, deleted, mayUnstrict, settings>>

-----------------------------------------------------------------------------

\* A question up to the call of the model, and the answer from there on.
Question(r) ==
  \/ ResolveMode(r) \/ ChooseModel(r) \/ Ask(r)
  \/ ReadHistory(r)

Answer(r) ==
  \/ \E text \in Texts : AnswerWithoutModel(r, text) \/ ModelCompletes(r, text)
  \/ CallModel(r) \/ RetryModel(r) \/ CompleteStrictRetry(r)
  \/ ModelStreams(r) \/ Delta(r) \/ EndStream(r)
  \/ SendAnswer(r) \/ StoreAnswer(r)

\* What the server does for a request that has begun.
Serve(r) == SaveSettings(r) \/ Question(r) \/ Answer(r)

Begin(r) ==
  \/ \E u \in Users, p \in Updates : LoadSettings(r, u, p)
  \/ \E u \in Users, c \in ChatIds, kind \in {"message", "stream"} : LoadChat(r, u, c, kind)

Environment ==
  \/ \E u \in Users, c \in ChatIds : CreateChat(u, c) \/ DeleteChat(u, c)
  \/ \E u \in Users : ChangePermission(u)

ChatNext ==
  \/ \E r \in Requests : Begin(r) \/ Serve(r) \/ Fail(r)
  \/ Environment

ChatSpec == ChatInit /\ [][ChatNext]_vars

\* A call to a model that may wait for its response for ever.
MayHang(r) ==
  /\ At(r, "complete") \/ At(r, "correct")
  /\ ~HasTimeout(request[r].provider, Streams(r))

\* A request that was begun is served to its end: the database answers, and
\* every call to another service answers or times out, except those that may
\* hang, which nothing but the client's leaving need end.
FairChatSpec ==
  /\ ChatSpec
  /\ \A r \in Requests : WF_vars(~MayHang(r) /\ (Serve(r) \/ Fail(r)))

-----------------------------------------------------------------------------
(* Properties *)

Positions(c, r, role) ==
  {i \in DOMAIN messages[c] : messages[c][i].from = r /\ messages[c][i].role = role}

\* A chat that does not exist (any more) has no messages, although it may be
\* deleted while a question waits for its answer; an answer stands after the
\* question it was given to, once, and in its mode.
AnswersFollowQuestions ==
  \A c \in ChatIds :
    /\ ~Exists(c) => messages[c] = <<>>
    /\ \A r \in Requests : \A i \in Positions(c, r, "assistant") :
         /\ Positions(c, r, "assistant") = {i}
         /\ \E q \in Positions(c, r, "user") :
              q < i /\ messages[c][q].mode = messages[c][i].mode

\* However updates overlap, the stored provider has the stored model: a row
\* that mixed two updates would make every message of the user fail.
SettingsFit ==
  \A u \in Users : Fits(settings[u].provider, settings[u].model)

\* An unstrict message is there only if the user's role permitted unstrict mode
\* when its request was authorised, not when the default mode was stored.
UnstrictWasPermitted ==
  \A c \in ChatIds : \A i \in DOMAIN messages[c] :
    messages[c][i].mode = "unstrict" => request[messages[c][i].from].permitted

\* The answer that is stored is what the client was shown delta by delta, but
\* for blanks at its ends: retries never repeat or drop a part of it.
StoredIsShown ==
  \A c \in ChatIds : \A i \in DOMAIN messages[c] :
    LET m == messages[c][i]
    IN  m.role = "assistant" /\ request[m.from].kind = "stream" =>
          m.text = request[m.from].shown

\* In a chat within the limit, to which no other request has written since the
\* question, the model is given the latest messages of the mode before the
\* question, in order, and not the question itself.
HistoryIsPast ==
  \A r \in Requests :
    At(r, "ready") /\ Exists(request[r].chat) /\ request[r].history # <<>> =>
      LET log == messages[request[r].chat]
          past == OfMode(Front(log), request[r].mode)
      IN  Len(log) <= HistoryLimit /\ Last(log).from = r =>
            IsSuffix(request[r].history, past)

\* A request that has begun ends, whatever fails; the model's retries and
\* LLM_HTTP_TIMEOUT bound the longest part of it.
RequestsEnd ==
  \A r \in Requests : InFlight(r) ~> At(r, "done")

-----------------------------------------------------------------------------
(* The inductive invariant behind the properties *)

BeforeQuestion == {"idle", "loaded", "moded", "chosen", "save"}
BeforeAnswer == BeforeQuestion \cup {"asked", "ready", "complete", "correct"}
AfterQuestion == {"asked", "ready", "complete", "correct", "streaming", "answered", "store"}

\* A question is a user's, in a chat that exists or did.  The mode is one the
\* user was permitted.  What updateMySettings is about to write was validated as
\* a whole.  The client is shown nothing before there is an answer, and all of
\* it as it grows.
RequestInv(r) ==
  LET q == request[r]
  IN  /\ q.at \in AfterQuestion \cup {"loaded", "moded", "chosen"} =>
           q.user \in Users /\ q.chat \in ChatIds /\ creator[q.chat] # NoUser
      /\ q.mode = "unstrict" => q.permitted
      /\ q.at = "idle" => q.mode = "strict"
      /\ q.at = "save" => q.user \in Users /\ Fits(q.settings.provider, q.settings.model)
      /\ q.at \in BeforeAnswer => q.text = <<>> /\ q.shown = <<>>
      /\ q.at = "streaming" \/ (q.at = "store" /\ q.kind = "stream") => q.text = q.shown

\* A request has written its question, and not yet its answer, while it waits
\* for one, unless the chat was deleted.
WritesInOrder(r) ==
  LET q == request[r]
  IN  /\ q.at \in BeforeQuestion => \A c \in ChatIds : Positions(c, r, "user") = {}
      /\ q.at # "done" => \A c \in ChatIds : Positions(c, r, "assistant") = {}
      /\ q.at \in AfterQuestion /\ Exists(q.chat) =>
           \E i \in Positions(q.chat, r, "user") : messages[q.chat][i].mode = q.mode

\* The questions of a request are in its mode, and the history it was given is
\* still what it would read while its question is the last message of its chat.
HistoryInv(r) ==
  LET q == request[r]
  IN  /\ q.at \in AfterQuestion =>
           \A c \in ChatIds : \A i \in Positions(c, r, "user") :
             messages[c][i].mode = q.mode
      /\ At(r, "ready") /\ Exists(q.chat) /\ q.history # <<>> =>
           (Last(messages[q.chat]).from = r => q.history = HistoryOf(r))

ChatInv ==
  /\ ChatTypeOK
  /\ \A r \in Requests : RequestInv(r) /\ WritesInOrder(r) /\ HistoryInv(r)
  /\ AnswersFollowQuestions
  /\ SettingsFit
  /\ UnstrictWasPermitted
  /\ StoredIsShown
=============================================================================
