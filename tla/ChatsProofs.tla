---------------------------- MODULE ChatsProofs ----------------------------
(***************************************************************************)
(* Machine-checked proofs about module Chats, for any number of users,     *)
(* chats, requests and models, any LLM_MAX_RETRIES and answers of any      *)
(* length.                                                                 *)
(*                                                                         *)
(* What is stored is tied to the request that wrote it: a request does not *)
(* change any more what its messages depend on (WritesInOrder), and a      *)
(* message is written at the end of a chat that exists (WriteStep).        *)
(*                                                                         *)
(* The messages of a mode are the value of a recursive function            *)
(* (OfModeOfLast), so that a log that ends in the question leaves, without *)
(* it, the past: that is what a request was given for as long as nobody    *)
(* writes after its question (HistoryInv).                                 *)
(***************************************************************************)
EXTENDS Chats, SequenceTheorems, WellFoundedInduction, TLAPS

-----------------------------------------------------------------------------
(* Providers, models and settings *)

\* The default model of a provider is one of its models, if it has any.
LEMMA DefaultModelFits ==
  ASSUME NEW p \in Configured
  PROVE  Fits(p, DefaultModel[p])
<1>1. CASE p = "local"
  BY <1>1 DEF Fits, DefaultModel
<1>2. CASE p # "local"
  <2> DEFINE names == ModelNames[p]
             named == {i \in DOMAIN names : names[i] # NoModel}
  <2>1. names \in [1..3 -> Models \cup {NoModel}]
    BY <1>2, RuntimeAssumption DEF Configured
  <2>2. CASE named = {}
    <3>1. DefaultModel[p] = NoModel
      BY <1>2, <2>2 DEF DefaultModel, FirstNonEmpty
    <3> QED
      BY <3>1 DEF Fits
  <2>3. CASE named # {}
    <3>1. \E i \in named : \A j \in named : i =< j
      <4>1. CASE 1 \in named
        BY <2>1, <4>1
      <4>2. CASE 1 \notin named /\ 2 \in named
        BY <2>1, <4>2
      <4>3. CASE 1 \notin named /\ 2 \notin named
        BY <2>1, <2>3, <4>3
      <4> QED
        BY <4>1, <4>2, <4>3
    <3>2. Min(named) \in named
      BY <3>1 DEF Min
    <3>3. DefaultModel[p] = names[Min(named)]
      BY <1>2, <2>3 DEF DefaultModel, FirstNonEmpty
    <3>4. DefaultModel[p] \in ModelsOf[p]
      BY <1>2, <2>1, <3>2, <3>3 DEF ModelsOf, UniqueNonEmpty, ToSet
    <3> QED
      BY <3>4 DEF Fits
  <2> QED
    BY <2>2, <2>3
<1> QED
  BY <1>1, <1>2

\* A model that fits is a model.
LEMMA FittingModels ==
  ASSUME NEW p, NEW model, Fits(p, model)
  PROVE  p \in Configured /\ model \in Models \cup {NoModel}
<1>1. CASE p = "local" \/ model = NoModel
  BY <1>1 DEF Fits, ModelsOf
<1>2. CASE p # "local" /\ model \in ModelsOf[p]
  BY <1>2, RuntimeAssumption DEF Fits, ModelsOf, UniqueNonEmpty, ToSet, Configured
<1> QED
  BY <1>1, <1>2 DEF Fits

\* A user without a row has settings that fit.
LEMMA FreshSettings ==
  /\ Fresh \in Settings
  /\ Fits(Fresh.provider, Fresh.model)
<1>1. DefaultId \in Configured
  BY RuntimeAssumption
<1>2. Fits(DefaultId, DefaultModel[DefaultId])
  BY <1>1, DefaultModelFits
<1>3. Fresh = [mode |-> "strict", provider |-> DefaultId, model |-> DefaultModel[DefaultId]]
  BY DEF Fresh, Normal
<1> QED
  BY <1>1, <1>2, <1>3, FittingModels DEF Settings, Modes

-----------------------------------------------------------------------------
(* Steps *)

LEMMA TextsAreSequences ==
  /\ Texts = UNION {[1..n -> {"piece"}] : n \in 0..MaxPieces}
  /\ <<>> \in Texts
<1>1. Texts = UNION {[1..n -> {"piece"}] : n \in 0..MaxPieces}
  BY DEF Texts, BoundedSeq, SeqOf
<1>2. <<>> \in [1..0 -> {"piece"}]
  OBVIOUS
<1> QED
  BY <1>1, <1>2, ChatsAssumption

\* A text that may grow by a piece stays within the bound.
LEMMA TextGrows ==
  ASSUME NEW text \in Texts, Len(text) < MaxPieces
  PROVE  Append(text, "piece") \in Texts
<1>1. PICK n \in 0..MaxPieces : text \in [1..n -> {"piece"}]
  BY TextsAreSequences
<1>2. text \in Seq({"piece"}) /\ Len(text) = n
  BY <1>1, ChatsAssumption, IsASeq, LenProperties
<1>3. Append(text, "piece") \in [1..(n + 1) -> {"piece"}]
  BY <1>2, AppendProperties, LenProperties
<1> QED
  BY <1>2, <1>3, ChatsAssumption, TextsAreSequences

\* A message is added at the end of the request's chat.
LEMMA WriteStep ==
  ASSUME ChatTypeOK, NEW r \in Requests, NEW role \in {"user", "assistant"},
         NEW text \in Texts, Write(r, role, text), request[r].chat \in ChatIds
  PROVE  LET c == request[r].chat
             new == [from |-> r, role |-> role, mode |-> request[r].mode, text |-> text]
         IN  /\ Exists(c)
             /\ messages' \in [ChatIds -> Seq(Messages)]
             /\ \A x \in ChatIds \ {c} : messages'[x] = messages[x]
             /\ DOMAIN messages'[c] = 1..(Len(messages[c]) + 1)
             /\ DOMAIN messages[c] = 1..Len(messages[c]) /\ Len(messages[c]) \in Nat
             /\ \A i \in DOMAIN messages[c] : messages'[c][i] = messages[c][i]
             /\ messages'[c][Len(messages[c]) + 1] = new
<1> DEFINE c == request[r].chat
           new == [from |-> r, role |-> role, mode |-> request[r].mode, text |-> text]
<1>1. new \in Messages
  BY DEF ChatTypeOK, IsRequest, Messages
<1>2. messages[c] \in Seq(Messages)
  BY DEF ChatTypeOK
<1>3. messages' = [messages EXCEPT ![c] = Append(messages[c], new)]
  BY DEF Write
<1>4. Append(messages[c], new) \in Seq(Messages)
  BY <1>1, <1>2, AppendProperties
<1>5. messages'[c] = Append(messages[c], new)
  BY <1>3 DEF ChatTypeOK
<1>6. /\ DOMAIN messages'[c] = 1..(Len(messages[c]) + 1)
      /\ DOMAIN messages[c] = 1..Len(messages[c]) /\ Len(messages[c]) \in Nat
  BY <1>1, <1>2, <1>4, <1>5, AppendProperties, LenProperties
<1>7. /\ \A i \in DOMAIN messages[c] : messages'[c][i] = messages[c][i]
      /\ messages'[c][Len(messages[c]) + 1] = new
  BY <1>1, <1>2, <1>5, <1>6, AppendProperties
<1> QED
  BY <1>3, <1>4, <1>6, <1>7 DEF ChatTypeOK, Write

\* How one step changes a request: it is not over yet, it goes from before its
\* question to after it by writing it, and from there on keeps what its
\* messages depend on.
Advances(r, q) ==
  LET p == request[r]
  IN  /\ p.at # "done"
      /\ q.at \in BeforeQuestion => p.at \in BeforeQuestion
      /\ q.at \in AfterQuestion =>
           /\ p.at \in AfterQuestion \/ Ask(r)
           /\ q.chat = p.chat /\ q.mode = p.mode
      /\ p.at \in AfterQuestion =>
           /\ q.permitted = p.permitted /\ q.mode = p.mode /\ q.chat = p.chat
           /\ q.kind = p.kind

LEMMA EndedRequest ==
  ASSUME ChatTypeOK, NEW r \in Requests, request[r].at # "done",
         request' = [request EXCEPT ![r] = Ended(r)], RequestInv(r)
  PROVE  IsRequest(request'[r]) /\ RequestInv(r)' /\ Advances(r, request'[r])
<1> USE DEF ChatTypeOK, IsRequest
<1>1. Fresh \in Settings /\ DefaultId \in Configured
  BY FreshSettings, RuntimeAssumption
<1>2. request'[r] = [request[r] EXCEPT !.at = "done", !.history = <<>>, !.attempt = 0,
                                       !.provider = DefaultId, !.settings = Fresh]
  BY DEF Ended
<1>3. DOMAIN request'[r] = DOMAIN request[r]
  BY <1>2
<1>4. /\ request'[r].at = "done" /\ request'[r].attempt = 0
      /\ request'[r].provider = DefaultId /\ request'[r].settings = Fresh
      /\ request'[r].kind = request[r].kind /\ request'[r].user = request[r].user
      /\ request'[r].chat = request[r].chat /\ request'[r].permitted = request[r].permitted
      /\ request'[r].mode = request[r].mode
      /\ request'[r].text = request[r].text /\ request'[r].shown = request[r].shown
  BY <1>2
<1>5. IsRequest(request'[r])
  BY <1>1, <1>3, <1>4, ChatsAssumption DEF Steps
<1> QED
  BY <1>2, <1>5, ZenonT(40) DEF RequestInv, Advances, BeforeQuestion, BeforeAnswer, AfterQuestion

\* Beginning a request.
LEMMA BeginStep ==
  ASSUME ChatTypeOK, NEW r \in Requests, RequestInv(r),
         \/ \E u \in Users, p \in Updates : LoadSettings(r, u, p)
         \/ \E u \in Users, c \in ChatIds, kind \in {"message", "stream"} :
              LoadChat(r, u, c, kind)
  PROVE  IsRequest(request'[r]) /\ RequestInv(r)' /\ Advances(r, request'[r])
<1> USE DEF ChatTypeOK, IsRequest, GoTo, At, Steps, Kinds, BeforeQuestion, BeforeAnswer,
            AfterQuestion, RequestInv, Advances
<1>1. ASSUME NEW u \in Users, NEW p \in Updates, LoadSettings(r, u, p)
      PROVE  IsRequest(request'[r]) /\ RequestInv(r)' /\ Advances(r, request'[r])
  <2> DEFINE s == Change(settings[u], p)
             n == Normal(s.mode, s.provider, s.model)
  <2>1. /\ request[r].at = "idle"
        /\ s.provider \in Configured
        /\ Fits(n.provider, n.model)
        /\ request' = [request EXCEPT ![r] =
             [request[r] EXCEPT !.at = "save", !.kind = "settings", !.user = u,
                                !.settings = n]]
    BY <1>1 DEF LoadSettings
  <2>2. p.mode \in Modes \cup {Unset} /\ settings[u].mode \in Modes
    BY ChatsAssumption DEF Payloads, Settings
  <2>3. s.mode \in Modes
    BY <2>2 DEF Change, Given
  <2>4. n \in Settings
    BY <2>1, <2>3, FittingModels DEF Normal, Settings
  <2> HIDE DEF n, s
  <2> QED
    BY <2>1, <2>4
<1>2. ASSUME NEW u \in Users, NEW c \in ChatIds, NEW kind \in {"message", "stream"},
             LoadChat(r, u, c, kind)
      PROVE  IsRequest(request'[r]) /\ RequestInv(r)' /\ Advances(r, request'[r])
  <2>1. /\ request[r].at = "idle"
        /\ creator[c] = u /\ u # NoUser
        /\ request' = [request EXCEPT ![r] =
             [request[r] EXCEPT !.at = "loaded", !.kind = kind, !.user = u,
                                !.chat = c, !.permitted = u \in mayUnstrict]]
        /\ creator' = creator
    BY <1>2, ChatsAssumption DEF LoadChat
  <2> QED
    BY <2>1
<1> QED
  BY <1>1, <1>2

\* Up to the call of the model.
LEMMA QuestionStep ==
  ASSUME ChatTypeOK, NEW r \in Requests, RequestInv(r), Question(r)
  PROVE  IsRequest(request'[r]) /\ RequestInv(r)' /\ Advances(r, request'[r])
<1> USE DEF ChatTypeOK, IsRequest, GoTo, At, Steps, BeforeQuestion, BeforeAnswer,
            AfterQuestion, RequestInv, Advances
<1>1. CASE ResolveMode(r)
  <2>1. PICK requested \in Modes \cup {Unset} :
          LET m == Given(requested, settings[request[r].user].mode)
          IN  /\ m = "unstrict" => request[r].permitted
              /\ GoTo(r, [request[r] EXCEPT !.at = "moded", !.mode = m])
    BY <1>1 DEF ResolveMode
  <2> DEFINE m == Given(requested, settings[request[r].user].mode)
  <2>2. request[r].at = "loaded"
    BY <1>1 DEF ResolveMode
  <2>3. m \in Modes
    BY <2>2 DEF Given, Settings
  <2>4. /\ m = "unstrict" => request[r].permitted
        /\ request' = [request EXCEPT ![r] = [request[r] EXCEPT !.at = "moded", !.mode = m]]
        /\ creator' = creator
    BY <2>1
  <2> HIDE DEF m
  <2> QED
    BY <2>2, <2>3, <2>4
<1>2. CASE ChooseModel(r)
  <2>1. /\ request[r].at = "moded"
        /\ settings[request[r].user].provider \in Configured
        /\ request' = [request EXCEPT ![r] = [request[r] EXCEPT !.at = "chosen",
                         !.provider = settings[request[r].user].provider]]
        /\ creator' = creator
    BY <1>2, FittingModels DEF ChooseModel
  <2> QED
    BY <2>1
<1>3. CASE Ask(r)
  BY <1>3 DEF Ask
<1>4. CASE ReadHistory(r)
  BY <1>4 DEF ReadHistory
<1> QED
  BY <1>1, <1>2, <1>3, <1>4 DEF Question

\* From the call of the model to the last delta.
LEMMA AnswerStep ==
  ASSUME ChatTypeOK, NEW r \in Requests, RequestInv(r), Answer(r), ~StoreAnswer(r)
  PROVE  IsRequest(request'[r]) /\ RequestInv(r)' /\ Advances(r, request'[r])
<1> USE DEF ChatTypeOK, IsRequest, GoTo, At, Steps, BeforeQuestion, BeforeAnswer,
            AfterQuestion, RequestInv, Advances
<1>1. ASSUME NEW text \in Texts, AnswerWithoutModel(r, text)
      PROVE  IsRequest(request'[r]) /\ RequestInv(r)' /\ Advances(r, request'[r])
  BY <1>1 DEF AnswerWithoutModel
<1>2. ASSUME NEW text \in Texts, ModelCompletes(r, text)
      PROVE  IsRequest(request'[r]) /\ RequestInv(r)' /\ Advances(r, request'[r])
  BY <1>2 DEF ModelCompletes
<1>3. CASE CallModel(r)
  BY <1>3 DEF CallModel
<1>4. CASE RetryModel(r)
  BY <1>4, ChatsAssumption DEF RetryModel
<1>5. CASE CompleteStrictRetry(r)
  BY <1>5, ChatsAssumption DEF CompleteStrictRetry
<1>6. CASE ModelStreams(r)
  BY <1>6 DEF ModelStreams
<1>7. CASE Delta(r)
  BY <1>7, TextGrows DEF Delta
<1>8. CASE EndStream(r)
  BY <1>8 DEF EndStream
<1>9. CASE SendAnswer(r)
  BY <1>9 DEF SendAnswer
<1> QED
  BY <1>1, <1>2, <1>3, <1>4, <1>5, <1>6, <1>7, <1>8, <1>9 DEF Answer

LEMMA ServeStep ==
  ASSUME ChatTypeOK, NEW r \in Requests, RequestInv(r), Begin(r) \/ Serve(r) \/ Fail(r)
  PROVE  IsRequest(request'[r]) /\ RequestInv(r)' /\ Advances(r, request'[r])
<1>1. CASE Begin(r)
  BY <1>1, BeginStep DEF Begin
<1>2. CASE Question(r)
  BY <1>2, QuestionStep
<1>3. CASE Answer(r) /\ ~StoreAnswer(r)
  BY <1>3, AnswerStep
<1>4. CASE SaveSettings(r) \/ Fail(r) \/ StoreAnswer(r)
  <2>1. request[r].at # "done" /\ request' = [request EXCEPT ![r] = Ended(r)]
    BY <1>4 DEF SaveSettings, Fail, StoreAnswer, GoTo, InFlight, At
  <2> QED
    BY <2>1, EndedRequest
<1> QED
  BY <1>1, <1>2, <1>3, <1>4 DEF Serve

\* A request leaves the others and the chats alone, and writes a question or an
\* answer at most.
LEMMA ServeFrame ==
  ASSUME ChatTypeOK, NEW r \in Requests, Begin(r) \/ Serve(r) \/ Fail(r)
  PROVE  /\ DOMAIN request' = Requests
         /\ \A s \in Requests \ {r} : request'[s] = request[s]
         /\ UNCHANGED <<creator, deleted, mayUnstrict>>
         /\ Ask(r) \/ StoreAnswer(r) \/ UNCHANGED messages
         /\ SaveSettings(r) \/ UNCHANGED settings
<1> USE DEF ChatTypeOK, GoTo
<1>1. CASE Begin(r)
  BY <1>1 DEF Begin, LoadSettings, LoadChat
<1>2. CASE Question(r)
  BY <1>2 DEF Question, ResolveMode, ChooseModel, Ask, ReadHistory
<1>3. CASE Answer(r)
  BY <1>3 DEF Answer, AnswerWithoutModel, ModelCompletes, CallModel, RetryModel,
              CompleteStrictRetry, ModelStreams, Delta, EndStream, SendAnswer, StoreAnswer
<1>4. CASE SaveSettings(r) \/ Fail(r)
  BY <1>4 DEF SaveSettings, Fail
<1> QED
  BY <1>1, <1>2, <1>3, <1>4 DEF Serve

\* Users create and delete chats and are given permissions; nothing happens to
\* requests.
LEMMA EnvironmentFrame ==
  ASSUME ChatTypeOK, Environment \/ UNCHANGED vars
  PROVE  /\ UNCHANGED <<request, settings>>
         /\ creator' \in [ChatIds -> Users \cup {NoUser}]
         /\ mayUnstrict' \subseteq Users
         /\ \A c \in ChatIds : creator[c] # NoUser => creator'[c] = creator[c]
         /\ deleted \subseteq deleted' /\ deleted' \subseteq ChatIds
         /\ messages' \in [ChatIds -> Seq(Messages)]
         /\ \A c \in ChatIds :
              \/ messages'[c] = messages[c] /\ (c \in deleted' => c \in deleted)
              \/ messages'[c] = <<>> /\ c \in deleted'
<1> USE DEF ChatTypeOK
<1>1. ASSUME NEW u \in Users, NEW c \in ChatIds, CreateChat(u, c)
      PROVE  /\ UNCHANGED <<request, settings, deleted, messages, mayUnstrict>>
             /\ creator' \in [ChatIds -> Users \cup {NoUser}]
             /\ \A x \in ChatIds : creator[x] # NoUser => creator'[x] = creator[x]
  BY <1>1 DEF CreateChat
<1>2. ASSUME NEW u \in Users, NEW c \in ChatIds, DeleteChat(u, c)
      PROVE  /\ UNCHANGED <<request, settings, creator, mayUnstrict>>
             /\ deleted' = deleted \cup {c}
             /\ messages' = [messages EXCEPT ![c] = <<>>]
  BY <1>2 DEF DeleteChat
<1>3. ASSUME NEW u \in Users, NEW c \in ChatIds, DeleteChat(u, c)
      PROVE  messages' \in [ChatIds -> Seq(Messages)]
  <2>1. <<>> \in Seq(Messages)
    BY EmptySeq
  <2> QED
    BY <1>2, <1>3, <2>1
<1>4. ASSUME NEW u \in Users, ChangePermission(u)
      PROVE  /\ UNCHANGED <<request, settings, creator, deleted, messages>>
             /\ mayUnstrict' \subseteq Users
  BY <1>4 DEF ChangePermission
<1>5. CASE UNCHANGED vars
  BY <1>5 DEF vars
<1>6. CASE Environment
  <2>1. CASE \E u \in Users, c \in ChatIds : CreateChat(u, c)
    BY <1>1, <2>1
  <2>2. CASE \E u \in Users, c \in ChatIds : DeleteChat(u, c)
    BY <1>2, <1>3, <2>2
  <2>3. CASE \E u \in Users : ChangePermission(u)
    BY <1>4, <2>3
  <2> QED
    BY <1>6, <2>1, <2>2, <2>3 DEF Environment
<1> QED
  BY <1>5, <1>6

\* What the invariant says of requests is kept.
LEMMA RequestsStep ==
  ASSUME ChatTypeOK, \A r \in Requests : RequestInv(r), [ChatNext]_vars
  PROVE  /\ DOMAIN request' = Requests
         /\ \A r \in Requests : IsRequest(request'[r]) /\ RequestInv(r)'
<1>1. ASSUME NEW r \in Requests, Begin(r) \/ Serve(r) \/ Fail(r), NEW s \in Requests
      PROVE  IsRequest(request'[s]) /\ RequestInv(s)'
  <2>1. CASE s = r
    BY <1>1, <2>1, ServeStep
  <2>2. CASE s # r
    BY <1>1, <2>2, ServeFrame DEF RequestInv, ChatTypeOK
  <2> QED
    BY <2>1, <2>2
<1>2. CASE Environment \/ UNCHANGED vars
  BY <1>2, EnvironmentFrame DEF RequestInv, ChatTypeOK
<1> QED
  BY <1>1, <1>2, ServeFrame DEF ChatNext

LEMMA ChatTypeStep ==
  ASSUME ChatTypeOK, \A r \in Requests : RequestInv(r), [ChatNext]_vars
  PROVE  ChatTypeOK'
<1>1. CASE Environment \/ UNCHANGED vars
  BY <1>1, EnvironmentFrame, RequestsStep DEF ChatTypeOK
<1>2. ASSUME NEW r \in Requests, Begin(r) \/ Serve(r) \/ Fail(r)
      PROVE  ChatTypeOK'
  <2>1. messages' \in [ChatIds -> Seq(Messages)]
    <3>1. CASE Ask(r)
      BY <3>1, WriteStep, TextsAreSequences DEF Ask, At, RequestInv, AfterQuestion
    <3>2. CASE StoreAnswer(r)
      <4>1. request[r].text \in Texts /\ request[r].at = "store"
        BY <3>2 DEF ChatTypeOK, IsRequest, StoreAnswer, At
      <4> QED
        BY <3>2, <4>1, WriteStep DEF StoreAnswer, RequestInv, AfterQuestion
    <3> QED
      BY <1>2, <3>1, <3>2, ServeFrame DEF ChatTypeOK
  <2>2. settings' \in [Users -> Settings]
    <3>1. CASE SaveSettings(r)
      BY <3>1 DEF SaveSettings, ChatTypeOK, IsRequest
    <3> QED
      BY <1>2, <3>1, ServeFrame DEF ChatTypeOK
  <2> QED
    BY <1>2, <2>1, <2>2, ServeFrame, RequestsStep DEF ChatTypeOK
<1> QED
  BY <1>1, <1>2 DEF ChatNext

\* Settings are written as they were validated.
LEMMA SettingsStep ==
  ASSUME ChatTypeOK, \A r \in Requests : RequestInv(r), SettingsFit, [ChatNext]_vars
  PROVE  SettingsFit'
<1>1. CASE Environment \/ UNCHANGED vars
  BY <1>1, EnvironmentFrame DEF SettingsFit
<1>2. ASSUME NEW r \in Requests, Begin(r) \/ Serve(r) \/ Fail(r)
      PROVE  SettingsFit'
  <2>1. CASE SaveSettings(r)
    BY <2>1 DEF SaveSettings, At, SettingsFit, RequestInv, ChatTypeOK
  <2> QED
    BY <1>2, <2>1, ServeFrame DEF SettingsFit
<1> QED
  BY <1>1, <1>2 DEF ChatNext

-----------------------------------------------------------------------------
(* Messages *)

LEMMA MessageType ==
  ASSUME ChatTypeOK, NEW c \in ChatIds, NEW i \in DOMAIN messages[c]
  PROVE  messages[c][i] \in Messages
  BY ElementOfSeq, LenProperties DEF ChatTypeOK

\* The messages after a step: those before it, but for the chat that a step
\* deletes, and at most one more, which is the last one of its chat.
LEMMA PositionsStep ==
  ASSUME ChatTypeOK, NEW r \in Requests, RequestInv(r), NEW role \in {"user", "assistant"},
         NEW text \in Texts, Write(r, role, text),
         request[r].at \in {"chosen", "store"},
         NEW c \in ChatIds, NEW s \in Requests, NEW who \in {"user", "assistant"}
  PROVE  Positions(c, s, who)' =
           Positions(c, s, who)
           \cup (IF c = request[r].chat /\ s = r /\ who = role
                 THEN {Len(messages[c]) + 1} ELSE {})
<1>1. request[r].chat \in ChatIds
  BY DEF RequestInv, AfterQuestion
<1>2. CASE c # request[r].chat
  <2>1. \A x \in ChatIds \ {request[r].chat} : messages'[x] = messages[x]
    BY <1>1, WriteStep
  <2>2. messages'[c] = messages[c]
    BY <1>2, <2>1
  <2> QED
    BY <1>2, <2>2 DEF Positions
<1>3. CASE c = request[r].chat
  <2> DEFINE n == Len(messages[c])
             new == [from |-> r, role |-> role, mode |-> request[r].mode, text |-> text]
  <2>1. /\ DOMAIN messages'[c] = 1..(n + 1)
        /\ DOMAIN messages[c] = 1..n /\ n \in Nat
        /\ \A i \in DOMAIN messages[c] : messages'[c][i] = messages[c][i]
        /\ messages'[c][n + 1] = new
    BY <1>1, <1>3, WriteStep
  <2>2. DOMAIN messages'[c] = DOMAIN messages[c] \cup {n + 1}
    BY <2>1
  <2> HIDE DEF n
  <2> QED
    BY <1>3, <2>1, <2>2 DEF Positions
<1> QED
  BY <1>2, <1>3

\* What a request writes is at no position of another request, chat or role.
LEMMA OtherPositions ==
  ASSUME ChatTypeOK, NEW r \in Requests, RequestInv(r), NEW role \in {"user", "assistant"},
         NEW text \in Texts, Write(r, role, text),
         request[r].at \in {"chosen", "store"},
         NEW c \in ChatIds, NEW s \in Requests, NEW who \in {"user", "assistant"},
         c # request[r].chat \/ s # r \/ who # role
  PROVE  Positions(c, s, who)' = Positions(c, s, who)
<1> DEFINE here == c = request[r].chat /\ s = r /\ who = role
           more == IF here THEN {Len(messages[c]) + 1} ELSE {}
<1>1. Positions(c, s, who)' = Positions(c, s, who) \cup more
  BY PositionsStep
<1>2. more = {}
  OBVIOUS
<1> HIDE DEF more
<1> QED
  BY <1>1, <1>2

\* The part of the invariant that is about messages.
MessageInv ==
  /\ \A r \in Requests : WritesInOrder(r)
  /\ AnswersFollowQuestions /\ UnstrictWasPermitted /\ StoredIsShown

\* A message is that of a request which has written its question, and an answer
\* that of one which is over.
LEMMA MessageOrigin ==
  ASSUME ChatTypeOK, \A r \in Requests : WritesInOrder(r),
         NEW c \in ChatIds, NEW i \in DOMAIN messages[c]
  PROVE  LET m == messages[c][i]
         IN  /\ m.from \in Requests /\ m.role \in {"user", "assistant"}
             /\ i \in Positions(c, m.from, m.role)
             /\ request[m.from].at \notin BeforeQuestion
             /\ m.role = "assistant" => request[m.from].at = "done"
<1> DEFINE m == messages[c][i]
<1>1. m.from \in Requests /\ m.role \in {"user", "assistant"}
  BY MessageType DEF Messages
<1>2. i \in Positions(c, m.from, m.role)
  BY DEF Positions
<1> QED
  BY <1>1, <1>2 DEF WritesInOrder, BeforeQuestion

\* Nothing is written.
LEMMA QuietStep ==
  ASSUME ChatTypeOK, MessageInv, \A s \in Requests : RequestInv(s),
         NEW r \in Requests, Begin(r) \/ Serve(r) \/ Fail(r), ~Ask(r), ~StoreAnswer(r)
  PROVE  MessageInv'
<1> USE DEF MessageInv
<1>1. /\ \A s \in Requests \ {r} : request'[s] = request[s]
      /\ UNCHANGED <<creator, deleted, messages>>
  BY ServeFrame
<1>2. Advances(r, request'[r])
  BY ServeStep
<1>3. /\ \A c \in ChatIds, s \in Requests, who \in {"user", "assistant"} :
           Positions(c, s, who)' = Positions(c, s, who)
      /\ \A c : Exists(c)' = Exists(c)
  BY <1>1 DEF Positions, Exists
<1>4. \A s \in Requests : WritesInOrder(s)'
  <2>1. ASSUME NEW s \in Requests \ {r} PROVE WritesInOrder(s)'
    <3>1. WritesInOrder(s) /\ request'[s] = request[s]
      BY <1>1
    <3> QED
      BY <1>1, <3>1 DEF WritesInOrder, Positions, Exists
  <2>2. WritesInOrder(r)'
    <3>1. WritesInOrder(r)
      OBVIOUS
    <3>2. /\ request'[r].at \in BeforeQuestion => request[r].at \in BeforeQuestion
          /\ request[r].at # "done"
          /\ request'[r].at \in AfterQuestion =>
               /\ request[r].at \in AfterQuestion
               /\ request'[r].chat = request[r].chat /\ request'[r].mode = request[r].mode
      BY <1>2 DEF Advances
    <3> QED
      BY <1>1, <3>1, <3>2 DEF WritesInOrder, Positions, Exists
  <2> QED
    BY <2>1, <2>2
<1>5. AnswersFollowQuestions'
  BY <1>1, <1>3 DEF AnswersFollowQuestions
<1>6. ASSUME NEW c \in ChatIds, NEW i \in DOMAIN messages[c]
      PROVE  LET m == messages[c][i]
             IN  /\ request'[m.from].permitted = request[m.from].permitted
                 /\ m.role = "assistant" =>
                      request'[m.from].kind = request[m.from].kind
                      /\ request'[m.from].shown = request[m.from].shown
  <2> DEFINE s == messages[c][i].from
  <2>1. s \in Requests /\ request[s].at \notin BeforeQuestion
    BY MessageOrigin
  <2>2. messages[c][i].role = "assistant" => request[s].at = "done"
    BY MessageOrigin
  <2>3. s = r => request[s].at \in AfterQuestion /\ request[s].at # "done"
    BY <1>2, <2>1 DEF Advances, AfterQuestion, BeforeQuestion, ChatTypeOK, IsRequest, Steps
  <2> QED
    BY <1>1, <1>2, <2>1, <2>2, <2>3 DEF Advances
<1>7. UnstrictWasPermitted'
  BY <1>1, <1>6 DEF UnstrictWasPermitted
<1>8. StoredIsShown'
  BY <1>1, <1>6 DEF StoredIsShown
<1> QED
  BY <1>4, <1>5, <1>7, <1>8

\* Chats come and go.
LEMMA EnvironmentStep ==
  ASSUME ChatTypeOK, MessageInv, \A r \in Requests : RequestInv(r),
         Environment \/ UNCHANGED vars
  PROVE  MessageInv'
<1> USE DEF MessageInv
<1>1. /\ UNCHANGED request
      /\ \A c \in ChatIds :
           \/ messages'[c] = messages[c] /\ (Exists(c) <=> Exists(c)' /\ creator[c] # NoUser)
           \/ messages'[c] = <<>> /\ ~Exists(c)'
  BY EnvironmentFrame DEF Exists
<1>2. ASSUME NEW c \in ChatIds, NEW s \in Requests, NEW who \in {"user", "assistant"}
      PROVE  \/ messages'[c] = messages[c] /\ Positions(c, s, who)' = Positions(c, s, who)
             \/ messages'[c] = <<>> /\ ~Exists(c)' /\ Positions(c, s, who)' = {}
  BY <1>1 DEF Positions
<1>3. \A s \in Requests : WritesInOrder(s)'
  BY <1>1, <1>2 DEF WritesInOrder, RequestInv
<1>4. AnswersFollowQuestions'
  <2>1. ASSUME NEW c \in ChatIds, ~Exists(c)'
        PROVE  messages'[c] = <<>>
    BY <1>1, <2>1 DEF AnswersFollowQuestions
  <2>2. ASSUME NEW c \in ChatIds, messages'[c] = messages[c],
               NEW s \in Requests, NEW i \in Positions(c, s, "assistant")'
        PROVE  /\ Positions(c, s, "assistant")' = {i}
               /\ \E q \in Positions(c, s, "user")' :
                    q < i /\ messages'[c][q].mode = messages'[c][i].mode
    <3>1. i \in Positions(c, s, "assistant")
      BY <2>2 DEF Positions
    <3>2. /\ Positions(c, s, "assistant") = {i}
          /\ \E q \in Positions(c, s, "user") :
               q < i /\ messages[c][q].mode = messages[c][i].mode
      BY <3>1 DEF AnswersFollowQuestions
    <3> QED
      BY <2>2, <3>2 DEF Positions
  <2>3. ASSUME NEW c \in ChatIds, messages'[c] = <<>>, NEW s \in Requests
        PROVE  Positions(c, s, "assistant")' = {}
    BY <2>3 DEF Positions
  <2> QED
    BY <1>1, <2>1, <2>2, <2>3 DEF AnswersFollowQuestions
<1>5. UnstrictWasPermitted' /\ StoredIsShown'
  BY <1>1 DEF UnstrictWasPermitted, StoredIsShown
<1> QED
  BY <1>3, <1>4, <1>5

\* What is written before stays as it is, and chats stay.
LEMMA WriteFrame ==
  ASSUME ChatTypeOK, NEW r \in Requests, RequestInv(r), NEW role \in {"user", "assistant"},
         NEW text \in Texts, Write(r, role, text),
         request[r].at \in {"chosen", "store"}, UNCHANGED <<creator, deleted>>
  PROVE  /\ request[r].chat \in ChatIds /\ Exists(request[r].chat)
         /\ \A c : Exists(c)' = Exists(c)
         /\ \A c \in ChatIds \ {request[r].chat} : messages'[c] = messages[c]
         /\ \A c \in ChatIds : \A i \in DOMAIN messages[c] :
              i \in DOMAIN messages'[c] /\ messages'[c][i] = messages[c][i]
         /\ \A c \in ChatIds : \A i \in DOMAIN messages'[c] :
              \/ i \in DOMAIN messages[c]
              \/ /\ c = request[r].chat /\ i = Len(messages[c]) + 1
                 /\ messages'[c][i] = [from |-> r, role |-> role,
                                       mode |-> request[r].mode, text |-> text]
<1> DEFINE c == request[r].chat
           new == [from |-> r, role |-> role, mode |-> request[r].mode, text |-> text]
<1>1. c \in ChatIds
  BY DEF RequestInv, AfterQuestion
<1>2. /\ Exists(c)
      /\ \A x \in ChatIds \ {c} : messages'[x] = messages[x]
      /\ DOMAIN messages'[c] = 1..(Len(messages[c]) + 1)
      /\ DOMAIN messages[c] = 1..Len(messages[c]) /\ Len(messages[c]) \in Nat
      /\ \A i \in DOMAIN messages[c] : messages'[c][i] = messages[c][i]
      /\ messages'[c][Len(messages[c]) + 1] = new
  BY <1>1, WriteStep
<1>3. \A x : Exists(x)' = Exists(x)
  BY DEF Exists
<1>4. \A i \in DOMAIN messages'[c] :
        i \in DOMAIN messages[c] \/ (i = Len(messages[c]) + 1 /\ messages'[c][i] = new)
  BY <1>2
<1>5. \A i \in DOMAIN messages[c] : i \in DOMAIN messages'[c]
  BY <1>2
<1> HIDE DEF c, new
<1> QED
  BY <1>1, <1>2, <1>3, <1>4, <1>5 DEF c, new

\* The other requests keep their order.
LEMMA OthersWriteInOrder ==
  ASSUME ChatTypeOK, NEW r \in Requests, RequestInv(r), NEW role \in {"user", "assistant"},
         NEW text \in Texts, Write(r, role, text),
         request[r].at \in {"chosen", "store"}, UNCHANGED <<creator, deleted>>,
         NEW s \in Requests \ {r}, request'[s] = request[s],
         RequestInv(s), WritesInOrder(s)
  PROVE  WritesInOrder(s)'
<1>1. ASSUME NEW c \in ChatIds, NEW who \in {"user", "assistant"}
      PROVE  Positions(c, s, who)' = Positions(c, s, who)
  BY OtherPositions
<1>2. /\ \A c : Exists(c)' = Exists(c)
      /\ \A c \in ChatIds : \A i \in DOMAIN messages[c] : messages'[c][i] = messages[c][i]
  BY WriteFrame, ZenonT(40)
<1>3. request[s].at \in AfterQuestion => request[s].chat \in ChatIds
  BY DEF RequestInv
<1>4. request'[s].at \in BeforeQuestion => \A c \in ChatIds : Positions(c, s, "user")' = {}
  BY <1>1 DEF WritesInOrder
<1>5. request'[s].at # "done" => \A c \in ChatIds : Positions(c, s, "assistant")' = {}
  BY <1>1 DEF WritesInOrder
<1>6. ASSUME request[s].at \in AfterQuestion, Exists(request[s].chat)'
      PROVE  \E i \in Positions(request[s].chat, s, "user")' :
               messages'[request[s].chat][i].mode = request[s].mode
  <2> DEFINE c == request[s].chat
  <2>1. c \in ChatIds /\ Exists(c)
    BY <1>2, <1>3, <1>6
  <2>2. PICK i \in Positions(c, s, "user") : messages[c][i].mode = request[s].mode
    BY <1>6, <2>1 DEF WritesInOrder
  <2>3. i \in DOMAIN messages[c]
    BY <2>2 DEF Positions
  <2>4. i \in Positions(c, s, "user")' /\ messages'[c][i] = messages[c][i]
    BY <1>1, <1>2, <2>1, <2>2, <2>3
  <2> QED
    BY <2>2, <2>4
<1> QED
  BY <1>4, <1>5, <1>6 DEF WritesInOrder

\* A question is written.
LEMMA AskStep ==
  ASSUME ChatTypeOK, MessageInv, \A s \in Requests : RequestInv(s),
         NEW r \in Requests, Ask(r)
  PROVE  MessageInv'
<1> DEFINE c0 == request[r].chat
<1>1. /\ request[r].at = "chosen" /\ Write(r, "user", <<>>) /\ <<>> \in Texts
      /\ request'[r] = [request[r] EXCEPT !.at = "asked"]
      /\ \A s \in Requests \ {r} : request'[s] = request[s]
      /\ UNCHANGED <<creator, deleted>>
  BY TextsAreSequences DEF Ask, At, ChatTypeOK, IsRequest
<1>2. /\ c0 \in ChatIds /\ Exists(c0)
      /\ \A c : Exists(c)' = Exists(c)
      /\ \A c \in ChatIds \ {c0} : messages'[c] = messages[c]
      /\ \A c \in ChatIds : \A i \in DOMAIN messages[c] :
           i \in DOMAIN messages'[c] /\ messages'[c][i] = messages[c][i]
      /\ \A c \in ChatIds : \A i \in DOMAIN messages'[c] :
           \/ i \in DOMAIN messages[c]
           \/ /\ messages'[c][i] = [from |-> r, role |-> "user",
                                    mode |-> request[r].mode, text |-> <<>>]
  BY <1>1, WriteFrame
<1>3. ASSUME NEW s \in Requests PROVE WritesInOrder(s)'
  <2>1. CASE s # r
    BY <1>1, <2>1, OthersWriteInOrder DEF MessageInv
  <2>2. CASE s = r
    <3>1. \A c \in ChatIds : Positions(c, r, "assistant")' = {}
      BY <1>1, PositionsStep DEF MessageInv, WritesInOrder
    <3>2. Len(messages[c0]) + 1 \in Positions(c0, r, "user")'
      BY <1>1, <1>2, PositionsStep
    <3>3. messages'[c0][Len(messages[c0]) + 1].mode = request[r].mode
      BY <1>1, <1>2, WriteStep
    <3>4. /\ request'[r].at = "asked" /\ request'[r].chat = c0
          /\ request'[r].mode = request[r].mode
      BY <1>1 DEF ChatTypeOK, IsRequest
    <3> QED
      BY <2>2, <3>1, <3>2, <3>3, <3>4 DEF WritesInOrder, BeforeQuestion
  <2> QED
    BY <2>1, <2>2
<1>4. AnswersFollowQuestions'
  <2>1. ASSUME NEW c \in ChatIds, ~Exists(c)' PROVE messages'[c] = <<>>
    BY <1>2, <2>1 DEF MessageInv, AnswersFollowQuestions
  <2>2. ASSUME NEW c \in ChatIds, NEW s \in Requests, NEW i \in Positions(c, s, "assistant")'
        PROVE  /\ Positions(c, s, "assistant")' = {i}
               /\ \E q \in Positions(c, s, "user")' :
                    q < i /\ messages'[c][q].mode = messages'[c][i].mode
    <3>1. Positions(c, s, "assistant")' = Positions(c, s, "assistant")
      BY <1>1, PositionsStep
    <3>2. PICK q \in Positions(c, s, "user") :
            q < i /\ messages[c][q].mode = messages[c][i].mode
      BY <2>2, <3>1 DEF MessageInv, AnswersFollowQuestions
    <3>3. q \in Positions(c, s, "user")'
      BY <1>1, <3>2, PositionsStep
    <3>4. messages'[c][q] = messages[c][q] /\ messages'[c][i] = messages[c][i]
      BY <1>2, <2>2, <3>1, <3>2 DEF Positions
    <3> QED
      BY <2>2, <3>1, <3>2, <3>3, <3>4 DEF MessageInv, AnswersFollowQuestions
  <2> QED
    BY <2>1, <2>2 DEF AnswersFollowQuestions
<1>5. ASSUME NEW c \in ChatIds, NEW i \in DOMAIN messages[c]
      PROVE  request'[messages[c][i].from] = request[messages[c][i].from]
  BY <1>1, MessageOrigin DEF MessageInv, BeforeQuestion
<1>6. request'[r].permitted = request[r].permitted
  BY <1>1 DEF ChatTypeOK, IsRequest
<1>7. UnstrictWasPermitted'
  BY <1>2, <1>5, <1>6 DEF MessageInv, UnstrictWasPermitted, RequestInv
<1>8. StoredIsShown'
  BY <1>2, <1>5 DEF MessageInv, StoredIsShown
<1> QED
  BY <1>3, <1>4, <1>7, <1>8 DEF MessageInv

\* An answer is written.
LEMMA StoreStep ==
  ASSUME ChatTypeOK, MessageInv, \A s \in Requests : RequestInv(s),
         NEW r \in Requests, StoreAnswer(r)
  PROVE  MessageInv'
<1> DEFINE c0 == request[r].chat
           text == request[r].text
<1>1. /\ request[r].at = "store" /\ Write(r, "assistant", text) /\ text \in Texts
      /\ request'[r] = Ended(r)
      /\ \A s \in Requests \ {r} : request'[s] = request[s]
      /\ UNCHANGED <<creator, deleted>>
  BY DEF StoreAnswer, At, ChatTypeOK, IsRequest
<1>2. /\ c0 \in ChatIds /\ Exists(c0)
      /\ \A c : Exists(c)' = Exists(c)
      /\ \A c \in ChatIds \ {c0} : messages'[c] = messages[c]
      /\ \A c \in ChatIds : \A i \in DOMAIN messages[c] :
           i \in DOMAIN messages'[c] /\ messages'[c][i] = messages[c][i]
      /\ \A c \in ChatIds : \A i \in DOMAIN messages'[c] :
           \/ i \in DOMAIN messages[c]
           \/ /\ messages'[c][i] = [from |-> r, role |-> "assistant",
                                    mode |-> request[r].mode, text |-> text]
  BY <1>1, WriteFrame
<1>3. /\ request'[r].at = "done"
      /\ request'[r].permitted = request[r].permitted /\ request'[r].kind = request[r].kind
      /\ request'[r].shown = request[r].shown
  BY <1>1 DEF Ended, ChatTypeOK, IsRequest
<1>4. ASSUME NEW s \in Requests PROVE WritesInOrder(s)'
  <2>1. CASE s # r
    BY <1>1, <2>1, OthersWriteInOrder DEF MessageInv
  <2>2. CASE s = r
    BY <1>3, <2>2 DEF WritesInOrder, BeforeQuestion, AfterQuestion
  <2> QED
    BY <2>1, <2>2
<1>5. AnswersFollowQuestions'
  <2>1. ASSUME NEW c \in ChatIds, ~Exists(c)' PROVE messages'[c] = <<>>
    BY <1>2, <2>1 DEF MessageInv, AnswersFollowQuestions
  <2>2. ASSUME NEW c \in ChatIds, NEW s \in Requests, NEW i \in Positions(c, s, "assistant")'
        PROVE  /\ Positions(c, s, "assistant")' = {i}
               /\ \E q \in Positions(c, s, "user")' :
                    q < i /\ messages'[c][q].mode = messages'[c][i].mode
    <3>1. Positions(c, s, "user")' = Positions(c, s, "user")
      BY <1>1, PositionsStep
    <3>2. CASE ~(c = c0 /\ s = r)
      <4>1. Positions(c, s, "assistant")' = Positions(c, s, "assistant")
        BY <1>1, <2>2, <3>2, OtherPositions
      <4>2. PICK q \in Positions(c, s, "user") :
              q < i /\ messages[c][q].mode = messages[c][i].mode
        BY <2>2, <4>1 DEF MessageInv, AnswersFollowQuestions
      <4>3. messages'[c][q] = messages[c][q] /\ messages'[c][i] = messages[c][i]
        BY <1>2, <2>2, <4>1, <4>2 DEF Positions
      <4> QED
        BY <2>2, <3>1, <4>1, <4>2, <4>3 DEF MessageInv, AnswersFollowQuestions
    <3>3. CASE c = c0 /\ s = r
      <4> DEFINE n == Len(messages[c])
      <4>1. /\ DOMAIN messages[c] = 1..n /\ n \in Nat
            /\ messages'[c][n + 1].mode = request[r].mode
        BY <1>1, <1>2, <3>3, WriteStep
      <4>2. Positions(c, s, "assistant") = {}
        BY <1>1, <3>3 DEF MessageInv, WritesInOrder
      <4>3. Positions(c, s, "assistant")' = {n + 1}
        BY <1>1, <3>3, <4>2, PositionsStep
      <4>4. PICK q \in Positions(c, s, "user") : messages[c][q].mode = request[r].mode
        BY <1>1, <1>2, <3>3 DEF MessageInv, WritesInOrder, AfterQuestion
      <4>5. q \in 1..n /\ messages'[c][q] = messages[c][q]
        BY <1>2, <4>1, <4>4 DEF Positions
      <4>6. i = n + 1
        BY <2>2, <4>3
      <4> HIDE DEF n
      <4> QED
        BY <3>1, <4>1, <4>3, <4>4, <4>5, <4>6
    <3> QED
      BY <3>2, <3>3
  <2> QED
    BY <2>1, <2>2 DEF AnswersFollowQuestions
<1>6. ASSUME NEW c \in ChatIds, NEW i \in DOMAIN messages[c]
      PROVE  LET m == messages[c][i]
             IN  /\ request'[m.from].permitted = request[m.from].permitted
                 /\ request'[m.from].kind = request[m.from].kind
                 /\ request'[m.from].shown = request[m.from].shown
  BY <1>1, <1>3, MessageOrigin DEF MessageInv
<1>7. UnstrictWasPermitted'
  BY <1>2, <1>3, <1>6 DEF MessageInv, UnstrictWasPermitted, RequestInv
<1>8. StoredIsShown'
  BY <1>1, <1>2, <1>3, <1>6 DEF MessageInv, StoredIsShown, RequestInv
<1> QED
  BY <1>4, <1>5, <1>7, <1>8 DEF MessageInv

-----------------------------------------------------------------------------
(* Recursive functions over 0..N *)

\* A set of natural numbers has a smallest element.
LEMMA HasLeast ==
  ASSUME NEW S, S \subseteq Nat, S # {}
  PROVE  \E m \in S : \A n \in S : m <= n
<1>1. PICK m \in S : \A n \in S : <<n, m>> \notin OpToRel(<, Nat)
  BY NatLessThanWellFounded, WFMin
<1>2. ASSUME NEW n \in S PROVE m <= n
  <2>1. <<n, m>> \in Nat \X Nat
    OBVIOUS
  <2>2. ~(n < m)
    BY <1>1, <2>1 DEF OpToRel
  <2> QED
    BY <2>2
<1> QED
  BY <1>1, <1>2

\* Induction up to a bound, over a set.
LEMMA InductionTo ==
  ASSUME NEW N \in Nat, NEW T, 0 \in T, \A n \in 1..N : n - 1 \in T => n \in T
  PROVE  \A n \in 0..N : n \in T
<1> DEFINE bad == (0..N) \ T
<1>1. ASSUME bad # {} PROVE FALSE
  <2>1. bad \subseteq Nat
    OBVIOUS
  <2>2. PICK k \in bad : \A n \in bad : k <= n
    <3> HIDE DEF bad
    <3> QED
      BY <1>1, <2>1, HasLeast
  <2>3. k \in 1..N /\ k - 1 \in 0..N /\ k - 1 \notin bad
    BY <2>2
  <2> QED
    BY <2>2, <2>3
<1> QED
  BY <1>1

\* The values of a recursive definition over 0..N whose step is a function.
IsRecursion(f, N, base, step) ==
  f[0] = base /\ \A n \in 1..N : f[n] = step[<<n, f[n - 1]>>]

LEMMA RecursionExists ==
  ASSUME NEW N \in Nat, NEW V, NEW base \in V, NEW step \in [(1..N) \X V -> V]
  PROVE  \E f \in [0..N -> V] : IsRecursion(f, N, base, step)
<1> USE DEF IsRecursion
<1> DEFINE has == {k \in 0..N : \E f \in [0..k -> V] : IsRecursion(f, k, base, step)}
<1>1. 0 \in has
  <2> DEFINE g == [n \in 0..0 |-> base]
  <2>1. g \in [0..0 -> V] /\ IsRecursion(g, 0, base, step)
    OBVIOUS
  <2> HIDE DEF g, IsRecursion
  <2> QED
    BY <2>1
<1>2. ASSUME NEW k \in 1..N, k - 1 \in has PROVE k \in has
  <2>1. k - 1 \in 0..N
    OBVIOUS
  <2>2. PICK f \in [0..(k - 1) -> V] : IsRecursion(f, k - 1, base, step)
    BY <1>2
  <2> DEFINE g == [n \in 0..k |-> IF n = k THEN step[<<k, f[k - 1]>>] ELSE f[n]]
  <2>3. g \in [0..k -> V]
    BY <2>1, <2>2
  <2>4. g[0] = base
    BY <2>1, <2>2
  <2>5. ASSUME NEW n \in 1..k PROVE g[n] = step[<<n, g[n - 1]>>]
    <3>1. CASE n = k
      <4>1. k \in 0..k /\ k - 1 \in 0..k /\ k - 1 # k
        BY <2>1
      <4>2. g[k] = step[<<k, f[k - 1]>>] /\ g[k - 1] = f[k - 1]
        BY <4>1
      <4> QED
        BY <3>1, <4>2
    <3>2. CASE n # k
      <4>1. n \in 1..(k - 1) /\ n - 1 \in 0..k /\ n - 1 # k
        BY <2>1, <3>2
      <4>2. f[n] = step[<<n, f[n - 1]>>]
        BY <2>2, <4>1
      <4> QED
        BY <3>2, <4>1, <4>2
    <3> QED
      BY <3>1, <3>2
  <2>6. IsRecursion(g, k, base, step)
    BY <2>4, <2>5
  <2> HIDE DEF g, IsRecursion
  <2> QED
    BY <2>3, <2>6
<1>3. N \in has
  <2> HIDE DEF has
  <2>1. \A n \in 0..N : n \in has
    BY <1>1, <1>2, InductionTo
  <2> QED
    BY <2>1
<1> QED
  BY <1>3

-----------------------------------------------------------------------------
(* The history *)

\* What is kept of the messages, up to each of them.
IsKept(kept, log, mode) ==
  /\ kept \in [0..Len(log) -> Seq(Messages)]
  /\ OfMode(log, mode) = kept[Len(log)]
  /\ kept[0] = <<>>
  /\ \A n \in 1..Len(log) :
       kept[n] = IF log[n].mode = mode THEN Append(kept[n - 1], log[n]) ELSE kept[n - 1]

LEMMA OfModeIs ==
  ASSUME NEW log \in Seq(Messages), NEW mode
  PROVE  \E kept : IsKept(kept, log, mode)
<1> DEFINE N == Len(log)
           V == Seq(Messages)
           Rec(f) == f = [n \in 0..N |->
                       IF n = 0 THEN <<>>
                       ELSE IF log[n].mode = mode THEN Append(f[n - 1], log[n])
                       ELSE f[n - 1]]
           step == [p \in (1..N) \X V |->
                      IF log[p[1]].mode = mode THEN Append(p[2], log[p[1]]) ELSE p[2]]
<1>1. N \in Nat /\ <<>> \in V /\ \A n \in 1..N : log[n] \in Messages
  BY LenProperties, ElementOfSeq, EmptySeq
<1>2. step \in [(1..N) \X V -> V]
  <2>1. ASSUME NEW n \in 1..N, NEW s \in V PROVE Append(s, log[n]) \in V
    BY <1>1, AppendProperties
  <2> QED
    BY <2>1
<1>3. PICK f \in [0..N -> V] : IsRecursion(f, N, <<>>, step)
  <2>1. N \in Nat /\ <<>> \in V
    BY <1>1
  <2> HIDE DEF N, V, step
  <2> QED
    BY <1>2, <2>1, RecursionExists
<1>4. ASSUME NEW n \in 1..N
      PROVE  f[n] = IF log[n].mode = mode THEN Append(f[n - 1], log[n]) ELSE f[n - 1]
  <2>1. n - 1 \in 0..N /\ n \in 0..N /\ n # 0
    BY <1>1
  <2>2. f[n - 1] \in V /\ f[n] = step[<<n, f[n - 1]>>]
    <3> HIDE DEF V, step, N
    <3> QED
      BY <1>3, <2>1 DEF IsRecursion
  <2> HIDE DEF V, N
  <2> QED
    BY <2>2
<1>5. Rec(f)
  <2>1. ASSUME NEW n \in 0..N
        PROVE  f[n] = IF n = 0 THEN <<>>
                      ELSE IF log[n].mode = mode THEN Append(f[n - 1], log[n])
                      ELSE f[n - 1]
    <3>1. CASE n = 0
      BY <1>1, <1>3, <3>1 DEF IsRecursion
    <3>2. CASE n # 0
      <4>1. n \in 1..N
        BY <1>1, <3>2
      <4> QED
        BY <1>4, <3>2, <4>1
    <3> QED
      BY <3>1, <3>2
  <2> HIDE DEF V, step
  <2> QED
    BY <1>3, <2>1
<1> DEFINE kept == CHOOSE g : Rec(g)
<1>6. OfMode(log, mode) = kept[N]
  BY DEF OfMode
<1>7. Rec(kept)
  <2> HIDE DEF Rec
  <2> QED
    BY <1>5
<1>8. kept[0] = <<>> /\ \A n \in 1..N :
        kept[n] = IF log[n].mode = mode THEN Append(kept[n - 1], log[n]) ELSE kept[n - 1]
  <2> HIDE DEF kept
  <2> QED
    <3>1. kept = [n \in 0..N |->
                       IF n = 0 THEN <<>>
                       ELSE IF log[n].mode = mode THEN Append(kept[n - 1], log[n])
                       ELSE kept[n - 1]]
      BY <1>7
    <3>2. 0 \in 0..N /\ \A n \in 1..N : n \in 0..N /\ n # 0
      BY <1>1
    <3> HIDE DEF N
    <3> QED
      BY <3>1, <3>2
<1>9. \A n \in 0..N : kept[n] = f[n]
  <2> DEFINE same == {n \in 0..N : kept[n] = f[n]}
  <2>1. 0 \in same
    BY <1>1, <1>3, <1>8 DEF IsRecursion
  <2>2. ASSUME NEW n \in 1..N, n - 1 \in same PROVE n \in same
    <3>1. n \in 0..N
      BY <1>1
    <3> HIDE DEF kept
    <3> QED
      BY <1>4, <1>8, <2>2, <3>1
  <2>3. N \in Nat
    BY <1>1
  <2>4. \A n \in 0..N : n \in same
    <3> HIDE DEF same, N
    <3> QED
      BY <2>1, <2>2, <2>3, InductionTo
  <2> QED
    BY <2>4
<1>10. kept \in [0..N -> V]
  <2>1. kept = [n \in 0..N |-> kept[n]]
    <3> HIDE DEF kept
    <3> QED
      BY <1>7
  <2> HIDE DEF kept
  <2> QED
    BY <1>9, <1>3, <2>1
<1> HIDE DEF kept
<1> QED
  BY <1>6, <1>8, <1>10 DEF IsKept

\* The last message is added to what is kept of the ones before it.
LEMMA OfModeOfLast ==
  ASSUME NEW log \in Seq(Messages), log # <<>>, NEW mode
  PROVE  /\ Front(log) \in Seq(Messages) /\ OfMode(Front(log), mode) \in Seq(Messages)
         /\ OfMode(log, mode) = IF Last(log).mode = mode
                                THEN Append(OfMode(Front(log), mode), Last(log))
                                ELSE OfMode(Front(log), mode)
<1> DEFINE L == Len(log)
           front == Front(log)
<1>1. L \in Nat \ {0} /\ Last(log) = log[L]
  BY LenProperties, EmptySeq DEF Last
<1>2. /\ front \in Seq(Messages) /\ Len(front) = L - 1
      /\ \A n \in 1..(L - 1) : front[n] = log[n]
  <2>1. /\ 1 \in Int /\ L - 1 \in Int
        /\ \A n \in 1..(L - 1) : log[n] \in Messages
    BY <1>1, ElementOfSeq
  <2>2. /\ front \in Seq(Messages)
        /\ Len(front) = IF 1 <= L - 1 THEN L - 1 - 1 + 1 ELSE 0
        /\ \A n \in 1..(L - 1 - 1 + 1) : front[n] = log[1 + n - 1]
    BY <2>1, SubSeqProperties DEF Front
  <2>3. ASSUME NEW n \in 1..(L - 1) PROVE front[n] = log[n]
    <3>1. n \in 1..(L - 1 - 1 + 1) /\ 1 + n - 1 = n
      BY <1>1
    <3> QED
      BY <2>2, <3>1
  <2> HIDE DEF front, L
  <2>4. Len(front) = L - 1
    BY <1>1, <2>2
  <2> QED
    BY <2>2, <2>3, <2>4
<1>3. PICK kept : IsKept(kept, log, mode)
  BY OfModeIs
<1>4. PICK most : IsKept(most, front, mode)
  <2> HIDE DEF front
  <2> QED
    BY <1>2, OfModeIs
<1> DEFINE same == {n \in 0..(L - 1) : kept[n] = most[n]}
<1>5. \A n \in 0..(L - 1) : n \in same
  <2>1. 0 \in same /\ L - 1 \in Nat
    BY <1>1, <1>3, <1>4 DEF IsKept
  <2>2. ASSUME NEW n \in 1..(L - 1), n - 1 \in same PROVE n \in same
    <3>1. n \in 1..L /\ n \in 0..(L - 1)
      BY <1>1
    <3> HIDE DEF front
    <3> QED
      BY <1>2, <1>3, <1>4, <2>2, <3>1 DEF IsKept
  <2> HIDE DEF same, L
  <2> QED
    BY <2>1, <2>2, InductionTo
<1>6. L - 1 \in 0..(L - 1) /\ L \in 1..L
  BY <1>1
<1>7. OfMode(front, mode) = kept[L - 1]
  <2> HIDE DEF front
  <2> QED
    BY <1>2, <1>4, <1>5, <1>6 DEF IsKept
<1>8. OfMode(front, mode) \in Seq(Messages)
  <2> HIDE DEF front
  <2> QED
    BY <1>2, <1>4, <1>6 DEF IsKept
<1>9. OfMode(log, mode) = IF log[L].mode = mode THEN Append(kept[L - 1], log[L])
                          ELSE kept[L - 1]
  BY <1>3, <1>6 DEF IsKept
<1> HIDE DEF L
<1> QED
  BY <1>1, <1>2, <1>7, <1>8, <1>9

\* The latest messages are the end of the log.
LEMMA LatestIsSuffix ==
  ASSUME NEW log \in Seq(Messages), NEW n \in 0..Len(log)
  PROVE  IsSuffix(Latest(log, n), log)
<1> DEFINE late == Latest(log, n)
           L == Len(log)
<1>1. L \in Nat /\ n \in Nat /\ n <= L
  BY LenProperties
<1>2. /\ late \in Seq(Messages) /\ Len(late) = n
      /\ \A i \in 1..n : late[i] = log[L - n + i]
  <2>1. \A i \in (L - n + 1)..L : log[i] \in Messages
    BY <1>1, ElementOfSeq
  <2>2. L - n + 1 \in Int /\ L \in Int
    BY <1>1
  <2>3. /\ late \in Seq(Messages)
        /\ Len(late) = IF L - n + 1 <= L THEN L - (L - n + 1) + 1 ELSE 0
        /\ \A i \in 1..(L - (L - n + 1) + 1) : late[i] = log[L - n + 1 + i - 1]
    BY <1>1, SubSeqProperties DEF Latest
  <2>4. Len(late) = n
    BY <1>1, <2>3
  <2>5. ASSUME NEW i \in 1..n PROVE late[i] = log[L - n + i]
    <3>1. i \in 1..(L - (L - n + 1) + 1) /\ L - n + 1 + i - 1 = L - n + i
      BY <1>1
    <3> QED
      BY <2>3, <3>1
  <2> QED
    BY <2>3, <2>4, <2>5
<1> DEFINE here == Reverse(late)
           all == Reverse(log)
<1>3. Len(here) = n /\ \A i \in 1..n : here[i] = late[n - i + 1]
  <2> HIDE DEF late
  <2> QED
    BY <1>1, <1>2 DEF Reverse
<1>4. Len(all) = L /\ \A i \in 1..L : all[i] = log[L - i + 1]
  BY <1>1 DEF Reverse
<1>5. \A i \in 1..n : here[i] = all[i] /\ here[i] \in Messages
  <2> TAKE i \in 1..n
  <2>1. /\ n - i + 1 \in 1..n /\ i \in 1..L
        /\ L - n + (n - i + 1) = L - i + 1 /\ L - i + 1 \in 1..L
    BY <1>1
  <2>2. here[i] = late[n - i + 1] /\ late[n - i + 1] = log[L - n + (n - i + 1)]
    BY <1>2, <1>3, <2>1
  <2>3. all[i] = log[L - i + 1]
    BY <1>4, <2>1
  <2>4. log[L - i + 1] \in Messages
    BY <2>1, ElementOfSeq
  <2> QED
    BY <2>1, <2>2, <2>3, <2>4
<1> HIDE DEF here, all
<1>6. /\ SubSeq(here, 1, n) \in Seq(Messages) /\ SubSeq(all, 1, n) \in Seq(Messages)
      /\ Len(SubSeq(here, 1, n)) = n /\ Len(SubSeq(all, 1, n)) = n
      /\ \A i \in 1..n : SubSeq(here, 1, n)[i] = SubSeq(all, 1, n)[i]
  <2>1. 1 \in Int /\ n \in Int /\ n - 1 + 1 = n /\ \A i \in 1..n : 1 + i - 1 = i
    BY <1>1
  <2>2. /\ SubSeq(here, 1, n) \in Seq(Messages)
        /\ Len(SubSeq(here, 1, n)) = IF 1 <= n THEN n - 1 + 1 ELSE 0
        /\ \A i \in 1..(n - 1 + 1) : SubSeq(here, 1, n)[i] = here[1 + i - 1]
    BY <1>5, <2>1, SubSeqProperties
  <2>3. /\ SubSeq(all, 1, n) \in Seq(Messages)
        /\ Len(SubSeq(all, 1, n)) = IF 1 <= n THEN n - 1 + 1 ELSE 0
        /\ \A i \in 1..(n - 1 + 1) : SubSeq(all, 1, n)[i] = all[1 + i - 1]
    BY <1>5, <2>1, SubSeqProperties
  <2> QED
    BY <1>1, <1>5, <2>1, <2>2, <2>3
<1>7. SubSeq(here, 1, n) = SubSeq(all, 1, n)
  BY <1>6, SeqEqual
<1>8. Len(here) = n /\ Len(all) = L
  BY <1>3, <1>4
<1> QED
  BY <1>1, <1>7, <1>8 DEF IsSuffix, IsPrefix, here, all, late

\* What a request reads while its question is the last message of a chat within
\* the limit: the latest messages of the mode before it.
LEMMA HistoryBeforeQuestion ==
  ASSUME ChatTypeOK, NEW r \in Requests, request[r].chat \in ChatIds,
         messages[request[r].chat] # <<>>, Len(messages[request[r].chat]) <= HistoryLimit,
         LET question == Last(messages[request[r].chat])
         IN  question.from = r /\ question.role = "user" /\ question.mode = request[r].mode
  PROVE  IsSuffix(HistoryOf(r), OfMode(Front(messages[request[r].chat]), request[r].mode))
<1> DEFINE log == messages[request[r].chat]
           mode == request[r].mode
           past == OfMode(Front(log), mode)
<1>1. log \in Seq(Messages) /\ Len(log) \in Nat /\ log # <<>>
  BY LenProperties DEF ChatTypeOK
<1>2. Listed(request[r].chat) = log
  <2>1. SubSeq(log, 1, Len(log)) = log
    <3> HIDE DEF log
    <3>1. /\ 1 \in Int /\ Len(log) \in Int /\ Len(log) - 1 + 1 = Len(log)
          /\ \A i \in 1..Len(log) : 1 + i - 1 = i /\ log[i] \in Messages
      BY <1>1, ElementOfSeq
    <3>2. /\ SubSeq(log, 1, Len(log)) \in Seq(Messages)
          /\ Len(SubSeq(log, 1, Len(log))) = IF 1 <= Len(log) THEN Len(log) - 1 + 1 ELSE 0
          /\ \A i \in 1..(Len(log) - 1 + 1) : SubSeq(log, 1, Len(log))[i] = log[1 + i - 1]
      BY <3>1, SubSeqProperties
    <3>3. /\ Len(SubSeq(log, 1, Len(log))) = Len(log)
          /\ \A i \in 1..Len(log) : SubSeq(log, 1, Len(log))[i] = log[i]
      BY <1>1, <3>1, <3>2
    <3> QED
      BY <1>1, <3>2, <3>3, SeqEqual
  <2>2. ~(Len(log) < HistoryLimit) => Len(log) = HistoryLimit
    BY <1>1, ChatsAssumption
  <2> QED
    BY <2>1, <2>2 DEF Listed
<1>3. /\ past \in Seq(Messages)
      /\ OfMode(log, mode) = Append(past, Last(log))
  <2> HIDE DEF log
  <2> QED
    BY <1>1, OfModeOfLast DEF log
<1>4. Last(log) \in Messages
  <2> HIDE DEF log
  <2> QED
    BY <1>1, ElementOfSeq, EmptySeq, LenProperties DEF Last
<1>5. WithoutQuestion(OfMode(log, mode), r) = past
  <2> DEFINE seen == Append(past, Last(log))
  <2> HIDE DEF past
  <2>1. seen \in Seq(Messages) /\ Len(seen) = Len(past) + 1 /\ seen # <<>>
    BY <1>3, <1>4, AppendProperties
  <2>2. Last(seen) = Last(log)
    BY <1>3, <1>4, <2>1, AppendProperties DEF Last
  <2>3. Front(seen) = past
    BY <1>3, <1>4, <2>1, AppendProperties, LenProperties DEF Front
  <2> HIDE DEF seen
  <2> QED
    BY <1>3, <2>1, <2>2, <2>3 DEF WithoutQuestion, seen
<1> DEFINE n == IF Len(past) < MaxHistory THEN Len(past) ELSE MaxHistory
<1>6. HistoryOf(r) = Latest(past, n)
  BY <1>2, <1>5 DEF HistoryOf
<1>7. n \in 0..Len(past)
  <2> HIDE DEF past
  <2> QED
    BY <1>3, LenProperties, ChatsAssumption
<1> HIDE DEF past, n, log
<1> QED
  BY <1>3, <1>6, <1>7, LatestIsSuffix DEF past, log

\* The history of a request whose question is the last message is the past.
LEMMA HistoryInvImplies ==
  ASSUME ChatTypeOK, \A r \in Requests : RequestInv(r) /\ WritesInOrder(r) /\ HistoryInv(r)
  PROVE  HistoryIsPast
<1> SUFFICES ASSUME NEW r \in Requests, At(r, "ready"), Exists(request[r].chat),
                    request[r].history # <<>>,
                    Len(messages[request[r].chat]) <= HistoryLimit,
                    Last(messages[request[r].chat]).from = r
             PROVE  IsSuffix(request[r].history,
                             OfMode(Front(messages[request[r].chat]), request[r].mode))
  BY DEF HistoryIsPast
<1> DEFINE c == request[r].chat
           log == messages[c]
<1>1. request[r].at = "ready" /\ request[r].at \in AfterQuestion
  BY DEF At, AfterQuestion
<1>2. c \in ChatIds
  BY <1>1 DEF RequestInv
<1>3. log \in Seq(Messages) /\ Len(log) \in Nat /\ DOMAIN log = 1..Len(log)
  BY <1>2, LenProperties DEF ChatTypeOK
<1>4. log # <<>>
  <2>1. Positions(c, r, "user") # {}
    BY <1>1, <1>2 DEF WritesInOrder
  <2>2. DOMAIN log # {}
    BY <2>1 DEF Positions
  <2> QED
    BY <1>3, <2>2, EmptySeq
<1>5. Len(log) \in DOMAIN log /\ Last(log) = log[Len(log)]
  <2> HIDE DEF log
  <2> QED
    BY <1>3, <1>4, EmptySeq DEF Last
<1>6. log[Len(log)].role \in {"user", "assistant"}
  BY <1>2, <1>5, MessageType DEF Messages
<1>7. Len(log) \notin Positions(c, r, "assistant")
  BY <1>1, <1>2 DEF WritesInOrder
<1>8. log[Len(log)].role = "user" /\ Len(log) \in Positions(c, r, "user")
  BY <1>5, <1>6, <1>7 DEF Positions
<1>9. log[Len(log)].mode = request[r].mode
  BY <1>1, <1>2, <1>8 DEF HistoryInv
<1>10. IsSuffix(HistoryOf(r), OfMode(Front(log), request[r].mode))
  BY <1>2, <1>4, <1>5, <1>8, <1>9, HistoryBeforeQuestion
<1>11. request[r].history = HistoryOf(r)
  BY DEF HistoryInv
<1> QED
  BY <1>10, <1>11

\* What a request reads depends on its chat and its mode.
LEMMA SameHistory ==
  ASSUME NEW s \in Requests, request'[s].chat = request[s].chat,
         request'[s].mode = request[s].mode,
         messages'[request[s].chat] = messages[request[s].chat]
  PROVE  HistoryOf(s)' = HistoryOf(s)
  BY DEF HistoryOf, Listed, WithoutQuestion

\* A request is given its history in one way.
LEMMA ReadyStep ==
  ASSUME ChatTypeOK, NEW r \in Requests, Begin(r) \/ Serve(r) \/ Fail(r),
         request'[r].at = "ready"
  PROVE  ReadHistory(r)
<1> USE DEF ChatTypeOK, IsRequest, GoTo, At, Ended
<1>1. CASE Begin(r)
  <2>1. ASSUME NEW u \in Users, NEW p \in Updates, LoadSettings(r, u, p) PROVE FALSE
    <3>1. \E n : request' = [request EXCEPT ![r] =
                  [request[r] EXCEPT !.at = "save", !.kind = "settings", !.user = u,
                                     !.settings = n]]
      BY <2>1 DEF LoadSettings
    <3> QED
      BY <3>1
  <2>2. ASSUME NEW u \in Users, NEW c \in ChatIds, NEW kind \in {"message", "stream"},
               LoadChat(r, u, c, kind)
        PROVE  FALSE
    BY <2>2 DEF LoadChat
  <2> QED
    BY <1>1, <2>1, <2>2 DEF Begin
<1>2. CASE Question(r)
  BY <1>2 DEF Question, ResolveMode, ChooseModel, Ask
<1>3. CASE Answer(r)
  BY <1>3, ZenonT(40) DEF Answer, AnswerWithoutModel, ModelCompletes, CallModel, RetryModel,
              CompleteStrictRetry, ModelStreams, Delta, EndStream, SendAnswer, StoreAnswer
<1>4. CASE SaveSettings(r) \/ Fail(r)
  BY <1>4, ZenonT(40) DEF SaveSettings, Fail
<1> QED
  BY <1>1, <1>2, <1>3, <1>4 DEF Serve

\* Requests that are not served, whose chats nobody writes to.
LEMMA HistoryKept ==
  ASSUME NEW s \in Requests, RequestInv(s), HistoryInv(s), request'[s] = request[s],
         \A c \in ChatIds : messages'[c] = messages[c] \/ messages'[c] = <<>>,
         request[s].chat \in ChatIds =>
           (Exists(request[s].chat)' =>
              /\ Exists(request[s].chat)
              /\ messages'[request[s].chat] = messages[request[s].chat])
  PROVE  HistoryInv(s)'
<1> DEFINE q == request[s]
<1>1. ASSUME q.at \in AfterQuestion, NEW c \in ChatIds, NEW i \in Positions(c, s, "user")'
      PROVE  messages'[c][i].mode = q.mode
  <2>1. messages'[c] # <<>>
    BY <1>1 DEF Positions
  <2>2. messages'[c] = messages[c]
    BY <2>1
  <2>3. i \in Positions(c, s, "user")
    BY <1>1, <2>2 DEF Positions
  <2> QED
    BY <1>1, <2>2, <2>3 DEF HistoryInv
<1>2. ASSUME q.at = "ready", Exists(q.chat)', q.history # <<>>,
             Last(messages'[q.chat]).from = s
      PROVE  q.history = HistoryOf(s)'
  <2>1. q.chat \in ChatIds
    BY <1>2 DEF RequestInv, AfterQuestion
  <2>2. Exists(q.chat) /\ messages'[q.chat] = messages[q.chat]
    BY <1>2, <2>1
  <2>3. q.history = HistoryOf(s)
    BY <1>2, <2>2 DEF HistoryInv, At
  <2>4. HistoryOf(s)' = HistoryOf(s)
    BY <2>2, SameHistory
  <2> QED
    BY <2>3, <2>4
<1> QED
  BY <1>1, <1>2 DEF HistoryInv, At

\* A message is written: that of another request ends what is said of the
\* history.
LEMMA HistoryOfOthers ==
  ASSUME ChatTypeOK, NEW r \in Requests, RequestInv(r), NEW role \in {"user", "assistant"},
         NEW text \in Texts, Write(r, role, text),
         request[r].at \in {"chosen", "store"}, UNCHANGED <<creator, deleted>>,
         NEW s \in Requests \ {r}, request'[s] = request[s],
         RequestInv(s), HistoryInv(s)
  PROVE  HistoryInv(s)'
<1> DEFINE q == request[s]
           c0 == request[r].chat
<1>1. /\ c0 \in ChatIds
      /\ \A c : Exists(c)' = Exists(c)
      /\ \A c \in ChatIds \ {c0} : messages'[c] = messages[c]
      /\ \A c \in ChatIds : \A i \in DOMAIN messages[c] : messages'[c][i] = messages[c][i]
  BY WriteFrame, ZenonT(40)
<1>2. ASSUME q.at \in AfterQuestion, NEW c \in ChatIds, NEW i \in Positions(c, s, "user")'
      PROVE  messages'[c][i].mode = q.mode
  <2>1. i \in Positions(c, s, "user")
    BY <1>2, OtherPositions
  <2>2. messages'[c][i] = messages[c][i]
    BY <1>1, <2>1 DEF Positions
  <2> QED
    BY <1>2, <2>1, <2>2 DEF HistoryInv
<1>3. ASSUME q.at = "ready", Exists(q.chat)', q.history # <<>>,
             Last(messages'[q.chat]).from = s
      PROVE  q.history = HistoryOf(s)'
  <2>1. q.chat \in ChatIds
    BY <1>3 DEF RequestInv, AfterQuestion
  <2>2. q.chat # c0
    <3> SUFFICES ASSUME q.chat = c0 PROVE FALSE
      OBVIOUS
    <3> DEFINE new == [from |-> r, role |-> role, mode |-> request[r].mode, text |-> text]
    <3>1. /\ messages' \in [ChatIds -> Seq(Messages)]
          /\ DOMAIN messages'[c0] = 1..(Len(messages[c0]) + 1)
          /\ Len(messages[c0]) \in Nat
          /\ messages'[c0][Len(messages[c0]) + 1] = new
      BY <1>1, WriteStep
    <3>2. Len(messages'[c0]) = Len(messages[c0]) + 1
      BY <3>1, LenProperties
    <3> QED
      BY <1>3, <3>1, <3>2 DEF Last
  <2>3. messages'[q.chat] = messages[q.chat] /\ Exists(q.chat)
    BY <1>1, <1>3, <2>1, <2>2
  <2>4. q.history = HistoryOf(s)
    BY <1>3, <2>3 DEF HistoryInv, At
  <2>5. HistoryOf(s)' = HistoryOf(s)
    BY <2>3, SameHistory
  <2> QED
    BY <2>4, <2>5
<1> QED
  BY <1>2, <1>3 DEF HistoryInv, At

\* A request that is served, and does not write.
LEMMA HistoryOfServed ==
  ASSUME ChatTypeOK, NEW r \in Requests, RequestInv(r), WritesInOrder(r), HistoryInv(r),
         Begin(r) \/ Serve(r) \/ Fail(r), ~Ask(r), ~StoreAnswer(r)
  PROVE  HistoryInv(r)'
<1>1. UNCHANGED <<creator, deleted, messages>>
  BY ServeFrame
<1>2. Advances(r, request'[r])
  BY ServeStep
<1>3. ASSUME request'[r].at \in AfterQuestion, NEW c \in ChatIds,
             NEW i \in Positions(c, r, "user")'
      PROVE  messages'[c][i].mode = request'[r].mode
  <2>1. request[r].at \in AfterQuestion /\ request'[r].mode = request[r].mode
    BY <1>2, <1>3 DEF Advances
  <2>2. i \in Positions(c, r, "user")
    BY <1>1, <1>3 DEF Positions
  <2> QED
    BY <1>1, <2>1, <2>2 DEF HistoryInv
<1>4. ASSUME request'[r].at = "ready", request'[r].history # <<>>
      PROVE  request'[r].history = HistoryOf(r)'
  <2>1. ReadHistory(r)
    BY <1>4, ReadyStep
  <2>2. PICK h \in {HistoryOf(r), <<>>} :
          request' = [request EXCEPT ![r] = [request[r] EXCEPT !.at = "ready", !.history = h]]
    BY <2>1 DEF ReadHistory, GoTo
  <2>3. /\ request'[r].history = h /\ request'[r].chat = request[r].chat
        /\ request'[r].mode = request[r].mode
    <3> HIDE DEF HistoryOf
    <3> QED
      BY <2>2 DEF ChatTypeOK, IsRequest
  <2>4. HistoryOf(r)' = HistoryOf(r)
    BY <1>1, <2>3, SameHistory
  <2> QED
    BY <1>4, <2>2, <2>3, <2>4
<1> QED
  BY <1>3, <1>4 DEF HistoryInv, At

\* A request that writes its question or its answer.
LEMMA HistoryOfWriter ==
  ASSUME ChatTypeOK, NEW r \in Requests, RequestInv(r), WritesInOrder(r),
         Ask(r) \/ StoreAnswer(r)
  PROVE  HistoryInv(r)'
<1>1. CASE Ask(r)
  <2>1. /\ request[r].at = "chosen" /\ Write(r, "user", <<>>) /\ <<>> \in Texts
        /\ request'[r].at = "asked" /\ request'[r].mode = request[r].mode
        /\ UNCHANGED <<creator, deleted>>
    BY <1>1, TextsAreSequences DEF Ask, At, ChatTypeOK, IsRequest
  <2>2. ASSUME NEW c \in ChatIds, NEW i \in Positions(c, r, "user")'
        PROVE  messages'[c][i].mode = request[r].mode
    <3>1. Positions(c, r, "user") = {}
      BY <2>1 DEF WritesInOrder, BeforeQuestion
    <3>2. Positions(c, r, "user")' =
            Positions(c, r, "user")
            \cup (IF c = request[r].chat THEN {Len(messages[c]) + 1} ELSE {})
      BY <2>1, PositionsStep
    <3>3. c = request[r].chat /\ i = Len(messages[c]) + 1
      BY <2>2, <3>1, <3>2
    <3>4. messages'[c][Len(messages[c]) + 1] =
            [from |-> r, role |-> "user", mode |-> request[r].mode, text |-> <<>>]
      BY <2>1, <3>3, WriteStep
    <3> QED
      BY <3>3, <3>4
  <2> QED
    BY <2>1, <2>2 DEF HistoryInv, At
<1>2. CASE StoreAnswer(r)
  <2>1. request'[r].at = "done"
    BY <1>2 DEF StoreAnswer, Ended, ChatTypeOK, IsRequest
  <2> QED
    BY <2>1 DEF HistoryInv, At, AfterQuestion
<1> QED
  BY <1>1, <1>2

\* What is said of histories is kept by every step.
LEMMA HistoryStep ==
  ASSUME ChatTypeOK, \A r \in Requests : RequestInv(r) /\ WritesInOrder(r) /\ HistoryInv(r),
         [ChatNext]_vars
  PROVE  \A r \in Requests : HistoryInv(r)'
<1>1. CASE Environment \/ UNCHANGED vars
  <2>1. /\ request' = request
        /\ \A c \in ChatIds : creator[c] # NoUser => creator'[c] = creator[c]
        /\ deleted \subseteq deleted'
        /\ \A c \in ChatIds :
             \/ messages'[c] = messages[c] /\ (c \in deleted' => c \in deleted)
             \/ messages'[c] = <<>> /\ c \in deleted'
    BY <1>1, EnvironmentFrame
  <2>2. ASSUME NEW s \in Requests PROVE HistoryInv(s)'
    <3>1. CASE request[s].at \in AfterQuestion
      <4>1. request[s].chat \in ChatIds /\ creator[request[s].chat] # NoUser
        BY <3>1 DEF RequestInv
      <4> QED
        BY <2>1, <4>1, HistoryKept DEF Exists
    <3>2. CASE request[s].at \notin AfterQuestion
      BY <2>1, <3>2 DEF HistoryInv, At, AfterQuestion
    <3> QED
      BY <3>1, <3>2
  <2> QED
    BY <2>2
<1>2. ASSUME NEW r \in Requests, Begin(r) \/ Serve(r) \/ Fail(r), NEW s \in Requests
      PROVE  HistoryInv(s)'
  <2>1. /\ s # r => request'[s] = request[s]
        /\ UNCHANGED <<creator, deleted>>
        /\ Ask(r) \/ StoreAnswer(r) \/ UNCHANGED messages
    BY <1>2, ServeFrame
  <2>2. CASE s = r
    BY <1>2, <2>2, HistoryOfServed, HistoryOfWriter
  <2>3. CASE s # r /\ (Ask(r) \/ StoreAnswer(r))
    <3>1. CASE Ask(r)
      <4>1. request[r].at = "chosen" /\ Write(r, "user", <<>>) /\ <<>> \in Texts
        BY <3>1, TextsAreSequences DEF Ask, At
      <4> QED
        BY <2>1, <2>3, <4>1, HistoryOfOthers
    <3>2. CASE StoreAnswer(r)
      <4>1. /\ request[r].at = "store" /\ Write(r, "assistant", request[r].text)
            /\ request[r].text \in Texts
        BY <3>2 DEF StoreAnswer, At, ChatTypeOK, IsRequest
      <4> QED
        BY <2>1, <2>3, <4>1, HistoryOfOthers
    <3> QED
      BY <2>3, <3>1, <3>2
  <2>4. CASE s # r /\ UNCHANGED messages
    BY <2>1, <2>4, HistoryKept DEF Exists
  <2> QED
    BY <2>1, <2>2, <2>3, <2>4
<1> QED
  BY <1>1, <1>2 DEF ChatNext

-----------------------------------------------------------------------------
(* All steps together *)

LEMMA InitEstablishesChatInv == ChatInit => ChatInv
<1> SUFFICES ASSUME ChatInit PROVE ChatInv
  OBVIOUS
<1> USE DEF ChatInit
<1>1. ChatTypeOK
  <2>1. <<>> \in Seq(Messages)
    BY EmptySeq
  <2>2. Fresh \in Settings /\ DefaultId \in Configured /\ <<>> \in Texts
    BY FreshSettings, RuntimeAssumption, TextsAreSequences
  <2>3. IsRequest(NewRequest)
    BY <2>2, ChatsAssumption DEF IsRequest, NewRequest, Steps, Kinds, Modes
  <2> QED
    BY <2>1, <2>2, <2>3 DEF ChatTypeOK
<1>2. \A c \in ChatIds : messages[c] = <<>> /\ DOMAIN messages[c] = {}
  OBVIOUS
<1>3. ASSUME NEW r \in Requests PROVE RequestInv(r) /\ WritesInOrder(r) /\ HistoryInv(r)
  BY <1>2 DEF NewRequest, RequestInv, WritesInOrder, HistoryInv, At, Positions, AfterQuestion
<1>4. AnswersFollowQuestions /\ UnstrictWasPermitted /\ StoredIsShown
  BY <1>2 DEF AnswersFollowQuestions, UnstrictWasPermitted, StoredIsShown, Positions
<1>5. SettingsFit
  BY FreshSettings DEF SettingsFit
<1> QED
  BY <1>1, <1>3, <1>4, <1>5 DEF ChatInv

-----------------------------------------------------------------------------

\* ChatInv is inductive.
THEOREM ChatInvariant == ChatSpec => []ChatInv
<1>1. ChatInit => ChatInv
  BY InitEstablishesChatInv
<1>2. ChatInv /\ [ChatNext]_vars => ChatInv'
  <2> SUFFICES ASSUME ChatInv, [ChatNext]_vars PROVE ChatInv'
    OBVIOUS
  <2>1. ChatTypeOK /\ MessageInv /\ \A r \in Requests : RequestInv(r)
    BY DEF ChatInv, MessageInv
  <2>2. ChatTypeOK' /\ SettingsFit' /\ \A r \in Requests : RequestInv(r)'
    BY <2>1, ChatTypeStep, SettingsStep, RequestsStep DEF ChatInv
  <2>3. MessageInv'
    <3>1. CASE Environment \/ UNCHANGED vars
      BY <2>1, <3>1, EnvironmentStep
    <3>2. ASSUME NEW r \in Requests, Begin(r) \/ Serve(r) \/ Fail(r)
          PROVE  MessageInv'
      BY <2>1, <3>2, QuietStep, AskStep, StoreStep
    <3> QED
      BY <3>1, <3>2 DEF ChatNext
  <2>4. \A r \in Requests : HistoryInv(r)'
    BY HistoryStep DEF ChatInv
  <2> QED
    BY <2>2, <2>3, <2>4 DEF ChatInv, MessageInv
<1> QED
  BY <1>1, <1>2, PTL DEF ChatSpec

\* Answers stand once after their questions, in the same mode, and none is left
\* in a chat that was deleted.
THEOREM EveryAnswerFollowsItsQuestion == ChatSpec => []AnswersFollowQuestions
  BY ChatInvariant, PTL DEF ChatInv

\* However updates overlap, no row mixes the provider of one with the model of
\* another.
THEOREM StoredSettingsFit == ChatSpec => []SettingsFit
  BY ChatInvariant, PTL DEF ChatInv

\* No unstrict message comes from a request that was not permitted unstrict mode.
THEOREM UnstrictIsPermitted == ChatSpec => []UnstrictWasPermitted
  BY ChatInvariant, PTL DEF ChatInv

\* An answer that is stored is the one the client was shown.
THEOREM EveryStoredAnswerWasShown == ChatSpec => []StoredIsShown
  BY ChatInvariant, PTL DEF ChatInv

\* The history a model is given while its question is the last message of a chat
\* within the limit is the end of what the chat held in its mode before it.
THEOREM EveryHistoryIsPast == ChatSpec => []HistoryIsPast
<1>1. ChatInv => HistoryIsPast
  BY HistoryInvImplies DEF ChatInv
<1> QED
  BY <1>1, ChatInvariant, PTL
=============================================================================
