------------------------- MODULE StrictAnswerProofs -------------------------
(***************************************************************************)
(* Machine-checked proofs about module StrictAnswer, for any number of     *)
(* documents, roles, queries and requests, on top of the invariant of      *)
(* RetrievalCacheProofs.                                                   *)
(*                                                                         *)
(* An answer quotes what its request retrieved, under the name of the      *)
(* retrieval: so the properties of results carry over when a model is      *)
(* asked (Complete, Retry), and from there on they last as long as         *)
(* kb_version stands (WhileVersionStands).                        *)
(***************************************************************************)
EXTENDS StrictAnswer, RetrievalCacheProofs

\* Every step is one of retrieveForChat, of one request about its answer, of
\* the environment, or the end of an entry.
LEMMA AnswerSteps ==
  ASSUME [AnswerNext]_answerVars
  PROVE  \/ UNCHANGED answerVars
         \/ \E r \in Readers :
              \/ Retrieve(r) /\ UNCHANGED <<answers, draft>>
              \/ FindAnswer(r) \/ MissAnswer(r) \/ RefuseEmpty(r) \/ AskModel(r)
              \/ Complete(r) \/ Retry(r) \/ SetAnswer(r)
              \/ Abandon(r)
         \/ Environment /\ UNCHANGED <<answers, draft>>
         \/ \E e \in answers : ExpireAnswer(e)
  BY DEF AnswerNext, Answer

\* Answers add variables to retrieveForChat and take nothing away from it.
LEMMA AnswersRetrieve ==
  ASSUME [AnswerNext]_answerVars
  PROVE  [CacheNext]_cacheVars
<1>1. ASSUME UNCHANGED answerVars PROVE UNCHANGED cacheVars
  BY <1>1 DEF answerVars
<1>2. ASSUME NEW r \in Readers,
             FindAnswer(r) \/ MissAnswer(r) \/ RefuseEmpty(r) \/ AskModel(r)
             \/ Complete(r) \/ Retry(r) \/ SetAnswer(r)
      PROVE  UNCHANGED cacheVars
  BY <1>2 DEF FindAnswer, MissAnswer, RefuseEmpty, AskModel, Complete, Retry, SetAnswer
<1>3. ASSUME NEW e \in answers, ExpireAnswer(e) PROVE UNCHANGED cacheVars
  BY <1>3 DEF ExpireAnswer
<1>4. ASSUME NEW r \in Readers, Retrieve(r) \/ Abandon(r) PROVE CacheNext
  BY <1>4 DEF CacheNext, Abandon
<1>5. ASSUME Environment PROVE CacheNext
  BY <1>5 DEF CacheNext
<1> QED
  BY <1>1, <1>2, <1>3, <1>4, <1>5, AnswerSteps

\* CacheInv is an invariant here too.
LEMMA ResultsStayRight == AnswerSpec => []CacheInv
<1>1. AnswerInit => CacheInit
  BY DEF AnswerInit
<1>2. [AnswerNext]_answerVars => [CacheNext]_cacheVars
  BY AnswersRetrieve
<1> QED
  BY <1>1, <1>2, RetrievalInvariant, PTL DEF AnswerSpec, CacheSpec

LEMMA FallbackType ==
  ASSUME NEW kind \in {"grounded", "empty", "guard", "refusal"}
  PROVE  /\ Fallback(kind) \in Answers
         /\ Fallback(kind).kind = kind
         /\ Fallback(kind).quotes = {}
  BY DEF Fallback, Answers

\* What the model is trusted with: quotes of its context, or no quotes.
LEMMA ValidAnswers ==
  ASSUME CacheTypeOK, NEW r \in Readers, NEW a \in Valid(r)
  PROVE  /\ a \in Answers
         /\ a.kind \in {"grounded", "refusal"}
         /\ a.quotes \subseteq reader[r].hits
<1>1. reader[r].hits \subseteq Hits
  BY DEF CacheTypeOK
<1>2. CASE a = Fallback("refusal")
  BY <1>2, FallbackType
<1>3. CASE \E S \in SUBSET reader[r].hits \ {{}} : a = [kind |-> "grounded", quotes |-> S]
  BY <1>1, <1>3 DEF Answers
<1> QED
  BY <1>2, <1>3 DEF Valid

LEMMA ProceedType ==
  ASSUME AnswerTypeOK, NEW r \in Readers, NEW step \in DraftSteps, NEW a \in Answers,
         draft' = [draft EXCEPT ![r] = [at |-> step, answer |-> a]]
  PROVE  /\ draft' \in [Readers -> [at : DraftSteps, answer : Answers]]
         /\ draft'[r] = [at |-> step, answer |-> a]
         /\ \A s \in Readers \ {r} : draft'[s] = draft[s]
  BY DEF AnswerTypeOK

\* The draft a step of one request about its answer leaves: it quotes what an
\* entry of the same name quotes, what the request retrieved, or what it quoted
\* before.
LEMMA DraftStep ==
  ASSUME AnswerTypeOK, NEW r \in Readers,
         FindAnswer(r) \/ MissAnswer(r) \/ RefuseEmpty(r) \/ AskModel(r)
         \/ Complete(r) \/ Retry(r) \/ SetAnswer(r)
  PROVE  /\ UNCHANGED cacheVars
         /\ reader[r].at = "answer"
         /\ draft' \in [Readers -> [at : DraftSteps, answer : Answers]]
         /\ \A s \in Readers \ {r} : draft'[s] = draft[s]
         /\ \/ [key |-> reader[r].key, answer |-> draft'[r].answer] \in answers
            \/ draft'[r].answer.quotes \subseteq reader[r].hits
            \/ draft'[r].answer = draft[r].answer
         /\ draft'[r].at = "store" =>
              /\ draft'[r].answer.kind # "guard"
              /\ draft'[r].answer.kind = "empty" => reader[r].hits = {}
         /\ answers' # answers =>
              /\ answers' = PutAnswer(reader[r].key, draft[r].answer)
              /\ draft[r].at = "store"
<1> USE DEF DraftSteps, Proceed
<1>0. CacheTypeOK /\ draft[r].answer \in Answers
  BY DEF AnswerTypeOK
<1>1. CASE FindAnswer(r)
  <2>1. PICK e \in answers : e.key = reader[r].key /\ Proceed(r, "reply", e.answer)
    BY <1>1 DEF FindAnswer
  <2>2. e \in [key : Keys, answer : Answers]
    BY DEF AnswerTypeOK
  <2>3. e = [key |-> reader[r].key, answer |-> e.answer] /\ e.answer \in Answers
    BY <2>1, <2>2
  <2> QED
    BY <1>1, <2>1, <2>3, ProceedType DEF FindAnswer, At
<1>2. CASE MissAnswer(r)
  BY <1>0, <1>2, ProceedType DEF MissAnswer, At
<1>3. CASE RefuseEmpty(r)
  BY <1>3, FallbackType, ProceedType DEF RefuseEmpty, At
<1>4. CASE AskModel(r)
  BY <1>0, <1>4, ProceedType DEF AskModel, At
<1>5. CASE Complete(r)
  <2>1. CASE \E a \in Valid(r) : Proceed(r, "store", a)
    <3>1. PICK a \in Valid(r) : draft' = [draft EXCEPT ![r] = [at |-> "store", answer |-> a]]
      BY <2>1
    <3>2. /\ a \in Answers
          /\ a.kind \in {"grounded", "refusal"}
          /\ a.quotes \subseteq reader[r].hits
      BY <1>0, ValidAnswers
    <3> QED
      BY <1>5, <3>1, <3>2, ProceedType DEF Complete, At
  <2>2. CASE Proceed(r, "retry", draft[r].answer)
    BY <1>0, <1>5, <2>2, ProceedType DEF Complete, At
  <2> QED
    BY <1>5, <2>1, <2>2 DEF Complete
<1>6. CASE Retry(r)
  <2>1. CASE \E a \in Valid(r) : Proceed(r, "store", a)
    <3>1. PICK a \in Valid(r) : draft' = [draft EXCEPT ![r] = [at |-> "store", answer |-> a]]
      BY <2>1
    <3>2. /\ a \in Answers
          /\ a.kind \in {"grounded", "refusal"}
          /\ a.quotes \subseteq reader[r].hits
      BY <1>0, ValidAnswers
    <3> QED
      BY <1>6, <3>1, <3>2, ProceedType DEF Retry, At
  <2>2. ASSUME NEW h \in reader[r].hits,
               Proceed(r, "reply", [kind |-> "grounded", quotes |-> {h}])
        PROVE  /\ draft' \in [Readers -> [at : DraftSteps, answer : Answers]]
               /\ \A s \in Readers \ {r} : draft'[s] = draft[s]
               /\ draft'[r].answer.quotes \subseteq reader[r].hits
               /\ draft'[r].at = "reply"
    <3>1. [kind |-> "grounded", quotes |-> {h}] \in Answers
      BY <1>0 DEF Answers, CacheTypeOK
    <3> QED
      BY <2>2, <3>1, ProceedType
  <2>3. CASE Proceed(r, "reply", Fallback("guard"))
    BY <1>6, <2>3, FallbackType, ProceedType DEF Retry, At
  <2> QED
    BY <1>6, <2>1, <2>2, <2>3 DEF Retry, At
<1>7. CASE SetAnswer(r)
  BY <1>0, <1>7, ProceedType DEF SetAnswer, At
<1> QED
  BY <1>1, <1>2, <1>3, <1>4, <1>5, <1>6, <1>7

\* Ended or abandoned requests have no draft, and Leave changes nobody else.
LEMMA AbandonFrame ==
  ASSUME AnswerTypeOK, NEW r \in Readers, Abandon(r)
  PROVE  /\ draft'[r] = NoDraft
         /\ reader'[r].at = "idle"
         /\ \A s \in Readers \ {r} : draft'[s] = draft[s] /\ reader'[s] = reader[s]
         /\ draft' \in [Readers -> [at : DraftSteps, answer : Answers]]
         /\ UNCHANGED answers
<1>1. NoDraft \in [at : DraftSteps, answer : Answers]
  BY FallbackType DEF NoDraft, DraftSteps
<1> QED
  BY <1>1, RequestFrame DEF Abandon, Leave, Idle, AnswerTypeOK, CacheTypeOK

LEMMA AnswerTypeStep ==
  ASSUME AnswerTypeOK, [AnswerNext]_answerVars
  PROVE  AnswerTypeOK'
<1>1. CacheTypeOK'
  BY AnswersRetrieve, CacheTypeStep DEF AnswerTypeOK
<1>2. CASE UNCHANGED <<answers, draft>>
  BY <1>1, <1>2 DEF AnswerTypeOK
<1>3. ASSUME NEW r \in Readers,
             FindAnswer(r) \/ MissAnswer(r) \/ RefuseEmpty(r) \/ AskModel(r)
             \/ Complete(r) \/ Retry(r) \/ SetAnswer(r)
      PROVE  AnswerTypeOK'
  <2>1. reader[r].key \in Keys /\ draft[r].answer \in Answers
    BY DEF AnswerTypeOK, CacheTypeOK
  <2>2. PutAnswer(reader[r].key, draft[r].answer) \subseteq [key : Keys, answer : Answers]
    BY <2>1 DEF AnswerTypeOK, PutAnswer
  <2> QED
    BY <1>1, <1>3, <2>2, DraftStep DEF AnswerTypeOK
<1>4. ASSUME NEW r \in Readers, Abandon(r)
      PROVE  AnswerTypeOK'
  BY <1>1, <1>4, AbandonFrame DEF AnswerTypeOK
<1>5. ASSUME NEW e \in answers, ExpireAnswer(e)
      PROVE  AnswerTypeOK'
  BY <1>1, <1>5 DEF AnswerTypeOK, ExpireAnswer
<1> QED
  BY <1>2, <1>3, <1>4, <1>5, AnswerSteps DEF answerVars

\* A step of retrieveForChat leaves the requests alone that are about their
\* answers, and one that gets its chunks begins with NoDraft.
LEMMA DraftsStep ==
  ASSUME AnswerTypeOK, DraftsFollowChunks, RefusalsAreMeant, [AnswerNext]_answerVars
  PROVE  DraftsFollowChunks' /\ RefusalsAreMeant'
<1> USE DEF DraftsFollowChunks, RefusalsAreMeant, At
<1>0. CacheTypeOK
  BY DEF AnswerTypeOK
<1>1. CASE UNCHANGED answerVars
  BY <1>1 DEF answerVars, cacheVars
<1>2. ASSUME NEW r \in Readers, Retrieve(r), UNCHANGED <<answers, draft>>
      PROVE  DraftsFollowChunks' /\ RefusalsAreMeant'
  <2>1. reader[r].at # "answer"
    BY <1>2 DEF Retrieve, Ask, ReadVersion, Find, Miss, RetrieveChunks,
                CollectCandidates, HydrateCandidates, Set
  <2>2. draft'[r].at # "store"
    BY <1>2, <2>1 DEF NoDraft
  <2>3. \A s \in Readers \ {r} : reader'[s] = reader[s]
    BY <1>0, <1>2, RequestFrame DEF Retrieve
  <2> QED
    BY <1>2, <2>1, <2>2, <2>3
<1>3. ASSUME NEW r \in Readers,
             FindAnswer(r) \/ MissAnswer(r) \/ RefuseEmpty(r) \/ AskModel(r)
             \/ Complete(r) \/ Retry(r) \/ SetAnswer(r)
      PROVE  DraftsFollowChunks' /\ RefusalsAreMeant'
  BY <1>3, DraftStep, ZenonT(40) DEF cacheVars
<1>4. ASSUME NEW r \in Readers, Abandon(r)
      PROVE  DraftsFollowChunks' /\ RefusalsAreMeant'
  BY <1>4, AbandonFrame DEF NoDraft
<1>5. CASE Environment /\ UNCHANGED <<answers, draft>>
  BY <1>0, <1>5, EnvironmentFrame
<1>6. ASSUME NEW e \in answers, ExpireAnswer(e)
      PROVE  DraftsFollowChunks' /\ RefusalsAreMeant'
  BY <1>6 DEF ExpireAnswer, cacheVars
<1> QED
  BY <1>1, <1>2, <1>3, <1>4, <1>5, <1>6, AnswerSteps

\* An entry that is new holds the draft of a request under its name.
LEMMA EntryStep ==
  ASSUME AnswerTypeOK, [AnswerNext]_answerVars, NEW e \in answers', e \notin answers
  PROVE  \E r \in Readers :
           /\ e = [key |-> reader[r].key, answer |-> draft[r].answer]
           /\ At(r, "store")
           /\ UNCHANGED cacheVars
<1>1. \A r \in Readers : ~Abandon(r)
  BY AbandonFrame
<1>2. \A x \in answers : ~ExpireAnswer(x)
  BY DEF ExpireAnswer
<1>3. PICK r \in Readers :
        FindAnswer(r) \/ MissAnswer(r) \/ RefuseEmpty(r) \/ AskModel(r)
        \/ Complete(r) \/ Retry(r) \/ SetAnswer(r)
  BY <1>1, <1>2, AnswerSteps DEF answerVars
<1>4. /\ answers' = PutAnswer(reader[r].key, draft[r].answer)
      /\ At(r, "store")
      /\ UNCHANGED cacheVars
  BY <1>3, DraftStep DEF At
<1> QED
  BY <1>4 DEF PutAnswer

\* An answer that a step makes quotes nothing, or what a result of the same
\* name holds; every other answer has been there before.
LEMMA GivenStep ==
  ASSUME CacheInv, AnswerInv, [AnswerNext]_answerVars, NEW x \in Given'
  PROVE  \/ x \in Given
         \/ x.answer.quotes = {}
         \/ /\ UNCHANGED cacheVars
            /\ \E y \in Results : y.key = x.key /\ x.answer.quotes \subseteq y.hits
<1> USE DEF AnswerInv
<1>1. CASE x \in answers'
  BY <1>1, EntryStep DEF Given, At
<1>2. ASSUME NEW r \in Readers, reader'[r].at = "answer",
             x = [key |-> reader'[r].key, answer |-> draft'[r].answer]
      PROVE  \/ x \in Given
             \/ x.answer.quotes = {}
             \/ /\ UNCHANGED cacheVars
                /\ \E y \in Results : y.key = x.key /\ x.answer.quotes \subseteq y.hits
  <2>0. CacheTypeOK
    BY DEF AnswerTypeOK
  <2>1. CASE reader'[r] = reader[r] /\ draft'[r] = draft[r]
    BY <1>2, <2>1 DEF Given
  <2>2. CASE Retrieve(r) /\ UNCHANGED <<answers, draft>>
    <3>1. reader[r].at # "answer"
      BY <2>2 DEF Retrieve, Ask, ReadVersion, Find, Miss, RetrieveChunks,
                  CollectCandidates, HydrateCandidates, Set
    <3>2. draft'[r] = NoDraft
      BY <2>2, <3>1 DEF DraftsFollowChunks
    <3> QED
      BY <1>2, <3>2, FallbackType DEF NoDraft
  <2>3. CASE FindAnswer(r) \/ MissAnswer(r) \/ RefuseEmpty(r) \/ AskModel(r)
             \/ Complete(r) \/ Retry(r) \/ SetAnswer(r)
    <3>1. UNCHANGED cacheVars /\ reader' = reader /\ reader[r].at = "answer"
      BY <2>3, DraftStep DEF cacheVars
    <3>2. CASE [key |-> reader[r].key, answer |-> draft'[r].answer] \in answers
      BY <1>2, <3>1, <3>2 DEF Given
    <3>3. CASE draft'[r].answer.quotes \subseteq reader[r].hits
      <4> DEFINE y == [key |-> reader[r].key, hits |-> reader[r].hits]
      <4>1. y \in Results /\ y.key = x.key /\ x.answer.quotes \subseteq y.hits
        BY <1>2, <3>1, <3>3 DEF Results
      <4> QED
        BY <3>1, <4>1
    <3>4. CASE draft'[r].answer = draft[r].answer
      BY <1>2, <3>1, <3>4 DEF Given
    <3> QED
      BY <2>3, <3>2, <3>3, <3>4, DraftStep
  <2>4. CASE Abandon(r)
    BY <1>2, <2>4, AbandonFrame
  <2>5. ASSUME NEW s \in Readers \ {r}
        PROVE  /\ Retrieve(s) /\ UNCHANGED <<answers, draft>> =>
                    reader'[r] = reader[r] /\ draft'[r] = draft[r]
               /\ FindAnswer(s) \/ MissAnswer(s) \/ RefuseEmpty(s) \/ AskModel(s)
                  \/ Complete(s) \/ Retry(s) \/ SetAnswer(s) =>
                    reader'[r] = reader[r] /\ draft'[r] = draft[r]
               /\ Abandon(s) => reader'[r] = reader[r] /\ draft'[r] = draft[r]
    <3>1. Retrieve(s) => reader'[r] = reader[r]
      BY <2>0, RequestFrame DEF Retrieve
    <3>2. FindAnswer(s) \/ MissAnswer(s) \/ RefuseEmpty(s) \/ AskModel(s)
          \/ Complete(s) \/ Retry(s) \/ SetAnswer(s) =>
            reader'[r] = reader[r] /\ draft'[r] = draft[r]
      BY DraftStep DEF cacheVars
    <3>3. Abandon(s) => reader'[r] = reader[r] /\ draft'[r] = draft[r]
      BY AbandonFrame
    <3> QED
      BY <3>1, <3>2, <3>3
  <2>6. CASE UNCHANGED answerVars
    BY <2>1, <2>6 DEF answerVars, cacheVars
  <2>7. CASE Environment /\ UNCHANGED <<answers, draft>>
    BY <2>0, <2>1, <2>7, EnvironmentFrame
  <2>8. ASSUME NEW e \in answers, ExpireAnswer(e)
        PROVE  x \in Given
    BY <1>2, <2>8 DEF ExpireAnswer, cacheVars, Given
  <2>9. ASSUME NEW s \in Readers,
               \/ Retrieve(s) /\ UNCHANGED <<answers, draft>>
               \/ FindAnswer(s) \/ MissAnswer(s) \/ RefuseEmpty(s) \/ AskModel(s)
                  \/ Complete(s) \/ Retry(s) \/ SetAnswer(s)
               \/ Abandon(s)
        PROVE  \/ x \in Given
               \/ x.answer.quotes = {}
               \/ /\ UNCHANGED cacheVars
                  /\ \E y \in Results : y.key = x.key /\ x.answer.quotes \subseteq y.hits
    <3>1. CASE s = r
      BY <2>2, <2>3, <2>4, <2>9, <3>1
    <3>2. CASE s # r
      BY <2>1, <2>5, <2>9, <3>2
    <3> QED
      BY <3>1, <3>2
  <2> QED
    BY <2>6, <2>7, <2>8, <2>9, AnswerSteps
<1> QED
  BY <1>1, <1>2 DEF Given

LEMMA AnswerIsolationStep ==
  ASSUME AnswerInv, [AnswerNext]_answerVars
  PROVE  AnswerIsolation'
<1> SUFFICES ASSUME NEW x \in Given', NEW h \in x.answer.quotes
             PROVE  x.key.role \in Allowed[h[1]]
  BY DEF AnswerIsolation
<1>1. CASE x \in Given
  BY <1>1 DEF AnswerInv, AnswerIsolation
<1>2. ASSUME NEW y \in Results, y.key = x.key, x.answer.quotes \subseteq y.hits
      PROVE  x.key.role \in Allowed[h[1]]
  BY <1>2 DEF AnswerInv, CacheInv, RoleIsolation
<1> QED
  BY <1>1, <1>2, GivenStep DEF AnswerInv

\* No answer waits under a version that is still to come.
LEMMA GivenNotAhead ==
  ASSUME AnswerInv, NEW x \in Given
  PROVE  /\ version \in Nat /\ x.key.version \in Nat
         /\ x.key.version <= version
         /\ x.answer.quotes \subseteq Hits
<1> USE DEF AnswerInv, AnswerTypeOK
<1>1. version \in Nat
  BY DEF CacheTypeOK, KBTypeOK
<1>2. CASE x \in answers
  BY <1>1, <1>2 DEF AnswersNotAhead, Keys, Answers
<1>3. ASSUME NEW r \in Readers,
             x = [key |-> reader[r].key, answer |-> draft[r].answer]
      PROVE  /\ x.key.version \in Nat
             /\ x.key.version <= version
             /\ x.answer.quotes \subseteq Hits
  BY <1>3 DEF CacheInv, KeysNotAhead, CacheTypeOK, Keys, Answers
<1> QED
  BY <1>1, <1>2, <1>3 DEF Given

LEMMA AnswersNotAheadStep ==
  ASSUME AnswerInv, [AnswerNext]_answerVars
  PROVE  AnswersNotAhead'
<1> SUFFICES ASSUME NEW e \in answers' PROVE e.key.version <= version'
  BY DEF AnswersNotAhead
<1>1. version \in Nat /\ (version' = version \/ version' = version + 1)
  BY AnswersRetrieve, VersionStep DEF AnswerInv, CacheInv, CacheTypeOK, KBTypeOK
<1>2. CASE e \in answers
  BY <1>1, <1>2, GivenNotAhead DEF Given
<1>3. CASE e \notin answers
  BY <1>1, <1>3, EntryStep, GivenNotAhead DEF Given, At, AnswerInv
<1> QED
  BY <1>2, <1>3

LEMMA AnswerNotOutdatedStep ==
  ASSUME AnswerInv, [AnswerNext]_answerVars
  PROVE  AnswerNotOutdated'
<1> SUFFICES ASSUME NEW x \in Given', x.key.version = version', NEW h \in x.answer.quotes
             PROVE  h[2] \in since'[h[1]]
  BY DEF AnswerNotOutdated
<1>0. CacheTypeOK /\ [CacheNext]_cacheVars
  BY AnswersRetrieve DEF AnswerInv, AnswerTypeOK
<1>1. CASE x \in Given
  <2>1. ~Announce /\ version' = version
    BY <1>0, <1>1, GivenNotAhead, VersionStep DEF Announce, Bump
  <2>2. h[1] \in Docs /\ h[2] \in since[h[1]]
    BY <1>1, <2>1, GivenNotAhead DEF AnswerInv, AnswerNotOutdated, Hits
  <2> QED
    BY <1>0, <2>1, <2>2, WhileVersionStands
<1>2. ASSUME NEW y \in Results, y.key = x.key, x.answer.quotes \subseteq y.hits,
             UNCHANGED cacheVars
      PROVE  h[2] \in since'[h[1]]
  BY <1>2 DEF AnswerInv, CacheInv, NothingOutdated, Current, cacheVars, kbVars
<1> QED
  BY <1>1, <1>2, GivenStep DEF AnswerInv

LEMMA RefusalStep ==
  ASSUME AnswerInv, [AnswerNext]_answerVars
  PROVE  RefusalIsDeserved'
<1> SUFFICES ASSUME NEW e \in answers', e.key.version = version',
                    e.answer.kind \in {"empty", "guard"},
                    NEW d \in steady' \cap Relevant(e.key)
             PROVE  FALSE
  BY DEF RefusalIsDeserved, Relevant
<1>0. CacheTypeOK /\ [CacheNext]_cacheVars
  BY AnswersRetrieve DEF AnswerInv, AnswerTypeOK
<1>1. CASE e \in answers
  <2>1. ~Announce /\ version' = version
    BY <1>0, <1>1, GivenNotAhead, VersionStep DEF Announce, Bump, Given
  <2>2. d \in steady
    BY <1>0, <2>1, WhileVersionStands
  <2> QED
    BY <1>1, <2>1, <2>2 DEF AnswerInv, RefusalIsDeserved
<1>2. CASE e \notin answers
  <2>1. PICK r \in Readers :
          /\ e = [key |-> reader[r].key, answer |-> draft[r].answer]
          /\ At(r, "store")
          /\ UNCHANGED cacheVars
    BY <1>2, EntryStep DEF AnswerInv
  <2>2. reader[r].hits = {} /\ reader[r].at = "answer"
    BY <2>1 DEF AnswerInv, RefusalsAreMeant, At
  <2>3. [key |-> e.key, hits |-> {}] \in Results
    BY <2>1, <2>2 DEF Results
  <2>4. version' = version /\ d \in steady
    BY <2>1 DEF cacheVars, kbVars
  <2> QED
    BY <2>3, <2>4 DEF AnswerInv, CacheInv, NothingMissing, Current
<1> QED
  BY <1>1, <1>2

LEMMA InitEstablishesAnswerInv == AnswerInit => AnswerInv
<1> SUFFICES ASSUME AnswerInit PROVE AnswerInv
  OBVIOUS
<1>1. CacheInv /\ answers = {} /\ draft = [r \in Readers |-> NoDraft]
  BY InitEstablishesCacheInv DEF AnswerInit
<1>2. NoDraft \in [at : DraftSteps, answer : Answers]
  BY FallbackType DEF NoDraft, DraftSteps
<1>3. AnswerTypeOK
  BY <1>1, <1>2 DEF AnswerTypeOK, CacheInv
<1>4. \A r \in Readers : draft[r].at = "lookup" /\ draft[r].answer.quotes = {}
  BY <1>1, FallbackType DEF NoDraft
<1> QED
  BY <1>1, <1>3, <1>4
     DEF AnswerInv, DraftsFollowChunks, RefusalsAreMeant, AnswersNotAhead, At,
         AnswerIsolation, AnswerNotOutdated, RefusalIsDeserved, Given

\* AnswerInv is inductive once CacheInv, of which the next state's half is taken
\* from ResultsStayRight, is known.
THEOREM AnswerInvariant == AnswerSpec => []AnswerInv
<1>1. AnswerInit => AnswerInv
  BY InitEstablishesAnswerInv
<1>2. AnswerInv /\ CacheInv' /\ [AnswerNext]_answerVars => AnswerInv'
  <2> SUFFICES ASSUME AnswerInv, CacheInv', [AnswerNext]_answerVars PROVE AnswerInv'
    OBVIOUS
  <2>1. AnswerTypeOK' /\ DraftsFollowChunks' /\ RefusalsAreMeant'
    BY AnswerTypeStep, DraftsStep DEF AnswerInv
  <2>2. AnswersNotAhead' /\ AnswerIsolation' /\ AnswerNotOutdated' /\ RefusalIsDeserved'
    BY AnswersNotAheadStep, AnswerIsolationStep, AnswerNotOutdatedStep, RefusalStep
  <2> QED
    BY <2>1, <2>2 DEF AnswerInv
<1> QED
  BY <1>1, <1>2, ResultsStayRight, PTL DEF AnswerSpec

\* Neither the model nor an answer cached for another user shows a role what it
\* may not read.
THEOREM AnswersAreIsolated == AnswerSpec => []AnswerIsolation
  BY AnswerInvariant, PTL DEF AnswerInv

\* Answers under the current kb_version are not older than it, although their
\* entries have a life of their own.
THEOREM NoOutdatedAnswer == AnswerSpec => []AnswerNotOutdated
  BY AnswerInvariant, PTL DEF AnswerInv

\* A refusal that the model did not write is cached for an empty retrieval only,
\* and under the current kb_version that was right.
THEOREM RefusalsAreDeserved == AnswerSpec => []RefusalIsDeserved
  BY AnswerInvariant, PTL DEF AnswerInv
=============================================================================
