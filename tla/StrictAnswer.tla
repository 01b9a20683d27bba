---------------------------- MODULE StrictAnswer ----------------------------
(***************************************************************************)
(* generateAssistantAnswerWithHistory in strict mode, run by a request     *)
(* after retrieveForChat: answers are cached under the names of the        *)
(* retrieval entries, but in entries of their own, with a life of their    *)
(* own.  An answer is what a reader of it can tell: the chunks it quotes   *)
(* by their numbers [1], [2], ..., or which refusal it is.                 *)
(***************************************************************************)
EXTENDS RetrievalCache

VARIABLES
  answers,  \* the answer entries in Redis
  draft     \* the answer of each request, and the next call about it

answerVars == <<cacheVars, answers, draft>>

\* "grounded" quotes chunks, "empty" is the fallback for an empty retrieval,
\* "guard" the fallback after two invalid completions, "refusal" the same text
\* written by the model.
Answers == [kind : {"grounded", "empty", "guard", "refusal"}, quotes : SUBSET Hits]
Fallback(kind) == [kind |-> kind, quotes |-> {}]
DraftSteps == {"lookup", "start", "complete", "retry", "store", "reply"}

AnswerTypeOK ==
  /\ CacheTypeOK
  /\ answers \subseteq [key : Keys, answer : Answers]
  /\ draft \in [Readers -> [at : DraftSteps, answer : Answers]]

NoDraft == [at |-> "lookup", answer |-> Fallback("guard")]

AnswerInit ==
  /\ CacheInit
  /\ answers = {}
  /\ draft = [r \in Readers |-> NoDraft]

-----------------------------------------------------------------------------
(* One request that has its chunks *)

At(r, step) == reader[r].at = "answer" /\ draft[r].at = step

Proceed(r, step, answer) == draft' = [draft EXCEPT ![r] = [at |-> step, answer |-> answer]]

PutAnswer(k, answer) ==
  {e \in answers : e.key # k} \cup {[key |-> k, answer |-> answer]}

\* Mutant: the name of an answer has no role.
FindAnswerForAnyRole(r) ==
  /\ At(r, "lookup")
  /\ \E e \in answers :
       /\ [e.key EXCEPT !.role = reader[r].key.role] = reader[r].key
       /\ Proceed(r, "reply", e.answer)
  /\ UNCHANGED <<cacheVars, answers>>

\* Mutant: the name of an answer has no kb_version.
FindAnswerForAnyVersion(r) ==
  /\ At(r, "lookup")
  /\ \E e \in answers :
       /\ [e.key EXCEPT !.version = reader[r].key.version] = reader[r].key
       /\ Proceed(r, "reply", e.answer)
  /\ UNCHANGED <<cacheVars, answers>>

\* GetJSON of the answer entry: the cached text is the reply, whatever chunks
\* this request holds.
FindAnswer(r) ==
  /\ At(r, "lookup")
  /\ \E e \in answers :
       /\ e.key = reader[r].key
       /\ Proceed(r, "reply", e.answer)
  /\ UNCHANGED <<cacheVars, answers>>

MissAnswer(r) ==
  /\ At(r, "lookup")
  /\ Proceed(r, "start", draft[r].answer)
  /\ UNCHANGED <<cacheVars, answers>>

\* Nothing retrieved: the fallback is cached and returned, the model not asked.
RefuseEmpty(r) ==
  /\ At(r, "start")
  /\ reader[r].hits = {}
  /\ Proceed(r, "store", Fallback("empty"))
  /\ UNCHANGED <<cacheVars, answers>>

AskModel(r) ==
  /\ At(r, "start")
  /\ reader[r].hits # {}
  /\ Proceed(r, "complete", draft[r].answer)
  /\ UNCHANGED <<cacheVars, answers>>

\* Completions isStrictCompletionValid accepts: the fallback text itself, or
\* quotes of chunks in the context with numbers of chunks in the context.
Valid(r) ==
  {Fallback("refusal")} \cup
  {[kind |-> "grounded", quotes |-> S] : S \in SUBSET reader[r].hits \ {{}}}

\* completeWithContext: a valid completion, or an invalid one.  An error ends
\* the request (Abandon).
Complete(r) ==
  /\ At(r, "complete")
  /\ \/ \E a \in Valid(r) : Proceed(r, "store", a)
     \/ Proceed(r, "retry", draft[r].answer)
  /\ UNCHANGED <<cacheVars, answers>>

\* Mutant: the guard's fallback takes the way of the accepted completions.
RetryAndCache(r) ==
  /\ At(r, "retry")
  /\ \E a \in Valid(r) \cup {Fallback("guard")} : Proceed(r, "store", a)
  /\ UNCHANGED <<cacheVars, answers>>

\* completeStrictRetry, once.  If that is invalid too, buildStrictHeuristicAnswer
\* quotes a chunk, or the fallback is returned; neither is cached.
Retry(r) ==
  /\ At(r, "retry")
  /\ \/ \E a \in Valid(r) : Proceed(r, "store", a)
     \/ \E h \in reader[r].hits : Proceed(r, "reply", [kind |-> "grounded", quotes |-> {h}])
     \/ Proceed(r, "reply", Fallback("guard"))
  /\ UNCHANGED <<cacheVars, answers>>

\* SetJSON of the answer; its error is ignored.
SetAnswer(r) ==
  /\ At(r, "store")
  /\ answers' \in {answers, PutAnswer(reader[r].key, draft[r].answer)}
  /\ Proceed(r, "reply", draft[r].answer)
  /\ UNCHANGED cacheVars

\* The message is written with the answer and the citations of reader[r].hits;
\* or a call has failed before.
Abandon(r) ==
  /\ Leave(r)
  /\ draft' = [draft EXCEPT ![r] = NoDraft]
  /\ UNCHANGED answers

ExpireAnswer(e) ==
  /\ e \in answers
  /\ answers' = answers \ {e}
  /\ UNCHANGED <<cacheVars, draft>>

-----------------------------------------------------------------------------

Answer(r) ==
  \/ FindAnswer(r)
  \/ MissAnswer(r)
  \/ RefuseEmpty(r)
  \/ AskModel(r)
  \/ Complete(r)
  \/ Retry(r)
  \/ SetAnswer(r)

AnswerNext ==
  \/ \E r \in Readers : Retrieve(r) /\ UNCHANGED <<answers, draft>>
  \/ \E r \in Readers : Answer(r) \/ Abandon(r)
  \/ Environment /\ UNCHANGED <<answers, draft>>
  \/ \E e \in answers : ExpireAnswer(e)

AnswerSpec == AnswerInit /\ [][AnswerNext]_answerVars

-----------------------------------------------------------------------------
(* Properties *)

\* Answers requests may be handed.
Given ==
  answers \cup {[key |-> reader[r].key, answer |-> draft[r].answer] :
                  r \in {r \in Readers : reader[r].at = "answer"}}

\* Nobody is answered with quotes from a document the role may not read, by
\* the model or by an answer cached for another user.
AnswerIsolation ==
  \A x \in Given : \A h \in x.answer.quotes : x.key.role \in Allowed[h[1]]

\* Under the current kb_version no answer quotes chunks that had been replaced
\* before kb_version got its value, although the answer entry outlives the
\* retrieval entry it was made from.
AnswerNotOutdated ==
  \A x \in Given : x.key.version = version =>
    \A h \in x.answer.quotes : h[2] \in since[h[1]]

\* "Do not cache guard fallback when retrieved context exists": a refusal the
\* model did not write is found in the cache under the current kb_version only
\* if every document that could have answered has been hidden or replaced
\* since kb_version got its value.
RefusalIsDeserved ==
  \A e \in answers :
    e.key.version = version /\ e.answer.kind \in {"empty", "guard"} =>
      steady \cap Relevant(e.key) = {}

\* ROADMAP.md: the strict guard lets no answer with invalid citations through,
\* and the strict cache keeps "answer + citations": the message written for a
\* request cites the chunks its answer quotes.
QuotesAreCited ==
  \A r \in Readers : At(r, "reply") => draft[r].answer.quotes \subseteq reader[r].hits

-----------------------------------------------------------------------------
(* The inductive invariant behind the first three properties *)

\* A request that has no chunks yet has no answer either.
DraftsFollowChunks ==
  \A r \in Readers : reader[r].at # "answer" => draft[r] = NoDraft

\* Of the refusals that the model did not write only that of an empty retrieval
\* is about to be cached.
RefusalsAreMeant ==
  \A r \in Readers :
    At(r, "store") =>
      /\ draft[r].answer.kind # "guard"
      /\ draft[r].answer.kind = "empty" => reader[r].hits = {}

\* No answer waits under a version that is still to come.
AnswersNotAhead == \A e \in answers : e.key.version <= version

\* The invariant of the retrieval entries and what it takes for the answers.
AnswerInv ==
  /\ CacheInv
  /\ AnswerTypeOK
  /\ DraftsFollowChunks /\ RefusalsAreMeant /\ AnswersNotAhead
  /\ AnswerIsolation
  /\ AnswerNotOutdated
  /\ RefusalIsDeserved
=============================================================================
