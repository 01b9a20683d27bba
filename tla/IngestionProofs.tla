-------------------------- MODULE IngestionProofs --------------------------
(***************************************************************************)
(* Machine-checked proofs about module Ingestion, for any number of        *)
(* documents, requests, tasks, retries and faults.                         *)
(*                                                                         *)
(* The invariant IInv is proved conjunct by conjunct: each lemma below     *)
(* takes IInv in the current state and one step, and concludes one part    *)
(* of IInv in the next state, by cases on the step.                        *)
(***************************************************************************)
EXTENDS Ingestion, TLAPS

\* The step of one actor, with its parameters made explicit.
LEMMA StepCases ==
  ASSUME [Next]_vars
  PROVE  \/ UNCHANGED vars
         \/ \E r \in Requests, o \in Outcomes, d \in Docs :
              UploadDocument(r, d, o) \/ MarkUploaded(r, d, o)
         \/ \E r \in Requests, S \in SUBSET Docs : StartReingest(r, S)
         \/ \E r \in Requests, o \in Outcomes : Enqueue(r, o) \/ MarkUnscheduled(r, o)
         \/ \E r \in Requests : AbandonRequest(r)
         \/ \E t \in Tasks : Lease(t) \/ Interrupt(t) \/ Shutdown(t) \/ Acknowledge(t)
         \/ \E t \in Tasks, o \in Outcomes :
              \/ MarkProcessing(t, o) \/ Build(t, o) \/ DeleteRows(t, o)
              \/ CommitRows(t, o) \/ PurgeIndex(t, o) \/ MarkFailed(t, o)
              \/ MarkReady(t, o) \/ BumpVersion(t, o)
         \/ \E t \in Tasks, o \in Outcomes \cup {"rejected"} : BulkIndex(t, o)
         \/ Refresh
  BY DEF Next, RequestNext, RequestStep, TaskNext, HandlerStep, Idle

\* Initially the invariant holds: there are no documents and no tasks.
LEMMA InitEstablishesIInv == Init => IInv
<1> SUFFICES ASSUME Init PROVE IInv
  OBVIOUS
<1>1. TypeOK
  BY IngestionAssumption DEF Init, TypeOK, Statuses, MaxAttempts
<1>2. HandlersRun /\ AttemptsAreAccounted
  BY IngestionAssumption DEF Init, HandlersRun, AttemptsAreAccounted
<1>3. CommittedHasChunks /\ ReadyHasChunks /\ AcknowledgedIsAnnounced
  BY DEF Init, CommittedHasChunks, ReadyHasChunks, AcknowledgedIsAnnounced
<1>4. UnannouncedIsUnfinished /\ UnfinishedIsOwed
  BY DEF Init, UnannouncedIsUnfinished, UnfinishedIsOwed
<1>5. OneHandler /\ HiddenWhileHandled /\ IndexFollowsChunks
  BY DEF Init, OneHandler, HiddenWhileHandled, IndexFollowsChunks, Handled
<1>6. IndexUnused /\ SparseIsCurrent
  BY DEF Init, IndexUnused, SparseIsCurrent
<1> QED
  BY <1>1, <1>2, <1>3, <1>4, <1>5, <1>6 DEF IInv

\* The generation a running handler would commit has a name.
LEMMA OwnGeneration ==
  ASSUME IInv, NEW t \in Tasks
  PROVE  queue[t] = "active" => <<t, attempt[t]>> \in Generations
  BY IngestionAssumption
     DEF IInv, TypeOK, AttemptsAreAccounted, Generations, MaxAttempts

LEMMA TypeStep ==
  ASSUME IInv, [Next]_vars
  PROVE  TypeOK'
<1> USE DEF IInv, TypeOK, HandlersRun, Statuses, HandlerSteps, Outcomes,
            dbVars, indexVars, taskVars, Charge, SetStatus, Happened, Succeeded
<1>0. CASE UNCHANGED vars
  BY <1>0 DEF vars
<1>1. ASSUME NEW r \in Requests, NEW o \in Outcomes, NEW d \in Docs,
             UploadDocument(r, d, o) \/ MarkUploaded(r, d, o)
      PROVE  TypeOK'
  BY <1>1, IngestionAssumption, SMTT(30) DEF UploadDocument, MarkUploaded, NextDocument
<1>2. ASSUME NEW r \in Requests, NEW S \in SUBSET Docs, StartReingest(r, S)
      PROVE  TypeOK'
  BY <1>2 DEF StartReingest
<1>3. ASSUME NEW r \in Requests, NEW o \in Outcomes, Enqueue(r, o)
      PROVE  TypeOK'
  <2>1. request' \in [Requests -> [at : {"idle", "mark", "enqueue", "fail", "done"},
                                   doc : Docs \cup {NoDoc}, todo : SUBSET Docs]]
    BY <1>3 DEF Enqueue, NextDocument
  <2>2. faults' \in 0 .. MaxFaults
    BY <1>3, IngestionAssumption DEF Enqueue
  <2>3. /\ queue' \in [Tasks -> {"unused", "pending", "active", "completed", "archived"}]
        /\ target' \in [Tasks -> Docs \cup {NoDoc}]
    BY <1>3 DEF Enqueue
  <2> QED
    BY <1>3, <2>1, <2>2, <2>3 DEF Enqueue
<1>4. ASSUME NEW r \in Requests, NEW o \in Outcomes, MarkUnscheduled(r, o)
      PROVE  TypeOK'
  BY <1>4, IngestionAssumption DEF MarkUnscheduled, NextDocument
<1>5. ASSUME NEW r \in Requests, AbandonRequest(r)
      PROVE  TypeOK'
  BY <1>5, IngestionAssumption DEF AbandonRequest, NextDocument
<1>6. ASSUME NEW t \in Tasks, Lease(t)
      PROVE  TypeOK'
  <2>1. attempt' \in [Tasks -> 0 .. MaxAttempts]
    <3>1. attempt[t] + 1 \in 1 .. MaxAttempts
      BY <1>6, IngestionAssumption DEF Lease, AttemptsAreAccounted, MaxAttempts
    <3>2. attempt' = [attempt EXCEPT ![t] = attempt[t] + 1]
      BY <1>6 DEF Lease
    <3> QED
      BY <3>1, <3>2, IngestionAssumption DEF MaxAttempts
  <2>2. overlapped' \in SUBSET Docs
    <3>1. target[t] \in Docs
      BY <1>6 DEF Lease
    <3> QED
      BY <1>6, <3>1 DEF Lease, Handled
  <2>3. /\ queue' \in [Tasks -> {"unused", "pending", "active", "completed", "archived"}]
        /\ pc' \in [Tasks -> HandlerSteps \cup {"idle"}]
    BY <1>6 DEF Lease, Goto
  <2> QED
    BY <1>6, <2>1, <2>2, <2>3 DEF Lease
<1>7. ASSUME NEW t \in Tasks, Interrupt(t) \/ Shutdown(t) \/ Acknowledge(t)
      PROVE  TypeOK'
  <2>1. faults' \in 0 .. MaxFaults
    BY <1>7, IngestionAssumption DEF Interrupt, Shutdown, Acknowledge
  <2>2. retried' \in [Tasks -> 0 .. MaxRetry]
    BY <1>7, IngestionAssumption DEF Interrupt, Shutdown, Acknowledge, RetryOrArchive
  <2>3. CASE Interrupt(t)
    BY <2>1, <2>2, <2>3 DEF Interrupt, RetryOrArchive, Leave, Goto
  <2>4. CASE Shutdown(t) \/ Acknowledge(t)
    BY <2>1, <2>2, <2>4 DEF Shutdown, Acknowledge, Leave, Goto
  <2> QED
    BY <1>7, <2>3, <2>4
<1>8. ASSUME NEW t \in Tasks, NEW o \in Outcomes,
             MarkProcessing(t, o) \/ MarkReady(t, o) \/ MarkFailed(t, o)
      PROVE  TypeOK'
  <2>1. CASE MarkProcessing(t, o)
    BY <1>8, <2>1, IngestionAssumption, SMTT(30)
       DEF MarkProcessing, RetryOrArchive, Leave, Goto, Stay
  <2>2. CASE MarkReady(t, o)
    BY <1>8, <2>2, IngestionAssumption, SMTT(30)
       DEF MarkReady, RetryOrArchive, Leave, Goto, Stay
  <2>3. CASE MarkFailed(t, o)
    BY <1>8, <2>3, IngestionAssumption, SMTT(30)
       DEF MarkFailed, RetryOrArchive, Leave, Goto, Stay
  <2> QED
    BY <1>8, <2>1, <2>2, <2>3
<1>9. ASSUME NEW t \in Tasks, NEW o \in Outcomes, Build(t, o) \/ PurgeIndex(t, o)
      PROVE  TypeOK'
  BY <1>9, IngestionAssumption DEF Build, PurgeIndex, Goto, Stay
<1>10. ASSUME NEW t \in Tasks, NEW o \in Outcomes, DeleteRows(t, o)
       PROVE  TypeOK'
  BY <1>10, IngestionAssumption DEF DeleteRows, Goto
<1>11. ASSUME NEW t \in Tasks, NEW o \in Outcomes, CommitRows(t, o)
       PROVE  TypeOK'
  BY <1>11, OwnGeneration, IngestionAssumption DEF CommitRows, Goto
<1>12. ASSUME NEW t \in Tasks, NEW o \in Outcomes, BumpVersion(t, o)
       PROVE  TypeOK'
  BY <1>12, IngestionAssumption, SMTT(30) DEF BumpVersion, RetryOrArchive, Leave, Goto, Stay
<1>13. ASSUME NEW t \in Tasks, NEW o \in Outcomes \cup {"rejected"}, BulkIndex(t, o)
       PROVE  TypeOK'
  BY <1>13, OwnGeneration, IngestionAssumption DEF BulkIndex, Goto, Stay
<1>14. CASE Refresh
  BY <1>14 DEF Refresh
<1> QED
  BY StepCases, <1>0, <1>1, <1>2, <1>3, <1>4, <1>5, <1>6, <1>7, <1>8, <1>9,
     <1>10, <1>11, <1>12, <1>13, <1>14, SMTT(30)

-----------------------------------------------------------------------------
(* How a step treats the variables of the tasks *)

\* What happens when nobody acts, or the index is refreshed.
Quiet ==
  UNCHANGED <<dbVars, sparse, missed, request, taskVars, faults, refused, overlapped>>

LEMMA ActorCases ==
  ASSUME [Next]_vars
  PROVE  \/ Quiet
         \/ \E r \in Requests : RequestNext(r)
         \/ \E t \in Tasks : TaskNext(t)
  BY DEF Next, Idle, Refresh, Quiet, vars, indexVars

\* A step of the API touches tasks only by queueing a new one.
LEMMA ApiFrame ==
  ASSUME NEW r \in Requests, RequestNext(r)
  PROVE  /\ UNCHANGED <<chunks, kbVersion, announced, sparse, missed, retried, attempt, pc, base>>
         /\ \/ UNCHANGED <<queue, target>>
            \/ \E t \in Tasks :
                 /\ queue[t] = "unused"
                 /\ request[r].at = "enqueue"
                 /\ queue' = [queue EXCEPT ![t] = "pending"]
                 /\ target' = [target EXCEPT ![t] = request[r].doc]
  BY DEF RequestNext, RequestStep, UploadDocument, MarkUploaded, StartReingest, Enqueue,
         MarkUnscheduled, AbandonRequest, dbVars, indexVars, taskVars

\* The handler of t starts, goes on, or ends and leaves its task to a retry,
\* to another worker, to the archive or completed.
Starts(t) ==
  /\ queue[t] = "pending"
  /\ queue' = [queue EXCEPT ![t] = "active"]
  /\ pc' = [pc EXCEPT ![t] = "mark"]
  /\ attempt' = [attempt EXCEPT ![t] = @ + 1]
  /\ UNCHANGED <<retried, faults>>

GoesOn(t) ==
  /\ pc[t] # "idle"
  /\ \E s \in HandlerSteps : pc' = [pc EXCEPT ![t] = s]
  /\ UNCHANGED <<queue, retried, attempt>>
  /\ faults' \in {faults, faults + 1}

Ends(t) ==
  /\ pc[t] # "idle"
  /\ pc' = [pc EXCEPT ![t] = "idle"]
  /\ UNCHANGED attempt
  /\ faults' \in {faults, faults + 1}
  /\ \/ /\ queue' = [queue EXCEPT ![t] = "pending"]
        /\ retried' = [retried EXCEPT ![t] = @ + 1]
     \/ /\ queue' = [queue EXCEPT ![t] = "pending"]
        /\ faults' = faults + 1
        /\ UNCHANGED retried
     \/ /\ queue' = [queue EXCEPT ![t] = "archived"]
        /\ UNCHANGED retried
     \/ /\ pc[t] = "ack"
        /\ queue' = [queue EXCEPT ![t] = "completed"]
        /\ UNCHANGED retried

\* A step of a task changes that task alone, and no request.
LEMMA TaskFrame ==
  ASSUME TypeOK, NEW t \in Tasks, TaskNext(t)
  PROVE  /\ UNCHANGED <<request, target>>
         /\ Starts(t) \/ GoesOn(t) \/ Ends(t)
<1> USE DEF Charge, Goto, Stay, Leave, RetryOrArchive, HandlerSteps, dbVars, indexVars,
            Starts, GoesOn, Ends
<1> DEFINE Framed == /\ UNCHANGED <<request, target>>
                     /\ Starts(t) \/ GoesOn(t) \/ Ends(t)
<1>1. CASE Lease(t)
  BY <1>1 DEF Lease
<1>2. CASE Interrupt(t) \/ Shutdown(t) \/ Acknowledge(t)
  BY <1>2 DEF Interrupt, Shutdown, Acknowledge
<1>3. ASSUME NEW o \in Outcomes,
             \/ MarkProcessing(t, o) \/ MarkReady(t, o) \/ MarkFailed(t, o)
             \/ BumpVersion(t, o)
      PROVE  Framed
  BY <1>3 DEF MarkProcessing, MarkReady, MarkFailed, BumpVersion
<1>4. ASSUME NEW o \in Outcomes,
             Build(t, o) \/ DeleteRows(t, o) \/ CommitRows(t, o) \/ PurgeIndex(t, o)
      PROVE  Framed
  BY <1>4 DEF Build, DeleteRows, CommitRows, PurgeIndex
<1>5. ASSUME NEW o \in Outcomes \cup {"rejected"}, BulkIndex(t, o)
      PROVE  Framed
  BY <1>5 DEF BulkIndex
<1> QED
  BY <1>1, <1>2, <1>3, <1>4, <1>5 DEF TaskNext, HandlerStep

LEMMA HandlersRunStep ==
  ASSUME IInv, [Next]_vars
  PROVE  HandlersRun'
<1> USE DEF IInv, TypeOK, HandlersRun
<1>1. CASE Quiet
  BY <1>1 DEF Quiet, taskVars
<1>2. ASSUME NEW r \in Requests, RequestNext(r)
      PROVE  HandlersRun'
  <2>1. \A t \in Tasks : pc'[t] # "idle" <=> queue'[t] = "active"
    BY <1>2, ApiFrame
  <2>2. \A t \in Tasks : queue'[t] # "unused" => target'[t] \in Docs
    BY <1>2, ApiFrame, ZenonT(40)
  <2>3. \A q \in Requests : request'[q].at \in {"enqueue", "fail"} => request'[q].doc \in Docs
    <3> DEFINE Named == \A q \in Requests :
                          request'[q].at \in {"enqueue", "fail"} => request'[q].doc \in Docs
    <3>1. ASSUME NEW o \in Outcomes, NEW d \in Docs, UploadDocument(r, d, o) \/ MarkUploaded(r, d, o)
          PROVE  Named
      BY <3>1 DEF UploadDocument, MarkUploaded, NextDocument
    <3>2. ASSUME NEW o \in Outcomes, Enqueue(r, o) \/ MarkUnscheduled(r, o)
          PROVE  Named
      BY <3>2 DEF Enqueue, MarkUnscheduled, NextDocument
    <3>3. ASSUME NEW S \in SUBSET Docs, StartReingest(r, S)
          PROVE  Named
      BY <3>3 DEF StartReingest
    <3>4. CASE AbandonRequest(r)
      <4>1. request' = [request EXCEPT ![r] = [at |-> "done", doc |-> NoDoc, todo |-> {}]]
        BY <3>4 DEF AbandonRequest, NextDocument
      <4> QED
        BY <4>1
    <3> QED
      BY <1>2, <3>1, <3>2, <3>3, <3>4 DEF RequestNext, RequestStep
  <2> QED
    BY <2>1, <2>2, <2>3
<1>3. ASSUME NEW t \in Tasks, TaskNext(t)
      PROVE  HandlersRun'
  <2>1. CASE Starts(t)
    BY <1>3, <2>1, TaskFrame DEF Starts
  <2>2. CASE GoesOn(t)
    BY <1>3, <2>2, TaskFrame DEF GoesOn, HandlerSteps
  <2>3. CASE Ends(t)
    BY <1>3, <2>3, TaskFrame DEF Ends
  <2> QED
    BY <1>3, <2>1, <2>2, <2>3, TaskFrame
<1> QED
  BY <1>1, <1>2, <1>3, ActorCases

LEMMA AttemptsStep ==
  ASSUME IInv, [Next]_vars
  PROVE  AttemptsAreAccounted'
<1> USE DEF IInv, TypeOK, HandlersRun, AttemptsAreAccounted
<1>1. CASE Quiet
  BY <1>1 DEF Quiet, taskVars
<1>2. ASSUME NEW r \in Requests, RequestNext(r)
      PROVE  AttemptsAreAccounted'
  <2>1. faults' \in {faults, faults + 1}
    BY <1>2 DEF RequestNext, RequestStep, UploadDocument, StartReingest, MarkUploaded,
                Enqueue, MarkUnscheduled, AbandonRequest, Charge
  <2> QED
    BY <1>2, <2>1, ApiFrame
<1>3. ASSUME NEW t \in Tasks, TaskNext(t)
      PROVE  AttemptsAreAccounted'
  <2>1. CASE Starts(t)
    BY <1>3, <2>1 DEF Starts
  <2>2. CASE GoesOn(t)
    BY <1>3, <2>2 DEF GoesOn
  <2>3. CASE Ends(t)
    BY <1>3, <2>3 DEF Ends
  <2> QED
    BY <1>3, <2>1, <2>2, <2>3, TaskFrame
<1> QED
  BY <1>1, <1>2, <1>3, ActorCases

-----------------------------------------------------------------------------
(* How a step treats the content of the knowledge base *)

\* Only a commit installs a generation, the handler's own.
Commits(t) ==
  /\ pc[t] = "commit"
  /\ chunks' = [chunks EXCEPT ![target[t]] = <<t, attempt[t]>>]
  /\ UNCHANGED <<announced, kbVersion, status>>
  /\ pc'[t] \notin {"bump", "ack"}

\* Only an increment announces, and it announces everything.
Bumps(t) ==
  /\ pc[t] = "bump"
  /\ kbVersion' = kbVersion + 1
  /\ announced' = chunks
  /\ UNCHANGED <<chunks, status>>

\* Any other step leaves content and announcements alone, and reaches "purge"
\* to "ack" only from a step behind the commit, "ack" only from "ack".
Moves(t) ==
  /\ UNCHANGED <<chunks, announced, kbVersion>>
  /\ pc'[t] \in {"purge", "bulk", "ready", "bump"} =>
       pc[t] \in {"purge", "bulk", "ready", "bump"}
  /\ pc'[t] # "ack"

LEMMA ContentFrame ==
  ASSUME TypeOK, NEW t \in Tasks, TaskNext(t)
  PROVE  Commits(t) \/ Bumps(t) \/ Moves(t)
<1> USE DEF TypeOK, Happened, Succeeded, Charge, Goto, Stay, Leave, RetryOrArchive, dbVars, indexVars,
            HandlerSteps, Outcomes, Commits, Bumps, Moves
<1> DEFINE Framed == Commits(t) \/ Bumps(t) \/ Moves(t)
<1>1. CASE Lease(t)
  BY <1>1 DEF Lease
<1>2. CASE Interrupt(t) \/ Shutdown(t) \/ Acknowledge(t)
  BY <1>2 DEF Interrupt, Shutdown, Acknowledge
<1>3. ASSUME NEW o \in Outcomes, MarkProcessing(t, o) \/ MarkReady(t, o) \/ MarkFailed(t, o)
      PROVE  Framed
  BY <1>3 DEF MarkProcessing, MarkReady, MarkFailed
<1>4. ASSUME NEW o \in Outcomes, BumpVersion(t, o)
      PROVE  Framed
  BY <1>4 DEF BumpVersion
<1>5. ASSUME NEW o \in Outcomes, Build(t, o) \/ DeleteRows(t, o) \/ PurgeIndex(t, o)
      PROVE  Framed
  BY <1>5 DEF Build, DeleteRows, PurgeIndex
<1>6. ASSUME NEW o \in Outcomes, CommitRows(t, o)
      PROVE  Framed
  BY <1>6 DEF CommitRows
<1>7. ASSUME NEW o \in Outcomes \cup {"rejected"}, BulkIndex(t, o)
      PROVE  Framed
  BY <1>7 DEF BulkIndex
<1> QED
  BY <1>1, <1>2, <1>3, <1>4, <1>5, <1>6, <1>7 DEF TaskNext, HandlerStep

\* Once a document has chunks it keeps some: no step leaves it without.
LEMMA ChunksStay ==
  ASSUME IInv, [Next]_vars, NEW d \in Docs, chunks[d] # NoChunks
  PROVE  chunks'[d] # NoChunks
<1>1. CASE Quiet
  BY <1>1 DEF Quiet, dbVars, indexVars
<1>2. ASSUME NEW r \in Requests, RequestNext(r)
      PROVE  chunks'[d] # NoChunks
  BY <1>2, ApiFrame
<1>3. ASSUME NEW t \in Tasks, TaskNext(t)
      PROVE  chunks'[d] # NoChunks
  <2>1. CASE Commits(t)
    <3>1. <<t, attempt[t]>> \in Generations
      BY <2>1, OwnGeneration DEF Commits, IInv, HandlersRun
    <3> QED
      BY <2>1, <3>1, IngestionAssumption DEF Commits, IInv, TypeOK
  <2> QED
    BY <1>3, <2>1, ContentFrame DEF Bumps, Moves, IInv
<1> QED
  BY <1>1, <1>2, <1>3, ActorCases

LEMMA CommittedStep ==
  ASSUME IInv, [Next]_vars
  PROVE  CommittedHasChunks'
<1> SUFFICES ASSUME NEW u \in Tasks, pc'[u] \in {"purge", "bulk", "ready", "bump", "ack"}
             PROVE  chunks'[target'[u]] # NoChunks
  BY DEF CommittedHasChunks
<1>1. CASE Quiet
  BY <1>1 DEF Quiet, dbVars, indexVars, taskVars, IInv, CommittedHasChunks
<1>2. ASSUME NEW r \in Requests, RequestNext(r)
      PROVE  chunks'[target'[u]] # NoChunks
  <2>1. pc[u] = pc'[u] /\ queue[u] = "active"
    BY <1>2, ApiFrame DEF IInv, HandlersRun
  <2>2. target'[u] = target[u]
    BY <1>2, <2>1, ApiFrame DEF IInv, TypeOK
  <2> QED
    BY <1>2, <2>1, <2>2, ApiFrame DEF IInv, CommittedHasChunks
<1>3. ASSUME NEW t \in Tasks, TaskNext(t)
      PROVE  chunks'[target'[u]] # NoChunks
  <2>1. TypeOK /\ target' = target
    BY <1>3, TaskFrame DEF IInv
  <2>2. CASE pc[u] \in {"purge", "bulk", "ready", "bump", "ack"}
    <3>1. target[u] \in Docs /\ chunks[target[u]] # NoChunks
      BY <2>2 DEF IInv, HandlersRun, CommittedHasChunks
    <3> QED
      BY <2>1, <3>1, ChunksStay
  <2>3. CASE pc[u] \notin {"purge", "bulk", "ready", "bump", "ack"}
    <3>1. u = t
      BY <1>3, <2>1, <2>3, TaskFrame DEF Starts, GoesOn, Ends, TypeOK
    <3>2. Commits(t)
      BY <1>3, <2>1, <2>3, <3>1, ContentFrame DEF Bumps, Moves
    <3>3. <<t, attempt[t]>> \in Generations /\ target[t] \in Docs
      BY <3>2, OwnGeneration DEF Commits, IInv, HandlersRun
    <3> QED
      BY <2>1, <3>1, <3>2, <3>3, IngestionAssumption DEF Commits, TypeOK
  <2> QED
    BY <2>2, <2>3
<1> QED
  BY <1>1, <1>2, <1>3, ActorCases

-----------------------------------------------------------------------------
(* Who writes documents.status *)

\* Only the last update of a handler makes a document ready.
LEMMA ReadyWriter ==
  ASSUME IInv, [Next]_vars, NEW d \in Docs, status'[d] = "ready", status[d] # "ready"
  PROVE  \E t \in Tasks : pc[t] = "ready" /\ target[t] = d
<1> USE DEF IInv, TypeOK, SetStatus, dbVars, indexVars
<1>1. CASE Quiet
  BY <1>1 DEF Quiet
<1>2. ASSUME NEW r \in Requests, RequestNext(r)
      PROVE  FALSE
  BY <1>2, ZenonT(40) DEF RequestNext, RequestStep, UploadDocument, StartReingest, MarkUploaded,
              Enqueue, MarkUnscheduled, AbandonRequest
<1>3. ASSUME NEW t \in Tasks, TaskNext(t)
      PROVE  pc[t] = "ready" /\ target[t] = d
  BY <1>3 DEF TaskNext, HandlerStep, Lease, Interrupt, Shutdown, Acknowledge, MarkProcessing,
              Build, DeleteRows, CommitRows, PurgeIndex, BulkIndex, MarkFailed, MarkReady,
              BumpVersion
<1> QED
  BY <1>1, <1>2, <1>3, ActorCases

LEMMA ReadyStep ==
  ASSUME IInv, [Next]_vars
  PROVE  ReadyHasChunks'
<1> SUFFICES ASSUME NEW d \in Docs, status'[d] = "ready"
             PROVE  chunks'[d] # NoChunks
  BY DEF ReadyHasChunks
<1>1. CASE status[d] = "ready"
  <2>1. chunks[d] # NoChunks
    BY <1>1 DEF IInv, ReadyHasChunks
  <2> QED
    BY <2>1, ChunksStay
<1>2. CASE status[d] # "ready"
  <2>1. PICK t \in Tasks : pc[t] = "ready" /\ target[t] = d
    BY <1>2, ReadyWriter
  <2>2. chunks[d] # NoChunks
    BY <2>1 DEF IInv, CommittedHasChunks
  <2> QED
    BY <2>2, ChunksStay
<1> QED
  BY <1>1, <1>2

LEMMA AcknowledgedStep ==
  ASSUME IInv, [Next]_vars
  PROVE  AcknowledgedIsAnnounced'
<1> SUFFICES ASSUME NEW u \in Tasks, pc'[u] = "ack",
                    NEW d \in Docs, chunks'[d] # NoChunks, chunks'[d][1] = u
             PROVE  announced'[d] = chunks'[d]
  BY DEF AcknowledgedIsAnnounced
<1> USE DEF IInv, AcknowledgedIsAnnounced
<1>1. CASE Quiet
  BY <1>1 DEF Quiet, dbVars, indexVars, taskVars
<1>2. ASSUME NEW r \in Requests, RequestNext(r)
      PROVE  announced'[d] = chunks'[d]
  BY <1>2, ApiFrame
<1>3. ASSUME NEW t \in Tasks, TaskNext(t)
      PROVE  announced'[d] = chunks'[d]
  <2>1. CASE Bumps(t)
    BY <2>1 DEF Bumps
  <2>2. CASE Moves(t)
    BY <1>3, <2>2, TaskFrame DEF Moves, TypeOK, Starts, GoesOn, Ends
  <2>3. CASE Commits(t)
    <3>1. u # t /\ pc[u] = "ack"
      BY <1>3, <2>3, TaskFrame DEF Commits, TypeOK, Starts, GoesOn, Ends
    <3>2. chunks'[d] = chunks[d]
      BY <2>3, <3>1 DEF Commits, TypeOK
    <3> QED
      BY <2>3, <3>1, <3>2 DEF Commits
  <2> QED
    BY <1>3, <2>1, <2>2, <2>3, ContentFrame
<1> QED
  BY <1>1, <1>2, <1>3, ActorCases

LEMMA UnannouncedStep ==
  ASSUME IInv, [Next]_vars
  PROVE  UnannouncedIsUnfinished'
<1> SUFFICES ASSUME NEW d \in Docs, NEW u \in Tasks, chunks'[d] # NoChunks,
                    chunks'[d] # announced'[d], chunks'[d][1] = u
             PROVE  queue'[u] # "completed"
  BY DEF UnannouncedIsUnfinished
<1> USE DEF IInv, TypeOK, UnannouncedIsUnfinished
<1>1. CASE Quiet
  BY <1>1 DEF Quiet, dbVars, indexVars, taskVars
<1>2. ASSUME NEW r \in Requests, RequestNext(r)
      PROVE  queue'[u] # "completed"
  BY <1>2, ApiFrame
<1>3. ASSUME NEW t \in Tasks, TaskNext(t)
      PROVE  queue'[u] # "completed"
  <2>1. CASE Bumps(t)
    BY <2>1 DEF Bumps
  <2>2. CASE Moves(t)
    <3>1. queue[u] # "completed"
      BY <2>2 DEF Moves
    <3>2. pc[u] # "ack"
      BY <2>2 DEF Moves, AcknowledgedIsAnnounced
    <3> QED
      BY <1>3, <3>1, <3>2, TaskFrame DEF Starts, GoesOn, Ends
  <2>3. CASE Commits(t)
    <3>1. queue'[t] # "completed"
      BY <1>3, <2>3, TaskFrame DEF Commits, Starts, GoesOn, Ends, HandlersRun
    <3>2. CASE u # t
      <4>1. chunks'[d] = chunks[d] /\ announced'[d] = announced[d]
        BY <2>3, <3>2 DEF Commits
      <4>2. queue'[u] = queue[u]
        BY <1>3, <3>2, TaskFrame DEF Starts, GoesOn, Ends
      <4> QED
        BY <4>1, <4>2
    <3> QED
      BY <3>1, <3>2
  <2> QED
    BY <1>3, <2>1, <2>2, <2>3, ContentFrame
<1> QED
  BY <1>1, <1>2, <1>3, ActorCases

-----------------------------------------------------------------------------
(* Unfinished documents are owed a run *)

Unfinished(d) == status[d] = "processing" \/ (status[d] = "failed" /\ d \notin refused)

\* A step of the API never leaves a document unfinished that was not.
LEMMA ApiUnfinished ==
  ASSUME IInv, NEW r \in Requests, RequestNext(r), NEW d \in Docs, Unfinished(d)'
  PROVE  Unfinished(d)
  BY ZenonT(40) DEF RequestNext, RequestStep, UploadDocument, StartReingest, MarkUploaded, Enqueue,
         MarkUnscheduled, AbandonRequest, SetStatus, Happened, dbVars, indexVars, IInv, TypeOK,
         Unfinished

\* A debt of a task lasts until the document is ready.
LEMMA DebtLasts ==
  ASSUME IInv, NEW t \in Tasks, TaskNext(t), NEW u \in Tasks, NEW d \in Docs, Owes(u, d)
  PROVE  Owes(u, d)' \/ status'[d] = "ready"
<1> USE DEF IInv, TypeOK, HandlersRun, Owes, HandlerSteps
<1>1. CASE u # t
  BY <1>1, TaskFrame DEF Starts, GoesOn, Ends
<1>2. CASE u = t /\ (Starts(t) \/ Ends(t))
  <2>1. pc[t] # "ack"
    BY <1>2
  <2> QED
    BY <1>2, <2>1, TaskFrame DEF Starts, Ends
<1>3. CASE u = t /\ GoesOn(t)
  <2>1. CASE pc'[t] \notin {"bump", "ack"}
    BY <1>3, <2>1, TaskFrame DEF GoesOn
  <2>2. CASE pc'[t] \in {"bump", "ack"}
    <3>1. pc[t] \in HandlerSteps \ {"bump", "ack"} /\ target[t] = d
      BY <1>3 DEF GoesOn
    <3>2. status'[d] = "ready"
      BY <2>2, <3>1
         DEF TaskNext, HandlerStep, Lease, Interrupt, Shutdown, Acknowledge, MarkProcessing,
             Build, DeleteRows, CommitRows, PurgeIndex, BulkIndex, MarkFailed, MarkReady,
             BumpVersion, Goto, Leave, RetryOrArchive, SetStatus, Happened, Succeeded
    <3> QED
      BY <3>2
  <2> QED
    BY <2>1, <2>2
<1> QED
  BY <1>1, <1>2, <1>3, TaskFrame

\* The task that leaves a document unfinished owes it a run.
LEMMA DebtArises ==
  ASSUME IInv, NEW t \in Tasks, TaskNext(t), NEW d \in Docs, Unfinished(d)', ~Unfinished(d)
  PROVE  Owes(t, d)'
<1> USE DEF IInv, TypeOK, Unfinished, SetStatus, dbVars, indexVars
<1>1. \E o \in Outcomes : MarkProcessing(t, o) \/ MarkFailed(t, o)
  BY DEF TaskNext, HandlerStep, Lease, Interrupt, Shutdown, Acknowledge, Build, DeleteRows,
         CommitRows, PurgeIndex, BulkIndex, MarkReady, BumpVersion
<1>2. target[t] = d
  BY <1>1 DEF MarkProcessing, MarkFailed
<1>3. pc'[t] = "build" \/ queue'[t] \in {"pending", "archived"}
  BY <1>1 DEF MarkProcessing, MarkFailed, RetryOrArchive, Goto
<1> QED
  BY <1>2, <1>3, TaskFrame DEF Owes, HandlerSteps

LEMMA UnfinishedStep ==
  ASSUME IInv, [Next]_vars
  PROVE  UnfinishedIsOwed'
<1> SUFFICES ASSUME NEW d \in Docs, Unfinished(d)'
             PROVE  \E t \in Tasks : Owes(t, d)'
  BY DEF UnfinishedIsOwed, Unfinished
<1>1. Unfinished(d) => \E u \in Tasks : Owes(u, d)
  BY DEF IInv, UnfinishedIsOwed, Unfinished
<1>2. CASE Quiet
  BY <1>1, <1>2 DEF Quiet, dbVars, indexVars, taskVars, Unfinished, Owes
<1>3. ASSUME NEW r \in Requests, RequestNext(r)
      PROVE  \E t \in Tasks : Owes(t, d)'
  <2>1. PICK u \in Tasks : Owes(u, d)
    BY <1>1, <1>3, ApiUnfinished
  <2>2. Owes(u, d)'
    BY <1>3, <2>1, ApiFrame DEF Owes, IInv, TypeOK, HandlersRun, HandlerSteps
  <2> QED
    BY <2>2
<1>4. ASSUME NEW t \in Tasks, TaskNext(t)
      PROVE  \E u \in Tasks : Owes(u, d)'
  <2>1. CASE ~Unfinished(d)
    BY <1>4, <2>1, DebtArises
  <2>2. CASE Unfinished(d)
    <3>1. PICK u \in Tasks : Owes(u, d)
      BY <1>1, <2>2
    <3>2. status'[d] # "ready"
      BY DEF Unfinished
    <3> QED
      BY <1>4, <3>1, <3>2, DebtLasts
  <2> QED
    BY <2>1, <2>2
<1> QED
  BY <1>2, <1>3, <1>4, ActorCases

-----------------------------------------------------------------------------
(* One handler of a document at a time *)

\* A step of the API shows nothing, overlaps nothing and starts no handler.
LEMMA ApiKeepsHandlers ==
  ASSUME IInv, NEW r \in Requests, RequestNext(r)
  PROVE  /\ Handled' = Handled
         /\ overlapped' = overlapped
         /\ \A u \in Handled : target'[u] = target[u]
         /\ \A d \in Docs : status'[d] = "ready" => status[d] = "ready"
<1>1. Handled' = Handled /\ \A u \in Handled : target'[u] = target[u]
  BY ApiFrame DEF Handled, IInv, TypeOK
<1>2. overlapped' = overlapped /\ \A d \in Docs : status'[d] = "ready" => status[d] = "ready"
  BY ZenonT(40) DEF RequestNext, RequestStep, UploadDocument, MarkUploaded, StartReingest, Enqueue,
         MarkUnscheduled, AbandonRequest, SetStatus, dbVars, indexVars, IInv, TypeOK
<1> QED
  BY <1>1, <1>2

\* A step of a task changes no other document.
LEMMA OwnDocument ==
  ASSUME IInv, NEW t \in Tasks, TaskNext(t), NEW d \in Docs, d # target[t]
  PROVE  /\ status'[d] = status[d] /\ chunks'[d] = chunks[d]
         /\ sparse'[d] = sparse[d] /\ missed'[d] = missed[d]
  BY DEF IInv, TypeOK, TaskNext, HandlerStep, Lease, Interrupt, Shutdown, Acknowledge,
         MarkProcessing, Build, DeleteRows, CommitRows, PurgeIndex, BulkIndex, MarkFailed,
         MarkReady, BumpVersion, SetStatus, dbVars, indexVars

\* Only the start of a handler can overlap a document, its own.
LEMMA OverlapGrows ==
  ASSUME NEW t \in Tasks, TaskNext(t)
  PROVE  /\ overlapped \subseteq overlapped'
         /\ ~Lease(t) => overlapped' = overlapped
  BY DEF TaskNext, HandlerStep, Lease, Interrupt, Shutdown, Acknowledge, MarkProcessing,
         Build, DeleteRows, CommitRows, PurgeIndex, BulkIndex, MarkFailed, MarkReady,
         BumpVersion

\* Another handler of a document that is not overlapped afterwards has been
\* there before, has another document, and does not notice the step.
LEMMA OtherHandler ==
  ASSUME IInv, NEW t \in Tasks, TaskNext(t), NEW u \in Tasks, u # t,
         queue'[u] = "active", target[u] \notin overlapped'
  PROVE  /\ u \in Handled /\ target[u] \in Docs /\ target[u] \notin overlapped
         /\ pc'[u] = pc[u] /\ attempt'[u] = attempt[u]
         /\ queue'[t] = "active" => target[u] # target[t]
         /\ /\ status'[target[u]] = status[target[u]]
            /\ chunks'[target[u]] = chunks[target[u]]
            /\ sparse'[target[u]] = sparse[target[u]]
            /\ missed'[target[u]] = missed[target[u]]
<1>1. u \in Handled /\ pc'[u] = pc[u] /\ attempt'[u] = attempt[u]
  BY TaskFrame DEF Handled, Starts, GoesOn, Ends, IInv, TypeOK
<1>2. target[u] \in Docs /\ target[u] \notin overlapped
  BY <1>1, OverlapGrows DEF Handled, IInv, HandlersRun
<1>3. target[u] # target[t]
  <2>1. CASE Lease(t)
    BY <1>1, <2>1 DEF Lease
  <2>2. CASE t \in Handled
    BY <1>1, <1>2, <2>2 DEF IInv, OneHandler
  <2>3. Lease(t) \/ pc[t] # "idle"
    BY DEF TaskNext, HandlerStep, Interrupt, Shutdown, Acknowledge, MarkProcessing, Build,
           DeleteRows, CommitRows, PurgeIndex, BulkIndex, MarkFailed, MarkReady, BumpVersion
  <2> QED
    BY <2>1, <2>2, <2>3 DEF Handled, IInv, HandlersRun
<1> QED
  BY <1>1, <1>2, <1>3, OwnDocument

LEMMA OneHandlerStep ==
  ASSUME IInv, [Next]_vars
  PROVE  OneHandler'
<1>1. CASE Quiet
  BY <1>1 DEF Quiet, taskVars, IInv, OneHandler, Handled
<1>2. ASSUME NEW r \in Requests, RequestNext(r)
      PROVE  OneHandler'
  BY <1>2, ApiKeepsHandlers DEF IInv, OneHandler
<1>3. ASSUME NEW t \in Tasks, TaskNext(t)
      PROVE  OneHandler'
  <2> SUFFICES ASSUME NEW u \in Tasks, NEW v \in Tasks, u # v,
                      queue'[u] = "active", queue'[v] = "active",
                      target[u] = target[v], target[u] \notin overlapped'
               PROVE  FALSE
    BY <1>3, TaskFrame DEF OneHandler, Handled, IInv
  <2>1. CASE u = t \/ v = t
    BY <1>3, <2>1, OtherHandler
  <2>2. CASE u # t /\ v # t
    <3>1. u \in Handled /\ v \in Handled /\ target[u] \notin overlapped
      BY <1>3, <2>2, OtherHandler
    <3> QED
      BY <3>1 DEF IInv, OneHandler
  <2> QED
    BY <2>1, <2>2
<1> QED
  BY <1>1, <1>2, <1>3, ActorCases

LEMMA HiddenStep ==
  ASSUME IInv, [Next]_vars
  PROVE  HiddenWhileHandled'
<1>1. CASE Quiet
  BY <1>1 DEF Quiet, dbVars, indexVars, taskVars, IInv, HiddenWhileHandled, Handled
<1>2. ASSUME NEW r \in Requests, RequestNext(r)
      PROVE  HiddenWhileHandled'
  <2> SUFFICES ASSUME NEW u \in Handled', pc'[u] \notin {"mark", "bump", "ack"},
                      target'[u] \notin overlapped', status'[target'[u]] = "ready"
               PROVE  FALSE
    BY DEF HiddenWhileHandled
  <2>1. u \in Handled /\ target'[u] = target[u] /\ overlapped' = overlapped
    BY <1>2, ApiKeepsHandlers
  <2>2. target[u] \in Docs
    BY <2>1 DEF Handled, IInv, HandlersRun
  <2>3. status[target[u]] = "ready" /\ pc'[u] = pc[u]
    BY <1>2, <2>1, <2>2, ApiKeepsHandlers, ApiFrame
  <2> QED
    BY <2>1, <2>3 DEF IInv, HiddenWhileHandled
<1>3. ASSUME NEW t \in Tasks, TaskNext(t)
      PROVE  HiddenWhileHandled'
  <2> SUFFICES ASSUME NEW u \in Tasks, queue'[u] = "active",
                      pc'[u] \notin {"mark", "bump", "ack"}, target[u] \notin overlapped'
               PROVE  status'[target[u]] # "ready"
    BY <1>3, TaskFrame DEF HiddenWhileHandled, Handled, IInv
  <2>1. CASE u # t
    BY <1>3, <2>1, OtherHandler DEF IInv, HiddenWhileHandled
  <2>2. CASE u = t
    <3>1. ~Lease(t)
      BY <2>2 DEF Lease, Goto, IInv, TypeOK
    <3>2. pc[t] # "idle" /\ pc'[t] # "idle"
      BY <1>3, <2>2, <3>1, TaskFrame, SMTT(30)
         DEF TaskNext, HandlerStep, Interrupt, Shutdown, Acknowledge, MarkProcessing, Build,
             DeleteRows, CommitRows, PurgeIndex, BulkIndex, MarkFailed, MarkReady,
             BumpVersion, Starts, GoesOn, Ends, HandlerSteps, IInv, TypeOK, HandlersRun
    <3>3. target[t] \in Docs /\ t \in Handled /\ target[t] \notin overlapped
      BY <1>3, <2>2, <3>2, OverlapGrows DEF Handled, IInv, HandlersRun
    <3>4. CASE \E o \in Outcomes : MarkProcessing(t, o)
      BY <2>2, <3>2, <3>3, <3>4
         DEF MarkProcessing, RetryOrArchive, Leave, Goto, SetStatus, Happened, Succeeded,
             IInv, TypeOK
    <3>5. CASE ~ \E o \in Outcomes : MarkProcessing(t, o)
      <4>1. pc[t] \notin {"mark", "bump", "ack"} /\ status'[target[t]] = status[target[t]]
        BY <1>3, <2>2, <3>1, <3>2, <3>3, <3>5
           DEF TaskNext, HandlerStep, Interrupt, Shutdown, Acknowledge, Build, DeleteRows,
               CommitRows, PurgeIndex, BulkIndex, MarkFailed, MarkReady, BumpVersion,
               RetryOrArchive, Leave, Goto, dbVars, indexVars, IInv, TypeOK
      <4> QED
        BY <2>2, <3>3, <4>1 DEF IInv, HiddenWhileHandled
    <3> QED
      BY <3>4, <3>5
  <2> QED
    BY <2>1, <2>2
<1> QED
  BY <1>1, <1>2, <1>3, ActorCases

LEMMA IndexUnusedStep ==
  ASSUME IInv, [Next]_vars
  PROVE  IndexUnused'
<1> SUFFICES ASSUME ~SparseEnabled
             PROVE  /\ \A u \in Tasks : pc'[u] \notin {"purge", "bulk"}
                    /\ \A d \in Docs : sparse'[d] = {}
  BY DEF IndexUnused
<1> USE DEF IInv, TypeOK, IndexUnused
<1>1. CASE Quiet
  BY <1>1 DEF Quiet, taskVars
<1>2. ASSUME NEW r \in Requests, RequestNext(r)
      PROVE  UNCHANGED <<pc, sparse>>
  BY <1>2, ApiFrame
<1>3. ASSUME NEW t \in Tasks, TaskNext(t)
      PROVE  /\ \A u \in Tasks : pc'[u] \notin {"purge", "bulk"}
             /\ UNCHANGED sparse
  BY <1>3, SMTT(30)
     DEF TaskNext, HandlerStep, Lease, Interrupt, Shutdown, Acknowledge, MarkProcessing,
         Build, DeleteRows, CommitRows, PurgeIndex, BulkIndex, MarkFailed, MarkReady,
         BumpVersion, RetryOrArchive, Leave, Goto, indexVars
<1> QED
  BY <1>1, <1>2, <1>3, ActorCases

LEMMA IndexStep ==
  ASSUME IInv, [Next]_vars
  PROVE  IndexFollowsChunks'
<1> DEFINE Follows(step, c, s, m, g) ==
      /\ step \in {"purge", "bulk", "ready"} => c = g
      /\ step = "bulk" => s \subseteq m
      /\ step = "ready" => s \subseteq {c} \cup m
<1>0. \A u \in Handled :
        target[u] \notin overlapped =>
          Follows(pc[u], chunks[target[u]], sparse[target[u]], missed[target[u]],
                  <<u, attempt[u]>>)
  BY DEF IInv, IndexFollowsChunks
<1>1. CASE Quiet
  BY <1>1 DEF Quiet, dbVars, indexVars, taskVars, IInv, IndexFollowsChunks, Handled
<1>2. ASSUME NEW r \in Requests, RequestNext(r)
      PROVE  IndexFollowsChunks'
  BY <1>2, ApiKeepsHandlers, ApiFrame, SMTT(30) DEF IInv, IndexFollowsChunks
<1>3. ASSUME NEW t \in Tasks, TaskNext(t)
      PROVE  IndexFollowsChunks'
  <2> SUFFICES ASSUME NEW u \in Tasks, queue'[u] = "active", target[u] \notin overlapped'
               PROVE  Follows(pc'[u], chunks'[target[u]], sparse'[target[u]],
                              missed'[target[u]], <<u, attempt'[u]>>)
    BY <1>3, TaskFrame DEF IndexFollowsChunks, Handled, IInv
  <2>1. CASE u # t
    <3>1. /\ u \in Handled /\ target[u] \notin overlapped
          /\ pc'[u] = pc[u] /\ attempt'[u] = attempt[u]
          /\ chunks'[target[u]] = chunks[target[u]]
          /\ sparse'[target[u]] = sparse[target[u]]
          /\ missed'[target[u]] = missed[target[u]]
      BY <1>3, <2>1, OtherHandler
    <3>2. Follows(pc[u], chunks[target[u]], sparse[target[u]], missed[target[u]],
                  <<u, attempt[u]>>)
      BY <1>0, <3>1
    <3> QED
      BY <3>1, <3>2
  <2>2. CASE u = t /\ pc'[t] \in {"purge", "bulk", "ready"}
    <3>1. ~Lease(t) /\ pc[t] # "idle" /\ t \in Handled /\ attempt'[t] = attempt[t]
      BY <1>3, <2>2, TaskFrame
         DEF Lease, Goto, Starts, GoesOn, Ends, Handled, IInv, TypeOK, HandlersRun
    <3>2. target[t] \in Docs /\ target[t] \notin overlapped
      BY <1>3, <2>2, <3>1, OverlapGrows DEF Handled, IInv, HandlersRun
    <3>3. CASE \E o \in Outcomes : CommitRows(t, o)
      <4>1. chunks'[target[t]] = <<t, attempt[t]>> /\ pc'[t] # "bulk" /\ UNCHANGED sparse
        BY <2>2, <3>2, <3>3 DEF CommitRows, Goto, Happened, Succeeded, indexVars, IInv, TypeOK
      <4>2. pc'[t] = "ready" => sparse[target[t]] = {}
        BY <3>2, <3>3 DEF CommitRows, Goto, IInv, TypeOK, IndexUnused
      <4> QED
        BY <2>2, <3>1, <4>1, <4>2
    <3>4. CASE \E o \in Outcomes : PurgeIndex(t, o)
      <4>1. /\ pc[t] = "purge" /\ pc'[t] = "bulk" /\ UNCHANGED chunks
            /\ sparse'[target[t]] = missed'[target[t]]
        <5>1. PICK o \in Outcomes : PurgeIndex(t, o)
          BY <3>4
        <5>2. pc[t] = "purge" /\ pc' = [pc EXCEPT ![t] = IF o = "ok" THEN "bulk" ELSE "fail"]
          BY <5>1 DEF PurgeIndex, Goto, Succeeded
        <5>3. o = "ok" /\ pc'[t] = "bulk"
          BY <2>2, <5>2 DEF IInv, TypeOK
        <5> DEFINE left == sparse[target[t]] \cap unrefreshed
        <5>4. /\ sparse' = [sparse EXCEPT ![target[t]] = left]
              /\ missed' = [missed EXCEPT ![target[t]] = left]
              /\ UNCHANGED chunks
          BY <5>1, <5>3 DEF PurgeIndex, Happened, dbVars
        <5> HIDE DEF left
        <5> QED
          BY <3>2, <5>2, <5>3, <5>4 DEF IInv, TypeOK
      <4> QED
        BY <1>0, <2>2, <3>1, <3>2, <4>1
    <3>5. CASE \E o \in Outcomes \cup {"rejected"} : BulkIndex(t, o)
      <4>1. /\ pc[t] = "bulk" /\ pc'[t] = "ready" /\ UNCHANGED <<chunks, missed>>
            /\ sparse'[target[t]] \subseteq sparse[target[t]] \cup {<<t, attempt[t]>>}
        BY <2>2, <3>2, <3>5 DEF BulkIndex, Goto, dbVars, indexVars, IInv, TypeOK
      <4> QED
        BY <1>0, <2>2, <3>1, <3>2, <4>1
    <3>6. CASE /\ ~ \E o \in Outcomes : CommitRows(t, o) \/ PurgeIndex(t, o)
               /\ ~ \E o \in Outcomes \cup {"rejected"} : BulkIndex(t, o)
      BY <1>3, <2>2, <3>1, <3>6
         DEF TaskNext, HandlerStep, Interrupt, Shutdown, Acknowledge, MarkProcessing, Build,
             DeleteRows, MarkFailed, MarkReady, BumpVersion, RetryOrArchive, Leave, Goto,
             IInv, TypeOK
    <3> QED
      BY <3>3, <3>4, <3>5, <3>6
  <2> QED
    BY <2>1, <2>2
<1> QED
  BY <1>1, <1>2, <1>3, ActorCases

\* What readers may find in the index and in the database is replaced only by a
\* handler between its commit and MarkReady.
LEMMA ReplacedByHandler ==
  ASSUME IInv, [Next]_vars, NEW d \in Docs,
         chunks'[d] # chunks[d] \/ sparse'[d] # sparse[d] \/ missed'[d] # missed[d]
  PROVE  \E t \in Handled : target[t] = d /\ pc[t] \in {"commit", "purge", "bulk"}
<1>1. CASE Quiet
  BY <1>1 DEF Quiet, dbVars, indexVars
<1>2. ASSUME NEW r \in Requests, RequestNext(r)
      PROVE  FALSE
  BY <1>2, ApiFrame
<1>3. ASSUME NEW t \in Tasks, TaskNext(t)
      PROVE  target[t] = d /\ t \in Handled /\ pc[t] \in {"commit", "purge", "bulk"}
  <2>1. target[t] = d
    BY <1>3, OwnDocument
  <2>2. pc[t] \in {"commit", "purge", "bulk"}
    BY <1>3
       DEF TaskNext, HandlerStep, Lease, Interrupt, Shutdown, Acknowledge, MarkProcessing,
           Build, DeleteRows, CommitRows, PurgeIndex, BulkIndex, MarkFailed, MarkReady,
           BumpVersion, dbVars, indexVars
  <2> QED
    BY <2>1, <2>2 DEF Handled, IInv, HandlersRun
<1> QED
  BY <1>1, <1>2, <1>3, ActorCases

\* A document without overlap is hidden when that happens.
LEMMA HiddenWhenReplaced ==
  ASSUME IInv, [Next]_vars, NEW d \in Docs \ overlapped,
         chunks'[d] # chunks[d] \/ sparse'[d] # sparse[d] \/ missed'[d] # missed[d]
  PROVE  status[d] # "ready" /\ status'[d] # "ready"
<1>1. PICK t \in Handled : target[t] = d /\ pc[t] \in {"commit", "purge", "bulk"}
  BY ReplacedByHandler
<1>2. status[d] # "ready"
  BY <1>1 DEF IInv, HiddenWhileHandled
<1>3. ASSUME status'[d] = "ready" PROVE FALSE
  <2>1. PICK u \in Tasks : pc[u] = "ready" /\ target[u] = d
    BY <1>2, <1>3, ReadyWriter
  <2>2. u \in Handled /\ u # t
    BY <1>1, <2>1 DEF Handled, IInv, HandlersRun
  <2> QED
    BY <1>1, <2>1, <2>2 DEF IInv, OneHandler
<1> QED
  BY <1>2, <1>3

LEMMA SparseStep ==
  ASSUME IInv, [Next]_vars
  PROVE  SparseIsCurrent'
<1> SUFFICES ASSUME NEW d \in Docs \ overlapped', status'[d] = "ready"
             PROVE  sparse'[d] \subseteq {chunks'[d]} \cup missed'[d]
  BY DEF SparseIsCurrent
<1>1. d \notin overlapped
  <2>1. CASE Quiet
    BY <2>1 DEF Quiet
  <2>2. ASSUME NEW r \in Requests, RequestNext(r) PROVE d \notin overlapped
    BY <2>2, ApiKeepsHandlers
  <2>3. ASSUME NEW t \in Tasks, TaskNext(t) PROVE d \notin overlapped
    BY <2>3, OverlapGrows
  <2> QED
    BY <2>1, <2>2, <2>3, ActorCases
<1>2. chunks'[d] = chunks[d] /\ sparse'[d] = sparse[d] /\ missed'[d] = missed[d]
  BY <1>1, HiddenWhenReplaced
<1>3. CASE status[d] = "ready"
  BY <1>1, <1>2, <1>3 DEF IInv, SparseIsCurrent
<1>4. CASE status[d] # "ready"
  <2>1. PICK t \in Tasks : pc[t] = "ready" /\ target[t] = d
    BY <1>4, ReadyWriter
  <2>2. t \in Handled
    BY <2>1 DEF Handled, IInv, HandlersRun
  <2> QED
    BY <1>1, <1>2, <2>1, <2>2 DEF IInv, IndexFollowsChunks
<1> QED
  BY <1>3, <1>4

-----------------------------------------------------------------------------
(* The theorems *)

LEMMA IInvStep == IInv /\ [Next]_vars => IInv'
  BY TypeStep, HandlersRunStep, AttemptsStep, CommittedStep, ReadyStep, AcknowledgedStep,
     UnannouncedStep, UnfinishedStep, OneHandlerStep, HiddenStep, IndexStep,
     IndexUnusedStep, SparseStep DEF IInv

\* IInv is an invariant of the pipeline.
THEOREM IngestionInvariant == Spec => []IInv
  BY InitEstablishesIInv, IInvStep, PTL DEF Spec

\* Every state variable keeps its type; in particular asynq's retry count
\* stays within MaxRetry and the number of handler starts within MaxAttempts.
THEOREM TypeCorrect == Spec => []TypeOK
<1>1. IInv => TypeOK
  BY DEF IInv
<1> QED
  BY <1>1, IngestionInvariant, PTL

\* A document is 'ready' only while it has chunks, whatever tasks overlap and
\* wherever they die.
THEOREM ReadyDocumentsHaveChunks == Spec => []ReadyHasChunks
<1>1. IInv => ReadyHasChunks
  BY DEF IInv
<1> QED
  BY <1>1, IngestionInvariant, PTL

\* No generation is left unannounced by a completed task.
THEOREM NothingSilentlyInstalled == Spec => []UnannouncedIsUnfinished
<1>1. IInv => UnannouncedIsUnfinished
  BY DEF IInv
<1> QED
  BY <1>1, IngestionInvariant, PTL

\* A document in 'processing', or in a worker's 'failed', is owed a run.
THEOREM UnfinishedDocumentsAreOwed == Spec => []UnfinishedIsOwed
<1>1. IInv => UnfinishedIsOwed
  BY DEF IInv
<1> QED
  BY <1>1, IngestionInvariant, PTL

\* Without overlap the index of a ready document has no entries of replaced
\* chunks, whatever failed or died between the commit and _bulk, except those
\* that were not yet refreshed when the last _delete_by_query looked for them.
THEOREM IndexIsCurrent == Spec => []SparseIsCurrent
<1>1. IInv => SparseIsCurrent
  BY DEF IInv
<1> QED
  BY <1>1, IngestionInvariant, PTL

\* Without overlap no step replaces the chunks of a ready document.
THEOREM ReadersSeeWholeRuns == Spec => ReplacedOnlyWhenHidden
<1>1. IInv /\ [Next]_vars =>
        [\A d \in Docs \ overlapped : chunks'[d] # chunks[d] => status[d] # "ready"]_vars
  BY HiddenWhenReplaced
<1> QED
  BY <1>1, IngestionInvariant, PTL DEF Spec, ReplacedOnlyWhenHidden

-----------------------------------------------------------------------------
(* The pipeline implements the abstract knowledge base *)

Visible == {d \in Docs : status[d] = "ready"}

\* A step of the API hides at most one document and touches nothing else that
\* readers see.
LEMMA ApiHides ==
  ASSUME IInv, NEW r \in Requests, RequestNext(r)
  PROVE  \/ UNCHANGED status
         \/ \E d \in Docs, s \in {"uploaded", "failed"} : status' = [status EXCEPT ![d] = s]
<1> USE DEF IInv, HandlersRun, TypeOK, SetStatus, dbVars, indexVars
<1> DEFINE Goal == \/ UNCHANGED status
                   \/ \E d \in Docs, s \in {"uploaded", "failed"} :
                        status' = [status EXCEPT ![d] = s]
<1>1. ASSUME NEW o \in Outcomes, NEW d \in Docs, UploadDocument(r, d, o) \/ MarkUploaded(r, d, o)
      PROVE  Goal
  BY <1>1 DEF UploadDocument, MarkUploaded
<1>2. ASSUME NEW o \in Outcomes, MarkUnscheduled(r, o)
      PROVE  Goal
  <2>1. request[r].doc \in Docs
    BY <1>2 DEF MarkUnscheduled
  <2> QED
    BY <1>2, <2>1 DEF MarkUnscheduled
<1>3. ASSUME NEW o \in Outcomes, NEW S \in SUBSET Docs,
             Enqueue(r, o) \/ StartReingest(r, S) \/ AbandonRequest(r)
      PROVE  Goal
  BY <1>3 DEF Enqueue, StartReingest, AbandonRequest
<1> QED
  BY <1>1, <1>2, <1>3 DEF RequestNext, RequestStep, Enqueue, StartReingest, AbandonRequest

\* A step of a task that neither commits nor increments writes at most one status.
LEMMA TaskWrites ==
  ASSUME IInv, NEW t \in Tasks, TaskNext(t), UNCHANGED <<chunks, kbVersion, announced>>
  PROVE  \/ UNCHANGED status
         \/ \E s \in {"processing", "failed"} : status' = [status EXCEPT ![target[t]] = s]
         \/ /\ pc[t] = "ready"
            /\ status' = [status EXCEPT ![target[t]] = "ready"]
<1> USE DEF IInv, TypeOK, SetStatus, dbVars, indexVars
<1>1. CASE \E o \in Outcomes : MarkProcessing(t, o)
  BY <1>1 DEF MarkProcessing
<1>2. CASE \E o \in Outcomes : MarkFailed(t, o)
  BY <1>2 DEF MarkFailed
<1>3. CASE \E o \in Outcomes : MarkReady(t, o)
  BY <1>3 DEF MarkReady
<1>4. CASE ~ \E o \in Outcomes : MarkProcessing(t, o) \/ MarkFailed(t, o) \/ MarkReady(t, o)
  BY <1>4 DEF TaskNext, HandlerStep, Lease, Interrupt, Shutdown, Acknowledge, Build,
              DeleteRows, CommitRows, PurgeIndex, BulkIndex, BumpVersion
<1> QED
  BY <1>1, <1>2, <1>3, <1>4

LEMMA HiddenByStatus ==
  ASSUME TypeOK, NEW d \in Docs, NEW s \in Statuses \ {"ready"},
         status' = [status EXCEPT ![d] = s]
  PROVE  Visible' = Visible \ {d}
  BY DEF Visible, TypeOK

LEMMA ShownByStatus ==
  ASSUME TypeOK, NEW d \in Docs, status' = [status EXCEPT ![d] = "ready"]
  PROVE  Visible' = Visible \cup {d}
  BY DEF Visible, TypeOK

LEMMA StepImplements ==
  ASSUME IInv, [Next]_vars
  PROVE  [KB!KBNext]_(KB!kbVars)
<1> USE DEF KB!KBNext, KB!kbVars, KB!Install, KB!Show, KB!Hide, KB!Bump
<1>1. CASE Quiet
  BY <1>1 DEF Quiet, dbVars, indexVars
<1>2. ASSUME NEW r \in Requests, RequestNext(r)
      PROVE  [KB!KBNext]_(KB!kbVars)
  <2>1. UNCHANGED <<chunks, kbVersion, announced>>
    BY <1>2, ApiFrame
  <2>2. CASE UNCHANGED status
    BY <2>1, <2>2
  <2>3. ASSUME NEW d \in Docs, NEW s \in {"uploaded", "failed"},
               status' = [status EXCEPT ![d] = s]
        PROVE  KB!Hide(d)
    <3>1. Visible' = Visible \ {d}
      BY <2>3, HiddenByStatus DEF IInv, Statuses
    <3> QED
      BY <2>1, <3>1 DEF Visible
  <2> QED
    BY <1>2, <2>2, <2>3, ApiHides
<1>3. ASSUME NEW t \in Tasks, TaskNext(t)
      PROVE  [KB!KBNext]_(KB!kbVars)
  <2>1. CASE Commits(t)
    <3>1. target[t] \in Docs /\ <<t, attempt[t]>> \in Generations
      BY <2>1, OwnGeneration DEF Commits, IInv, HandlersRun
    <3>2. CASE chunks[target[t]] = <<t, attempt[t]>>
      BY <2>1, <3>2 DEF Commits, IInv, TypeOK
    <3>3. CASE chunks[target[t]] # <<t, attempt[t]>>
      <4>1. KB!Install(target[t], <<t, attempt[t]>>)
        BY <2>1, <3>3 DEF Commits
      <4> QED
        BY <3>1, <4>1
    <3> QED
      BY <3>2, <3>3
  <2>2. CASE Bumps(t)
    BY <2>2 DEF Bumps
  <2>3. CASE Moves(t)
    <3>1. UNCHANGED <<chunks, kbVersion, announced>>
      BY <2>3 DEF Moves
    <3>2. CASE UNCHANGED status
      BY <3>1, <3>2
    <3>3. ASSUME pc[t] # "idle", NEW s \in {"processing", "failed"},
                 status' = [status EXCEPT ![target[t]] = s]
          PROVE  KB!KBNext
      <4>1. target[t] \in Docs
        BY <3>3 DEF IInv, HandlersRun
      <4>2. Visible' = Visible \ {target[t]}
        BY <3>3, <4>1, HiddenByStatus DEF IInv, Statuses
      <4>3. KB!Hide(target[t])
        BY <3>1, <4>2 DEF Visible
      <4> QED
        BY <4>1, <4>3
    <3>4. ASSUME pc[t] = "ready", status' = [status EXCEPT ![target[t]] = "ready"]
          PROVE  KB!KBNext
      <4>1. target[t] \in Docs /\ chunks[target[t]] # NoChunks
        BY <3>4 DEF IInv, HandlersRun, CommittedHasChunks
      <4>2. Visible' = Visible \cup {target[t]}
        BY <3>4, <4>1, ShownByStatus DEF IInv
      <4>3. KB!Show(target[t])
        BY <3>1, <4>1, <4>2 DEF Visible
      <4> QED
        BY <4>1, <4>3
    <3>5. CASE pc[t] = "idle"
      BY <1>3, <3>1, <3>5 DEF TaskNext, HandlerStep, Lease, Interrupt, Shutdown, Acknowledge,
         MarkProcessing, Build, DeleteRows, CommitRows, PurgeIndex, BulkIndex, MarkFailed,
         MarkReady, BumpVersion, dbVars, indexVars
    <3> QED
      BY <1>3, <3>1, <3>2, <3>3, <3>4, <3>5, TaskWrites
  <2> QED
    BY <1>3, <2>1, <2>2, <2>3, ContentFrame DEF IInv
<1> QED
  BY <1>1, <1>2, <1>3, ActorCases

\* The pipeline implements module KnowledgeBase: what readers see changes by
\* installing, showing or hiding one document, or by one increment.
THEOREM PipelineIsKnowledgeBase == Spec => ImplementsKnowledgeBase
<1>1. Init => KB!KBInit
  BY DEF Init, KB!KBInit
<1>2. IInv /\ [Next]_vars => [KB!KBNext]_(KB!kbVars)
  BY StepImplements
<1> QED
  BY <1>1, <1>2, IngestionInvariant, PTL DEF Spec, ImplementsKnowledgeBase, KB!KBSpec

=============================================================================
