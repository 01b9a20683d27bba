----------------------------- MODULE Ingestion -----------------------------
(***************************************************************************)
(* The ingestion pipeline of one organisation: the API handlers that       *)
(* create or re-mark a document and schedule a task, the asynq queue, and  *)
(* the worker's HandleDocumentIngest with its PostgreSQL transaction and   *)
(* its OpenSearch synchronisation.                                         *)
(*                                                                         *)
(* Every call to PostgreSQL, Redis or OpenSearch is one step with an       *)
(* outcome: "ok", "err" (no effect, an error is returned) or "lost" (the   *)
(* effect happened, an error is returned).  Processes die between any two  *)
(* steps.  Nothing in the program serialises two tasks of one document.    *)
(***************************************************************************)
EXTENDS Naturals, FiniteSets

CONSTANTS
  Docs,           \* documents that may be uploaded
  Requests,       \* API requests: upload, reingest one, reingest all
  Tasks,          \* identities of asynq tasks; bounds the number of enqueues
  Concurrency,    \* asynq.Config.Concurrency: tasks handled at a time
  MaxRetry,       \* asynq's limit of retries for one task
  SparseEnabled,  \* the worker's sparse client is configured
  MaxFaults,      \* bound: failed calls and crashes in one behaviour
  NoChunks,       \* no rows in document_chunks
  NoDoc           \* the task or request is about no document

\* Starts of one task's handler: the first, one per retry, and one per task
\* that a stopping worker put back (see AttemptsAreAccounted).
MaxAttempts == 1 + MaxRetry + MaxFaults

\* A commit of ReplaceDocumentChunks creates rows with fresh UUIDs: it is
\* named by the task and the attempt that made it.
Generations == Tasks \X (1 .. MaxAttempts)

ASSUME IngestionAssumption ==
  /\ Concurrency \in Nat \ {0}
  /\ MaxRetry \in Nat
  /\ MaxFaults \in Nat
  /\ SparseEnabled \in BOOLEAN
  /\ NoChunks \notin Generations
  /\ NoDoc \notin Docs

VARIABLES
  status,      \* documents.status, or "absent" before the INSERT
  chunks,      \* the generation in document_sections and document_chunks
  kbVersion,   \* organizations.kb_version
  sparse,      \* the generations with entries in the OpenSearch index
  unrefreshed, \* those of them that the index does not find yet
  request,     \* API requests in flight
  queue,       \* the state of each task in asynq
  target,      \* payload.DocumentID of each task
  retried,     \* asynq's retry count of each task
  attempt,     \* how often the handler was started for each task
  pc,          \* the handler's next call, "idle" when it is not running
  base,        \* the generation deleted by the handler's open transaction
  faults,      \* history: failed calls and crashes so far
  announced,   \* history: chunks at the last increment of kb_version
  missed,      \* history: entries left by the last _delete_by_query of a document
  refused,     \* history: documents whose last 'failed' the API wrote
  overlapped   \* history: documents handled by two tasks at a time

dbVars == <<status, chunks, kbVersion, announced>>
indexVars == <<sparse, unrefreshed, missed>>
taskVars == <<queue, target, retried, attempt, pc, base>>
vars == <<dbVars, indexVars, request, taskVars, faults, refused, overlapped>>

Statuses == {"absent", "uploaded", "processing", "ready", "failed"}
HandlerSteps == {"mark", "build", "delete", "commit", "purge", "bulk",
                 "ready", "bump", "ack", "fail"}
Outcomes == {"ok", "err", "lost"}

TypeOK ==
  /\ status \in [Docs -> Statuses]
  /\ chunks \in [Docs -> Generations \cup {NoChunks}]
  /\ kbVersion \in Nat
  /\ sparse \in [Docs -> SUBSET Generations]
  /\ unrefreshed \in SUBSET Generations
  /\ missed \in [Docs -> SUBSET Generations]
  /\ request \in [Requests -> [at : {"idle", "mark", "enqueue", "fail", "done"},
                               doc : Docs \cup {NoDoc},
                               todo : SUBSET Docs]]
  /\ queue \in [Tasks -> {"unused", "pending", "active", "completed", "archived"}]
  /\ target \in [Tasks -> Docs \cup {NoDoc}]
  /\ retried \in [Tasks -> 0 .. MaxRetry]
  /\ attempt \in [Tasks -> 0 .. MaxAttempts]
  /\ pc \in [Tasks -> HandlerSteps \cup {"idle"}]
  /\ base \in [Tasks -> Generations \cup {NoChunks}]
  /\ faults \in 0 .. MaxFaults
  /\ announced \in [Docs -> Generations \cup {NoChunks}]
  /\ refused \in SUBSET Docs
  /\ overlapped \in SUBSET Docs

Init ==
  /\ status = [d \in Docs |-> "absent"]
  /\ chunks = [d \in Docs |-> NoChunks]
  /\ kbVersion = 0
  /\ sparse = [d \in Docs |-> {}]
  /\ unrefreshed = {}
  /\ missed = sparse
  /\ request = [r \in Requests |-> [at |-> "idle", doc |-> NoDoc, todo |-> {}]]
  /\ queue = [t \in Tasks |-> "unused"]
  /\ target = [t \in Tasks |-> NoDoc]
  /\ retried = [t \in Tasks |-> 0]
  /\ attempt = [t \in Tasks |-> 0]
  /\ pc = [t \in Tasks |-> "idle"]
  /\ base = [t \in Tasks |-> NoChunks]
  /\ faults = 0
  /\ announced = chunks
  /\ refused = {}
  /\ overlapped = {}

-----------------------------------------------------------------------------
(* Outcomes of a call *)

Happened(o) == o # "err"
Succeeded(o) == o = "ok"

Charge(o) ==
  IF o = "ok" THEN UNCHANGED faults
  ELSE /\ faults < MaxFaults
       /\ faults' = faults + 1

\* UpdateDocumentStatus: one UPDATE, applied when the call took effect.
SetStatus(d, s, o) ==
  status' = [status EXCEPT ![d] = IF Happened(o) THEN s ELSE @]

-----------------------------------------------------------------------------
(* The API *)

\* The loop of reingestAllDocuments goes on with the other documents; the
\* other two handlers have none left and answer.
NextDocument(r, todo) ==
  request' = [request EXCEPT ![r] =
                [at |-> IF todo = {} THEN "done" ELSE "mark",
                 doc |-> NoDoc, todo |-> todo]]

\* uploadDocument up to CreateDocument.  When the INSERT's reply is lost the
\* row exists and nothing will schedule it.
UploadDocument(r, d, o) ==
  /\ request[r].at = "idle"
  /\ status[d] = "absent"
  /\ Charge(o)
  /\ SetStatus(d, "uploaded", o)
  /\ IF Succeeded(o)
       THEN request' = [request EXCEPT ![r] =
                          [at |-> "enqueue", doc |-> d, todo |-> {}]]
       ELSE NextDocument(r, {})
  /\ UNCHANGED <<chunks, kbVersion, announced, indexVars, taskVars, refused, overlapped>>

Created == {d \in Docs : status[d] # "absent"}

\* reingestDocument after GetDocument, reingestAllDocuments after
\* ListDocuments: S is the one document, or all of them.
StartReingest(r, S) ==
  /\ request[r].at = "idle"
  /\ S # {}
  /\ S = Created \/ \E d \in Created : S = {d}
  /\ request' = [request EXCEPT ![r] = [at |-> "mark", doc |-> NoDoc, todo |-> S]]
  /\ UNCHANGED <<dbVars, indexVars, taskVars, faults, refused, overlapped>>

\* UpdateDocumentStatus(d, "uploaded") of a reingest.
MarkUploaded(r, d, o) ==
  /\ request[r].at = "mark"
  /\ d \in request[r].todo
  /\ Charge(o)
  /\ SetStatus(d, "uploaded", o)
  /\ IF Succeeded(o)
       THEN request' = [request EXCEPT ![r] =
                          [at |-> "enqueue", doc |-> d, todo |-> @.todo \ {d}]]
       ELSE NextDocument(r, request[r].todo \ {d})
  /\ UNCHANGED <<chunks, kbVersion, announced, indexVars, taskVars, refused, overlapped>>

\* EnqueueDocumentIngest: no task id and no uniqueness option, so every call
\* makes a new task.
Enqueue(r, o) ==
  /\ request[r].at = "enqueue"
  /\ Charge(o)
  /\ IF Happened(o)
       THEN \E t \in Tasks :
              /\ queue[t] = "unused"
              /\ queue' = [queue EXCEPT ![t] = "pending"]
              /\ target' = [target EXCEPT ![t] = request[r].doc]
       ELSE UNCHANGED <<queue, target>>
  /\ IF Succeeded(o)
       THEN NextDocument(r, request[r].todo)
       ELSE request' = [request EXCEPT ![r].at = "fail"]
  /\ UNCHANGED <<dbVars, indexVars, retried, attempt, pc, base, refused, overlapped>>

\* The compensating UpdateDocumentStatus(doc, "failed"), its error ignored.
MarkUnscheduled(r, o) ==
  /\ request[r].at = "fail"
  /\ Charge(o)
  /\ SetStatus(request[r].doc, "failed", o)
  /\ refused' = IF Happened(o) THEN refused \cup {request[r].doc} ELSE refused
  /\ NextDocument(r, request[r].todo)
  /\ UNCHANGED <<chunks, kbVersion, announced, indexVars, taskVars, overlapped>>

\* The API process dies, or the client disconnects: r.Context() is cancelled
\* and every remaining call of the handler fails.
AbandonRequest(r) ==
  /\ request[r].at \in {"mark", "enqueue", "fail"}
  /\ faults < MaxFaults
  /\ faults' = faults + 1
  /\ NextDocument(r, {})
  /\ UNCHANGED <<dbVars, indexVars, taskVars, refused, overlapped>>

-----------------------------------------------------------------------------
(* The asynq queue, modelled from how the worker uses it *)

Goto(t, step) == pc' = [pc EXCEPT ![t] = step]

\* The handler is gone, its transaction with it.
Leave(t) ==
  /\ Goto(t, "idle")
  /\ base' = [base EXCEPT ![t] = NoChunks]

\* The handler returned an error, or its lease expired.
RetryOrArchive(t) ==
  /\ Leave(t)
  /\ IF retried[t] < MaxRetry
       THEN /\ queue' = [queue EXCEPT ![t] = "pending"]
            /\ retried' = [retried EXCEPT ![t] = @ + 1]
       ELSE /\ queue' = [queue EXCEPT ![t] = "archived"]
            /\ UNCHANGED retried

Handled == {t \in Tasks : queue[t] = "active"}

\* Mutant: a task waits until no other task of its document is queued.
LeaseExclusively(t) ==
  /\ queue[t] = "pending"
  /\ \A u \in Tasks \ {t} :
       target[u] = target[t] => queue[u] \notin {"pending", "active"}
  /\ queue' = [queue EXCEPT ![t] = "active"]
  /\ attempt' = [attempt EXCEPT ![t] = @ + 1]
  /\ Goto(t, "mark")
  /\ UNCHANGED <<dbVars, indexVars, request, target, retried, base, faults, refused, overlapped>>

\* A free goroutine takes the task and starts the handler.
Lease(t) ==
  /\ queue[t] = "pending"
  /\ Cardinality(Handled) < Concurrency
  /\ queue' = [queue EXCEPT ![t] = "active"]
  /\ attempt' = [attempt EXCEPT ![t] = @ + 1]
  /\ Goto(t, "mark")
  /\ overlapped' = IF \E u \in Handled : target[u] = target[t]
                    THEN overlapped \cup {target[t]} ELSE overlapped
  /\ UNCHANGED <<dbVars, indexVars, request, target, retried, base, faults, refused>>

\* The process is killed, the lease expires or the task times out: the
\* context is cancelled, the status keeps its value, the transaction rolls back.
Interrupt(t) ==
  /\ pc[t] # "idle"
  /\ faults < MaxFaults
  /\ faults' = faults + 1
  /\ RetryOrArchive(t)
  /\ UNCHANGED <<dbVars, indexVars, request, target, attempt, refused, overlapped>>

\* asynqServer.Shutdown gives up on the handler: the task goes back to the
\* queue and its retry count stays.
Shutdown(t) ==
  /\ pc[t] # "idle"
  /\ faults < MaxFaults
  /\ faults' = faults + 1
  /\ Leave(t)
  /\ queue' = [queue EXCEPT ![t] = "pending"]
  /\ UNCHANGED <<dbVars, indexVars, request, target, retried, attempt, refused, overlapped>>

\* asynq records that the handler returned nil.
Acknowledge(t) ==
  /\ pc[t] = "ack"
  /\ Leave(t)
  /\ queue' = [queue EXCEPT ![t] = "completed"]
  /\ UNCHANGED <<dbVars, indexVars, request, target, retried, attempt, faults, refused, overlapped>>

-----------------------------------------------------------------------------
(* HandleDocumentIngest *)

Stay == UNCHANGED <<queue, retried, base>>

\* Mutant: the handler starts working without marking the document.
MarkProcessingSkipped(t, o) ==
  /\ pc[t] = "mark"
  /\ o = "ok"
  /\ Goto(t, "build")
  /\ Stay
  /\ UNCHANGED <<dbVars, indexVars, request, target, attempt, faults, refused, overlapped>>

\* GetDocumentForIngestion and the update to 'processing'.  Rows are never
\* deleted, so the SkipRetry path of a missing document is not taken.
MarkProcessing(t, o) ==
  /\ pc[t] = "mark"
  /\ Charge(o)
  /\ SetStatus(target[t], "processing", o)
  /\ IF Succeeded(o) THEN Goto(t, "build") /\ Stay ELSE RetryOrArchive(t)
  /\ UNCHANGED <<chunks, kbVersion, announced, indexVars, request, target, attempt, refused, overlapped>>

\* Download, extractText, chunkDocumentText and Embed.
Build(t, o) ==
  /\ pc[t] = "build"
  /\ o # "lost"
  /\ Charge(o)
  /\ Goto(t, IF Succeeded(o) THEN "delete" ELSE "fail")
  /\ Stay
  /\ UNCHANGED <<dbVars, indexVars, request, target, attempt, refused, overlapped>>

\* Rows another open transaction has deleted: our DELETE waits for its end.
RowsLocked(t) ==
  /\ chunks[target[t]] # NoChunks
  /\ \E u \in Tasks \ {t} :
       /\ pc[u] = "commit"
       /\ target[u] = target[t]
       /\ base[u] = chunks[target[t]]

\* Mutant: the two DELETEs commit on their own, outside the transaction.
DeleteRowsAutocommitted(t, o) ==
  /\ pc[t] = "delete"
  /\ o = "ok"
  /\ chunks' = [chunks EXCEPT ![target[t]] = NoChunks]
  /\ base' = [base EXCEPT ![t] = NoChunks]
  /\ Goto(t, "commit")
  /\ UNCHANGED <<status, kbVersion, announced, indexVars, request, queue, target,
                 retried, attempt, faults, refused, overlapped>>

\* BeginTx and the two DELETEs of ReplaceDocumentChunks, under READ
\* COMMITTED.  With no rows to delete there is nothing to lock.
DeleteRows(t, o) ==
  /\ pc[t] = "delete"
  /\ o # "lost"
  /\ Charge(o)
  /\ IF Succeeded(o)
       THEN /\ ~RowsLocked(t)
            /\ base' = [base EXCEPT ![t] = chunks[target[t]]]
            /\ Goto(t, "commit")
       ELSE /\ Goto(t, "fail")
            /\ UNCHANGED base
  /\ UNCHANGED <<dbVars, indexVars, request, queue, target, retried, attempt, refused, overlapped>>

\* Another task has committed rows since our DELETEs: the INSERT violates
\* UNIQUE (document_id, section_index).
UniqueViolation(t) == chunks[target[t]] # base[t]

\* The INSERTs and the COMMIT.
CommitRows(t, o) ==
  /\ pc[t] = "commit"
  /\ Charge(o)
  /\ UniqueViolation(t) => o = "ok"
  /\ chunks' = IF Happened(o) /\ ~UniqueViolation(t)
                THEN [chunks EXCEPT ![target[t]] = <<t, attempt[t]>>] ELSE chunks
  /\ Goto(t, IF ~Succeeded(o) \/ UniqueViolation(t) THEN "fail"
             ELSE IF SparseEnabled THEN "purge" ELSE "ready")
  /\ base' = [base EXCEPT ![t] = NoChunks]
  /\ UNCHANGED <<status, kbVersion, announced, indexVars, request, queue, target,
                 retried, attempt, refused, overlapped>>

\* Mutant: ReplaceDocument indexes the new chunks without the delete.
PurgeIndexSkipped(t, o) ==
  /\ pc[t] = "purge"
  /\ o = "ok"
  /\ Goto(t, "bulk")
  /\ Stay
  /\ UNCHANGED <<dbVars, indexVars, request, target, attempt, faults, refused, overlapped>>

\* EnsureIndex and _delete_by_query on document_id, which deletes what it finds:
\* neither it nor _bulk asks for a refresh.
PurgeIndex(t, o) ==
  /\ pc[t] = "purge"
  /\ Charge(o)
  /\ LET left == sparse[target[t]] \cap unrefreshed
     IN  IF Happened(o)
           THEN /\ sparse' = [sparse EXCEPT ![target[t]] = left]
                /\ missed' = [missed EXCEPT ![target[t]] = left]
           ELSE UNCHANGED <<sparse, missed>>
  /\ UNCHANGED unrefreshed
  /\ Goto(t, IF Succeeded(o) THEN "bulk" ELSE "fail")
  /\ Stay
  /\ UNCHANGED <<dbVars, request, target, attempt, refused, overlapped>>

\* _bulk.  "rejected": status 200 with no item indexed, as the body says, which
\* the client does not read (with some of them it is "ok" here).
BulkIndex(t, o) ==
  /\ pc[t] = "bulk"
  /\ Charge(o)
  /\ LET indexed == IF o \in {"ok", "lost"} THEN {<<t, attempt[t]>>} ELSE {}
     IN  /\ sparse' = [sparse EXCEPT ![target[t]] = @ \cup indexed]
         /\ unrefreshed' = unrefreshed \cup indexed
  /\ UNCHANGED missed
  /\ Goto(t, IF o \in {"ok", "rejected"} THEN "ready" ELSE "fail")
  /\ Stay
  /\ UNCHANGED <<dbVars, request, target, attempt, refused, overlapped>>

\* Mutant: the handler records the failure and returns nil.
MarkFailedSwallowed(t, o) ==
  /\ pc[t] = "fail"
  /\ Charge(o)
  /\ SetStatus(target[t], "failed", o)
  /\ refused' = IF Happened(o) THEN refused \ {target[t]} ELSE refused
  /\ Leave(t)
  /\ queue' = [queue EXCEPT ![t] = "completed"]
  /\ UNCHANGED <<chunks, kbVersion, announced, indexVars, request, target, retried,
                 attempt, overlapped>>

\* ingestDocument failed: the update to 'failed', its own error ignored.
MarkFailed(t, o) ==
  /\ pc[t] = "fail"
  /\ Charge(o)
  /\ SetStatus(target[t], "failed", o)
  /\ refused' = IF Happened(o) THEN refused \ {target[t]} ELSE refused
  /\ RetryOrArchive(t)
  /\ UNCHANGED <<chunks, kbVersion, announced, indexVars, request, target, attempt, overlapped>>

\* The update to 'ready'.
MarkReady(t, o) ==
  /\ pc[t] = "ready"
  /\ Charge(o)
  /\ SetStatus(target[t], "ready", o)
  /\ IF Succeeded(o) THEN Goto(t, "bump") /\ Stay ELSE RetryOrArchive(t)
  /\ UNCHANGED <<chunks, kbVersion, announced, indexVars, request, target, attempt, refused, overlapped>>

\* Mutant: the error of IncrementOrganizationKBVersion is only logged.
BumpVersionBestEffort(t, o) ==
  /\ pc[t] = "bump"
  /\ Charge(o)
  /\ IF Happened(o) THEN kbVersion' = kbVersion + 1 /\ announced' = chunks
                    ELSE UNCHANGED <<kbVersion, announced>>
  /\ Goto(t, "ack")
  /\ Stay
  /\ UNCHANGED <<status, chunks, indexVars, request, target, attempt, refused, overlapped>>

\* IncrementOrganizationKBVersion: one counter for all documents, so it
\* announces every generation committed so far.
BumpVersion(t, o) ==
  /\ pc[t] = "bump"
  /\ Charge(o)
  /\ IF Happened(o) THEN kbVersion' = kbVersion + 1 /\ announced' = chunks
                    ELSE UNCHANGED <<kbVersion, announced>>
  /\ IF Succeeded(o) THEN Goto(t, "ack") /\ Stay ELSE RetryOrArchive(t)
  /\ UNCHANGED <<status, chunks, indexVars, request, target, attempt, refused, overlapped>>

-----------------------------------------------------------------------------
(* OpenSearch, modelled from how the worker uses it *)

\* The periodic refresh of the index, of one shard: from now on queries find
\* what has been indexed.
Refresh ==
  /\ unrefreshed # {}
  /\ unrefreshed' = {}
  /\ UNCHANGED <<dbVars, sparse, missed, request, taskVars, faults, refused, overlapped>>

-----------------------------------------------------------------------------

RequestStep(r) ==
  \/ \E o \in Outcomes :
       \/ \E d \in Docs : MarkUploaded(r, d, o)
       \/ Enqueue(r, o)
       \/ MarkUnscheduled(r, o)

RequestNext(r) ==
  \/ \E o \in Outcomes, d \in Docs : UploadDocument(r, d, o)
  \/ \E S \in SUBSET Docs : StartReingest(r, S)
  \/ RequestStep(r)
  \/ AbandonRequest(r)

HandlerStep(t) ==
  \/ \E o \in Outcomes :
       \/ MarkProcessing(t, o)
       \/ Build(t, o)
       \/ DeleteRows(t, o)
       \/ CommitRows(t, o)
       \/ PurgeIndex(t, o)
       \/ MarkFailed(t, o)
       \/ MarkReady(t, o)
       \/ BumpVersion(t, o)
  \/ \E o \in Outcomes \cup {"rejected"} : BulkIndex(t, o)
  \/ Acknowledge(t)

TaskNext(t) == Lease(t) \/ HandlerStep(t) \/ Interrupt(t) \/ Shutdown(t)

\* Every request has been answered and every task is settled.
Quiescent ==
  /\ \A r \in Requests : request[r].at = "done"
  /\ \A t \in Tasks : queue[t] \in {"unused", "completed", "archived"}

\* The system may stop there (so that TLC still reports real deadlocks).
Idle == Quiescent /\ UNCHANGED vars

Next ==
  \/ \E r \in Requests : RequestNext(r)
  \/ \E t \in Tasks : TaskNext(t)
  \/ Refresh
  \/ Idle

Spec == Init /\ [][Next]_vars

\* A started request runs on, a free worker takes a queued task and a
\* running handler goes on.  Nobody has to send a request, and no fault has
\* to happen: WF of a step is discharged by its "ok" outcome.
Fairness ==
  /\ \A r \in Requests : WF_vars(RequestStep(r))
  /\ \A t \in Tasks : WF_vars(Lease(t)) /\ WF_vars(HandlerStep(t))

FairSpec == Spec /\ Fairness

-----------------------------------------------------------------------------
(* Safety *)

\* A document is offered to retrieval (status 'ready') only when its chunks
\* are in the database: ReplaceDocumentChunks deletes and inserts in one
\* transaction, so not even a second task of the same document, or one that
\* dies half-way, can empty a ready document.
ReadyHasChunks == \A d \in Docs : status[d] = "ready" => chunks[d] # NoChunks

\* A generation that no increment of kb_version has announced belongs to a
\* task that is not completed: HandleDocumentIngest returns nil only after
\* the increment, so either asynq runs the task again or it ends in the
\* archive, where an operator sees it.
UnannouncedIsUnfinished ==
  \A d \in Docs : \A t \in Tasks :
    (chunks[d] # NoChunks /\ chunks[d] # announced[d] /\ chunks[d][1] = t)
      => queue[t] # "completed"

\* Tasks of d that still have to write its status, or gave up in the archive.
Owes(t, d) ==
  /\ target[t] = d
  /\ \/ queue[t] \in {"pending", "archived"}
     \/ pc[t] \in HandlerSteps \ {"bump", "ack"}

\* A document is left in 'processing', or in a worker's 'failed', only while
\* one of its tasks will run on or has been archived, although the write of
\* 'failed' ignores its error and tasks of one document overwrite each
\* other's status.
UnfinishedIsOwed ==
  \A d \in Docs :
    status[d] = "processing" \/ (status[d] = "failed" /\ d \notin refused)
      => \E t \in Tasks : Owes(t, d)

\* As long as its tasks never ran at the same time, a ready document has no
\* entries of replaced chunks in the sparse index, whatever failed or died
\* between the PostgreSQL commit, _delete_by_query and _bulk, except those that
\* were indexed so late that the last _delete_by_query did not find them: a
\* run that follows a refresh leaves none, also of the runs before.
SparseIsCurrent ==
  \A d \in Docs \ overlapped :
    status[d] = "ready" => sparse[d] \subseteq {chunks[d]} \cup missed[d]

\* As long as its tasks never ran at the same time, the chunks of a document
\* are not replaced under readers: they see it leave 'ready' before.
ReplacedOnlyWhenHidden ==
  [][\A d \in Docs \ overlapped :
       chunks'[d] # chunks[d] => status[d] # "ready"]_vars

\* The pipeline is a knowledge base in the sense of module KnowledgeBase.
KB == INSTANCE KnowledgeBase WITH
        content <- chunks,
        visible <- {d \in Docs : status[d] = "ready"},
        version <- kbVersion

ImplementsKnowledgeBase == KB!KBSpec

\* reingestDocument: "Mark as uploaded again and schedule ingestion. The worker
\* will set processing/ready."  So an ingested document that is back in
\* 'uploaded' should be owed a run, by a task or by the request that is about
\* to enqueue it.
UploadedIsScheduled ==
  \A d \in Docs : status[d] = "uploaded" /\ chunks[d] # NoChunks =>
    \/ \E r \in Requests : request[r].doc = d
    \/ \E t \in Tasks : target[t] = d /\ queue[t] \in {"pending", "active", "archived"}

-----------------------------------------------------------------------------
(* The inductive invariant behind the safety properties *)

\* asynq and the handlers agree on what runs, and on which document.
HandlersRun ==
  /\ \A t \in Tasks : pc[t] # "idle" <=> queue[t] = "active"
  /\ \A t \in Tasks : queue[t] # "unused" => target[t] \in Docs
  /\ \A r \in Requests : request[r].at \in {"enqueue", "fail"} => request[r].doc \in Docs

\* Every start of a handler after the first was paid for by a retry or by a
\* worker's shutdown.
AttemptsAreAccounted ==
  \A t \in Tasks :
    /\ queue[t] \in {"unused", "pending"} => attempt[t] <= retried[t] + faults
    /\ queue[t] = "active" => attempt[t] >= 1
    /\ attempt[t] <= 1 + retried[t] + faults

\* After its commit a handler can count on chunks of its document (its own,
\* or those of a task that replaced them since).
CommittedHasChunks ==
  \A t \in Tasks :
    pc[t] \in {"purge", "bulk", "ready", "bump", "ack"} => chunks[target[t]] # NoChunks

\* When a handler is about to return nil, nothing it committed is unannounced.
AcknowledgedIsAnnounced ==
  \A t \in Tasks : pc[t] = "ack" =>
    \A d \in Docs : chunks[d] # NoChunks /\ chunks[d][1] = t => announced[d] = chunks[d]

\* Two handlers of a document at a time make it overlapped.
OneHandler ==
  \A t, u \in Handled : target[t] = target[u] /\ target[t] \notin overlapped => t = u

\* The only handler of a document keeps it hidden from MarkProcessing to
\* MarkReady, as the API never writes 'ready'.
HiddenWhileHandled ==
  \A t \in Handled :
    pc[t] \notin {"mark", "bump", "ack"} /\ target[t] \notin overlapped
      => status[target[t]] # "ready"

\* After its commit the chunks are its own, and it deletes what it finds of earlier
\* runs in the index before it adds them.
IndexFollowsChunks ==
  \A t \in Handled :
    target[t] \notin overlapped =>
      /\ pc[t] \in {"purge", "bulk", "ready"} => chunks[target[t]] = <<t, attempt[t]>>
      /\ pc[t] = "bulk" => sparse[target[t]] \subseteq missed[target[t]]
      /\ pc[t] = "ready" => sparse[target[t]] \subseteq {chunks[target[t]]} \cup missed[target[t]]

\* Without a sparse client nothing is in the index.
IndexUnused ==
  ~SparseEnabled =>
    /\ \A t \in Tasks : pc[t] \notin {"purge", "bulk"}
    /\ \A d \in Docs : sparse[d] = {}

IInv ==
  /\ TypeOK
  /\ HandlersRun
  /\ AttemptsAreAccounted
  /\ CommittedHasChunks
  /\ ReadyHasChunks
  /\ AcknowledgedIsAnnounced
  /\ UnannouncedIsUnfinished
  /\ UnfinishedIsOwed
  /\ OneHandler
  /\ HiddenWhileHandled
  /\ IndexFollowsChunks
  /\ IndexUnused
  /\ SparseIsCurrent

-----------------------------------------------------------------------------
(* Liveness *)

\* Every scheduled task ends: done, or in the archive after its retries, even
\* when tasks of one document wait for each other's row locks.
TasksSettle ==
  \A t \in Tasks :
    queue[t] \in {"pending", "active"} ~> queue[t] \in {"completed", "archived"}

\* In a behaviour without faults every document ends up ready with its last
\* chunks announced: a task that loses the race of first commits is retried,
\* and what it wrote in between ('failed') does not stay.
EventuallyReady ==
  [](faults = 0) =>
    <>[](\A d \in Docs : status[d] # "absent" =>
           status[d] = "ready" /\ announced[d] = chunks[d])
=============================================================================
