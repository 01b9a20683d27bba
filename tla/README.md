# Vertex RAG: models, checks and proofs

TLA+ modules that model the parts of Vertex RAG whose correctness depends on the
order of events: the ingestion pipeline, the knowledge base other parts see, the
retrieval cache, the strict answers, the sign-in sessions, roles and users, chats and
settings, the calls of language models, and the rate limiter; and its one algorithm whose
loops are hard to get right, the chunker. TLC checks them on small instances; TLAPS proves
the main invariants for all values of the constants. Paths below are relative to the
repository's root.

## The system

| Component | State | Operations | Talks to |
|---|---|---|---|
| API: documents (`apps/api/internal/httpserver/server.go`, `store/documents.go`, `queue/`) | `documents.status`, objects in S3 | upload, reingest, reingest all, list | PostgreSQL, S3, asynq |
| Worker (`apps/worker`) | `document_sections`, `document_chunks`, `documents.status`, `organizations.kb_version`, the OpenSearch index | `HandleDocumentIngest` | asynq, S3, PostgreSQL, the embedding provider, OpenSearch |
| Retrieval (`server.go` `retrieveForChat`, `retrieval_v2.go`, `store/retrieval*.go`, `cache/`) | retrieval entries in Redis | read `kb_version`, look up, retrieve (v1 or v2), store | PostgreSQL, OpenSearch, Redis, reranker, LLM (query variants) |
| Answers (`server.go` `generateAssistantAnswerWithHistory`) | answer entries in Redis | look up, complete, guard, retry, store | LLM, Redis, web search |
| Chats (`server.go`, `store/chat.go`) | `chats`, `messages` | create, rename, delete, list, message, streamed message | PostgreSQL, retrieval, answers |
| Authentication (`server.go`, `auth/`, `store/auth_sessions.go`, `middleware.go`) | `auth_sessions`, JWTs held by clients | register, login, refresh, logout | PostgreSQL |
| Roles and users (`server.go`, `store/store.go`) | `roles`, `users.role_id`, `documents.allowed_role_ids` | create, update, delete, assign | PostgreSQL |
| User settings (`server.go`, `store/chat.go`) | `user_settings` | read, merge, upsert | PostgreSQL |
| Rate limiter (`middleware.go`) | windows per key, in memory | `allow` | - |
| LLM runtime (`llm/`) | providers and models | resolve, complete, stream, retry | LLM providers |
| Chunker (`apps/worker/internal/ingest/chunker.go`) | - | text to sections and chunks | - |
| Fusion, limits, grounding (`retrieval_v2.go`, `server.go`, `grounding.go`) | - | rank, cut, score | - |
| Web client (`apps/web/app/_components/ConsoleApp.tsx`) | token, chats and messages on screen | refresh and resend, stream, abort | API |

How they interact. A document goes from the upload handler through an asynq task
to the worker. Every reader gets at the worker's result in two ways: the status
`ready` lets retrieval see the chunks, and `kb_version`, incremented after that, is
part of the name of every cache entry, so that an increment leaves all older
entries behind. Chat requests read `kb_version`, then a cache or the database, then
another cache or the model. Roles decide in three places: the permissions of a
handler, the filter of every retrieval query, and the name of every cache entry.

What is hard here:

* nothing serialises two tasks of one document, and asynq delivers at least once;
* PostgreSQL, OpenSearch and Redis are updated one after the other, and any of the
  calls may fail, take effect without an answer, or never happen because the process
  died or `r.Context()` was cancelled;
* compensating writes run on the context that has just failed and ignore errors;
* the index shows what it was given only after a refresh nobody asks for;
* what is cached was read at an earlier moment than it is used, under a name built
  from a counter read at a still earlier moment;
* candidates of the v2 retriever are ids that are looked up again later;
* sessions are rotated, and roles deleted, between checks and uses.

`PROJECT.json` lists these with the lines where they bite ("hazards").

### What makes each component correct

* Ingestion: a ready document has its chunks; nothing is installed for good without
  an increment of `kb_version`; a document is not left in `processing` or `failed`
  unless a task says so; no entry of replaced chunks stays in the index that a purge could
  have found; tasks end.
* Retrieval: a role never gets chunks it may not read; a result under the current
  `kb_version` is not older than that version and not poorer than it.
* Answers: the same for what an answer quotes; a refusal in the cache is deserved; an
  answer quotes what the request cites.
* Sessions: nothing is handed out for a session after its logout; a replaced token is
  refused; a browser that did nothing unusual stays signed in.
* Roles: every user has a role of the user's organisation; access a document grants is not
  inherited by a later role; no organisation reaches another's roles and users.
* Chats: an answer follows its question and is what the client was shown; the history is
  what was said; unstrict mode only for those permitted; every request ends.
* Settings: the stored model belongs to the stored provider.
* Rate limiter: no more requests in a window than configured, nobody refused before.
* Chunker: no text lost, and pages, offsets and headings that name the right place.

## Modules

```
KnowledgeBase            what readers may assume of the knowledge base
  ^ implemented by         ^ environment of
Ingestion                RetrievalCache
                           ^ extended by
                         StrictAnswer

LLMRuntime  <- extended by -  Chats        providers, settings; questions and answers
Normalizer  <- extended by -  Chunker      text of a document; its sections and chunks

AuthSessions, Roles, RateLimiter           on their own
```

Each has an MC module that gives it an instance for TLC (MCIngestion, MCRetrievalCache,
MCStrictAnswer, MCAuthSessions, MCRoles, MCChats, MCRateLimiter, MCChunker) and a module of
proofs (IngestionProofs, RetrievalCacheProofs, StrictAnswerProofs, AuthSessionsProofs,
RolesProofs, ChatsProofs, RateLimiterProofs, ChunkerProofs).

**KnowledgeBase** is the abstract specification between the two halves of the
system. Four variables: the generation of chunks of each document (`content`), the
documents in status `ready` (`visible`), `kb_version` (`version`), and what the last
increment announced. Its actions are the four writes that matter to readers:
`Install` (`ReplaceDocumentChunks`), `Show` and `Hide` (`UpdateDocumentStatus`),
`Bump` (`IncrementOrganizationKBVersion`). It allows any order of these except showing
a document that has no chunks.

**Ingestion** models the API handlers that schedule ingestion, the queue and the
worker. A request is a record: where it is, its document, and what the loop of
`reingestAllDocuments` has left. A task has its state in asynq, its retry count, and
the next call of its handler (`pc`). Every call is an action with an outcome:
`"ok"`, `"err"` (no effect), `"lost"` (effect without an answer); `_bulk` may also be
`"rejected"` (status 200 with failed items). `Interrupt` is a killed worker, an expired
lease or a timeout, `Shutdown` a graceful stop, `AbandonRequest` a dead API process
or a client that went away. `DeleteRows` and `CommitRows` follow PostgreSQL's READ
COMMITTED: a DELETE waits for another transaction that deleted the same rows, and a
second first-time INSERT violates the unique index. A generation is named by the
task and attempt that made it, as new rows get new UUIDs.

The sparse index is OpenSearch, which makes what it is given searchable at its next
refresh, once a second unless configured otherwise. The worker never asks for one: neither
`_bulk` (`client.go:152`) nor `_delete_by_query` (`client.go:189`) says `refresh`, and
the latter deletes only what it finds. So `sparse` is what has been indexed and not deleted,
`unrefreshed` the part that no query finds yet, and `Refresh` makes all of it searchable, at
any time (the index has one shard). `PurgeIndex` deletes what is searchable of a document
and leaves the rest, which it records in the history variable `missed`. A run that starts
soon after another one, also the same task after a requeue, can therefore leave entries of
chunks it has replaced, until the next purge of the document.

A call that is `"lost"` takes effect before the handler goes on, not at a later moment.

Details left out: file contents and object storage (a step of `Build` that may
fail), the number of chunks (a document without text fails in `Build`), titles, and
the validation of requests. Upload's own S3 write has no effect the database sees.
asynq deletes completed tasks after a while; here they stay, as history. asynq's
default of 25 retries is the constant `MaxRetry`. A malformed payload and a missing
document make the handler return `SkipRetry`; neither occurs, because payloads are
written by the API and no handler deletes documents.

**RetrievalCache** models `retrieveForChat`. A request goes through the calls in the
order of the code: `ReadVersion`, `Find` or `Miss`, then `RetrieveChunks` (v1, one SQL
statement) or `CollectCandidates` and `HydrateCandidates` (v2), then `Set`. Which retriever
a request takes is its API process's setting (`RetrievalVersions`); the key does not name
it, so processes with different settings share their entries. An entry is
a name (role, version, query) with the chunks stored under it. `Expire` is the TTL or
an eviction, at any time. The environment is KnowledgeBase. "Query" stands for
normalised text, mode, topK and candidateK together, and the ranking that follows is
the constant `Matches`: which documents a query retrieves if they are visible to the
role. So competition between documents for the topK places is not modelled. The v2
candidates from the index are any set of chunks of permitted documents: stale, or of
documents the database does not show. The organisation's id in every name keeps
organisations apart; the model is of one.

**StrictAnswer** extends a request with `generateAssistantAnswerWithHistory` in mode
`strict`: the answer cache, the fallback for an empty retrieval, the completion, the
guard (`isStrictCompletionValid`) with one retry, the heuristic answer and the guard's
fallback. An answer is abstracted to the chunks it quotes, or the kind of refusal.
What the model writes is any completion the guard accepts, or an invalid one.

**AuthSessions** models `registerOwner`, `login`, `refresh` and `logout` over the table
`auth_sessions`, the cookie jars of the browsers and the requests on their way between
them. A request is where it is and the token it runs on. A refresh is four steps, as in
the code: it is sent, `Verify` reads the row and checks it (revoked, expired, hash),
`Issue` makes the new token, `RotateAuthSession` updates the row, and then `Reply` sets
the cookie; any step may fail instead (`Fail`), and after the commit that means that the
reply is lost. Time is in whole seconds, because a token's times are: a refresh token is
a function of session, user and second, and `row.expires`, computed a moment later, may
be one of the following seconds. PostgreSQL's clock and the API's are one here.
`ClearCookie` is every way for a browser to lose its cookie without the server changing
anything: a logout that carried none, or one that had expired, and the cookie's own
`MaxAge`. An access token has no state in the server (`authMiddleware` checks its signature
and times), so it is only part of the reply. Two history variables say when the usual
expectations hold: `overlapped`, the sessions of which two requests were in flight at the
same time, and `lost`, the sessions of which a reply got lost.

**Roles** models the handlers of roles and users, `registerOwner`'s rows, and the part of
`uploadDocument` that deals with `allowed_role_ids`, statement by statement. A request is
authorised once, with what its user's role permits then (`Authorise`); what follows are the
statements of the store functions: `LoadRole`, `UpdateRole`, `CountUsers`, `DeleteRole`,
`FindRole`, `AssignRole`, `CheckRoles`, `InsertDocument`. `DeleteRole` stands for a DELETE
under the foreign key `users.role_id REFERENCES roles(id)`, `documents.allowed_role_ids` has
none. Ids come from a sequence (`lastId`) that an INSERT refused for its name also advances.
Names of roles are left out but for the refusal of a duplicate, and so are permissions no
route of the module asks for. Users join an existing organisation only through an
administrator's INSERT (`Enroll`), as the service has no handler for it.

**LLMRuntime** has no variables: it computes, from the environment's variables, the
configured providers, their models and default models (`NewRuntime`, `addProvider`), says
which provider and model fit together (`Resolve`, `ValidateModel`), and what a PATCH of the
settings changes. **Chats** is the state machine over it: chats, their messages, the stored
settings, and requests that ask (`POST /chats/{id}/messages`, streamed or not) or change
the settings. A question is: load the chat, resolve the mode with the permissions read at
authorisation, choose the model, write the question, read the history, then find an answer
without a model (`AnswerWithoutModel`: what StrictAnswer does, seen from outside) or call
one. `RetryModel` is one more attempt after 429, 5xx or no response, `CompleteStrictRetry`
the second completion of a strict answer, `Delta` a piece of a stream. Any step may fail
instead (`Fail`), which also stands for a client that leaves. An answer is a sequence of
pieces, of which the model tells no more than how many there are; a stored answer is
trimmed, pieces of blanks at its ends are not modelled. Titles, listings and citations
are left out.

**RateLimiter** models the middleware. A request reads the clock (`ReadClock`) and, up to
`MaxDelay` ticks later, gets the mutex and is decided (`Allow`, `Refuse`); `Cleaned` is the
loop over a table with too many entries. An entry that is not in the map is the zero entry,
as a lookup in Go returns it.

**Normalizer** defines what `normalizeWithPageBoundaries`, `resolvePages` and
`extractMarkdownHeadings` compute. A text is a sequence of runes; a rune has one of sixteen
classes, which are what the code tells apart, and the place in the document it came from,
so that properties can follow it through joins and cuts. Line endings and invisible runes
count as replaced already; `~` stands for any of the runes of a fence; headings are
told apart by where they begin, so that two with the same title are two.
Two classes of letters have their reason in oddities of the code. `looksLikeListItem` looks
for the first `.` at byte 1 or 2, so a rune of several bytes (`aa`, `??`) between a digit and
a `.` makes no list item. And the class of `hyphenBreak` (`chunker.go:606`) is written in a
raw string as `[\\p{L}]`, which names the runes `\`, `p`, `{`, `L` and `}` instead of all
letters: the last replacement finds a hyphen and a line break only between two of these, for
instance after a list item that ends in `stop-` and before a line that begins with
`process` (`Unhyphenated`). What it drops are never letters.
 **Chunker** runs
the three loops of `chunkDocumentText` one round per action: paragraphs
(`ExtractParagraph`), sections (`AddParagraph`, `CloseSection`), chunks (`CutChunk`).
`classifyChunkKind`, a table of keywords, is left out.

Operators preceded by a comment "Mutant: ..." are plausible bugs, one for each
property: putting one in the place of the definition it follows makes TLC find the
property violated, which shows that the property says something about the code.

## Runs

| Run | Instance | Question |
|---|---|---|
| `ingestion_one` | 1 document, 2 requests, 2 tasks, 1 retry, 2 faults, with index | do all safety properties and the refinement hold with overlap, failures and crashes? |
| `ingestion_live` | 1 document, 2 requests, 2 tasks, 1 retry, 1 fault, fairness | does every task end, in spite of row locks, and is the document ready and announced in the end if nothing failed? |
| `ingestion_uploaded` | as `ingestion_one`, 1 fault | finding: a reingest can leave a document in `uploaded` with no task |
| `retrieval` | 2 requests, 2 roles, 1 document, 2 generations, both retrievers | isolation, freshness and completeness, also when API processes of both settings share the cache, and the invariant of the proof |
| `strict_answer` | 1 request at a time, 2 roles, 2 generations | what do cached answers quote, and when is a refusal cached? |
| `strict_answer_quotes` | 2 requests at a time | finding: a cached answer next to other citations |
| `auth_sessions` | 1 session, 2 tabs of 1 browser, TTL 2 s, 4 s | what do overlapping refreshes and logouts leave, also across expiry? |
| `roles` | 2 organisations, 2 users, 3 requests, 1 document, ids 1 to 9 | who may do what after roles were created, changed, deleted and assigned at the same time? |
| `chats` | 1 user, 1 chat, 2 requests, 1 provider besides the local one, fairness | what is stored, shown and given to the model, and does every request end? |
| `chats_ollama` | the same with Ollama | finding: a request may wait for Ollama for ever |
| `rate_limiter` | 2 keys, 5 requests, limit 1, burst 1, window 3, delay 1, clock to 7 | how many requests get through, also when entries are dropped and readings are late? |
| `chunker` | all documents of up to 4 of 8 kinds of lines, plain or Markdown, and PDFs of 3 pages with a blank one in the middle | what have chunks to do with the document, and does the invariant of the proof hold? |

### Properties

Ingestion: `ReadyHasChunks`, `UnannouncedIsUnfinished`, `UnfinishedIsOwed`,
`SparseIsCurrent`, `ReplacedOnlyWhenHidden`, `ImplementsKnowledgeBase`, `TasksSettle`,
`EventuallyReady`. Two of them speak of documents whose tasks never overlapped
(history variable `overlapped`): with overlap a ready document's rows may be replaced
under readers, and index entries of replaced chunks may stay; both are what the code
does, and `RetrievalCache` shows that results stay correct anyway, as it assumes
neither. Without overlap `SparseIsCurrent` says that the only entries of replaced chunks
beside a ready document's own are those the last purge could not find (`missed`): nothing
stays because a call failed, a worker died or a task was run again, and a purge that follows
a refresh leaves nothing, of earlier runs either.

A document over which the API wrote `failed` because the reply to its enqueue was lost
(`server.go:911`) is a behaviour of the model that no property forbids: a running task
writes `ready` over it, after a finished one it stays `failed` until the next reingest, and
neither the code nor its documents say which it should be.

Retrieval: `RoleIsolation`, `NothingOutdated`, `NothingMissing`. The last two compare
results under the current `kb_version` with two history variables: `since`, the
generations a document has had since the last increment, and `steady`, the documents
that have been visible and unchanged since. They say exactly what the version in the
key buys: a result is never older than the version, and lacks nothing that has been
there as long as the version. They do not say that a document that leaves `ready`
disappears from cached results: the code does not increment `kb_version` then, and
entries serve its chunks until they expire or the next increment.

Answers: `AnswerIsolation`, `AnswerNotOutdated`, `RefusalIsDeserved`. The answer key names
neither the language nor the history of the chat; nothing in the repository says that it
should, and no property does.

Roles: `MembersHaveRoles` holds although both handlers check before they write, because
of the foreign key. `NoInheritedAccess` is what is left for documents, which name deleted
roles until they are uploaded again: ids are never used twice, so that no later role gets
at them. `TenantsApart` says that a user's permissions change only by a request of the same
organisation that was authorised for it. Nothing keeps the last user who may manage roles
from giving that up, and nothing promises it.

Chats: `AnswersFollowQuestions`, `UnstrictWasPermitted`, `StoredIsShown`, `HistoryIsPast`,
`RequestsEnd`; settings: `SettingsFit`. `HistoryIsPast` speaks of chats of up to
`HistoryLimit` messages and of questions after which no other request has written: a longer
chat is cut at its end, because `ListChatMessages` takes the oldest messages, and a
question that is not the last message stays in the history and reaches the model twice. An
answer that breaks off is shown in part and never stored; the question stays. Two more
things the module shows: the default model is always filled in before a model is chosen, so
that the models the README (line 195) has for strict and unstrict mode are never chosen by
mode; and `1 << attempt` of the backoff only overflows for values of `LLM_MAX_RETRIES` above
34.

Rate limiter: `WindowsDoNotOverlap` and `RefusedOverLimit` (a conjunct of `LimiterInv`) hold because an entry is dropped
a full window after its window is over, which leaves time to requests that have read the
clock and wait for the mutex. `AtMostTwoWindows` is what a fixed window gives: in any
stretch of a minute less the delay, twice limit+burst.

Chunker: `NothingLost`, `PagesCover`, `OffsetsName`, `UnderItsHeading`. Two of them have
exceptions, which is what the code does: of a token longer than the overlap, that a chunk
cuts, the next chunk skips the rest (`snapStart`), so that letters are lost; and in a
section with an indented paragraph the offsets are too small by its indentation.
Lines inside a code fence are joined like any other, although a comment
(`chunker.go:553`) has their indentation kept: only layout is lost.

Sessions: `AccessEnds` and `LogoutIsFinal` hold whatever overlaps, because
`RotateAuthSession` repeats `revoked_at IS NULL` in its UPDATE; `SessionOutlivesToken` (a
conjunct of `AuthInv`) because each rotation writes hash and expiry together. `RetiredIsRefused` and
`CookieIsCurrent` hold only for sessions whose requests did not overlap (and, for the
second, lost no reply): the UPDATE does not compare the hash that `Verify` read, so of two
overlapping refreshes with one token both succeed, and the browser may keep the token of
the one that was overwritten. That is what the code does, and no document promises more.

### Bounds and why they are enough

* Two tasks of one document show every overlap of two handlers; what holds for any
  number of them is proved.
* Two faults let a call fail and its compensation fail too, or a crash follow a
  failure; with one retry, a third is the archive. The liveness run has one, which is
  what its state space allows: one task fails or dies at any call and retries while the
  other runs.
* `MaxAttempts` is not a bound on the behaviour: it is the largest number of starts
  the retries and faults allow (part of `TypeOK`, a conjunct of `IInv`, proved).
* One document is enough for the pipeline, in which documents share nothing but
  `kb_version`; that one counter announces several documents is proved for any number.
* Generations: two per document suffice to replace, replace back and leave the first
  outdated. `MaxVersion = 1` explores everything under versions 0 and 1, and the states
  the second increment leads to.
* Strict answers: one request after another, of either role, while entries expire in any
  order, shows every answer that outlives the retrieval it was made from. Two requests at a
  time are in `strict_answer_quotes`; that the invariant holds with any number of them is
  proved.
* Two requests of one session show every overlap of two refreshes, or of a refresh and a
  logout. With a TTL of two seconds and four seconds of clock a token expires, is renewed,
  and expires again. A second session would only add requests that do not touch the first
  one's row; the proof covers any number. The run does not check deadlock: the clock stops
  at `MaxTime` and the session id is used up, which are bounds of the model.
* Roles: registration takes four ids of roles per organisation; the ninth is the role that
  may be created while another is deleted. Three requests are an upload or an assignment
  between the two halves of a deletion, and a third party's change.
* Chats: two requests of one user are two questions in one chat, or a question and a change
  of settings, overlapping or one after the other. The history of 3 messages, of which the
  model gets 1, is shorter than what two requests write. One retry and two pieces show a
  retry before and in the middle of a stream.
* Rate limiter: five requests of one key are one more than two windows admit. `MaxTime` is
  two windows and the delay later than the first request, when entries are dropped.
  `MaxEntries = 0` is a table that is cleaned whenever an entry is written; between two
  clean-ups of a larger table entries only get older.
* Chunker: the sizes are scaled down, keeping their order: chunks of 8 runes for 320, overlap
  3 for 60, the `lookback` of 3 for 80 and `minLen` of 6 for 300 of `snapEnd`, with a token
  of 2 for 50 more; 8 and 5 for 320 and 260 of `snapEndParagraph`, sections of 8 to 14 for
  900 to 1600. The lines are a blank one, words, a word with a hyphen at its end, a list
  item whose hyphen `hyphenBreak` finds, a heading, a fence, an indented word and a long line with a hyphenated token; four
  of them make sections of several paragraphs and chunks that overlap twice.
* The safety runs permute tasks, requests, documents, generations and readers, which
  no property tells apart; the fair runs use no symmetry.

### Fairness

`FairSpec` of Ingestion assumes weak fairness of the steps of a started request, of
`Lease` (asynq's goroutines poll the queue) and of a running handler (goroutines are
scheduled, calls return). Nobody is assumed to send a request, and faults are never
fair. That `DeleteRows` may wait for a lock is part of the model: its fairness is only
that of an enabled step. The caches have no liveness property: a request that finds
no entry goes to the database.

`FairChatSpec` of Chats assumes, for each request that has begun, weak fairness of what the
server does for it or of its failure (`Serve(r) \/ Fail(r)`): statements return, and a call
to another service answers or reaches `LLM_HTTP_TIMEOUT`. Excepted is a request while it
waits in a call that `MayHang` names: to a model over a client without a timeout.

## Findings

1. `UploadedIsScheduled` (`server.go:900`): the comment promises that a re-marked document
   is scheduled. The update and the enqueue are two calls on `r.Context()`; if the client
   goes away, the process dies, or the update's reply is lost between them, the document
   stays `uploaded` with no task, and the compensating update to `failed` cannot repair
   it, because it uses the same context.
2. `QuotesAreCited` (`server.go:2757`): `ROADMAP.md` has the strict guard reject invalid
   citations and the strict cache keep "answer + citations". The entry holds only the
   text and a hit skips the guard, so the message may quote `[1]` of a chunk the request
   did not retrieve. The shortest behaviour needs no expiry: two requests under one
   `kb_version`, one that retrieved before the document became ready and one after.
3. `RequestsEnd` with Ollama (`ollama.go:167`): `ROADMAP.md:105` says "Настроить timeouts,
   retries, backoff" is done, and `README.md:199` names `LLM_HTTP_TIMEOUT` among the
   reliability controls. `newOllamaProvider` gives it to `httpClient` (line 91) and makes
   `streamHTTPClient` without one (line 92); `Complete` uses the second (line 167) and
   `StreamComplete` the first (line 252), which is the wrong way round. An answer that is
   not streamed, which every strict one is, may wait for ever, and a stream is cut off by
   the timeout.

## Proofs

`IngestionProofs` proves for any number of documents, requests, tasks, retries, faults
and any `Concurrency`, from the named assumption `IngestionAssumption`:

* `IngestionInvariant`: `IInv` is invariant. The safety properties are not inductive on
  their own: that a ready document has chunks needs `CommittedHasChunks` (a handler past
  its commit can count on rows, its own or those of a task that replaced them), and that
  in turn needs `HandlersRun` (asynq and the handlers agree on what runs).
  `UnannouncedIsUnfinished` needs `AcknowledgedIsAnnounced`; the type of a generation needs
  `AttemptsAreAccounted`. `UnfinishedIsOwed` is inductive with `HandlersRun`: a task keeps
  its debt until it writes another status (`DebtLasts`), and whoever writes `processing` or
  `failed` has one (`DebtArises`).
* `TypeCorrect`, `ReadyDocumentsHaveChunks`, `NothingSilentlyInstalled`,
  `UnfinishedDocumentsAreOwed` follow from it.
* `IndexIsCurrent` and `ReadersSeeWholeRuns`, about documents without overlap: such a
  document has one handler at a time (`OneHandler`), which keeps it hidden from
  MarkProcessing to MarkReady (`HiddenWhileHandled`) and on the way to `ready` has purged
  the index, but for what the purge missed, before it added its own chunks
  (`IndexFollowsChunks`). `OtherHandler` shows that
  handlers of other documents notice nothing of a step.
* `PipelineIsKnowledgeBase`: the pipeline implements KnowledgeBase. Each step maps to
  one abstract action or a stutter (`StepImplements`); showing a document is allowed
  because of `CommittedHasChunks`.

`RetrievalCacheProofs` proves, from `RetrievalAssumption`, for any number of documents,
roles, queries and requests, without a bound on `version`, and for both retrievers:

* `RetrievalInvariant`: `CacheInv` is invariant. `KeysNotAhead` says that no entry waits
  under a version still to come, so an increment empties the set of current results;
  `ContentIsRecent` that what the database holds now is recent; `CandidatesCover` that ids
  collected under the current version include every steady document's present chunks.
  `ResultStep` shows that only reading the database makes new results,
  `WhileVersionStands` what cannot happen between two increments.
* `RolesAreIsolated`, `NoOutdatedResult`, `NoMissingDocument` follow.

`AuthSessionsProofs` proves, from `AuthAssumption` and `NullAssumption`, for any number of
sessions, users, browsers and requests and without a bound on time, all properties of
AuthSessions:

* `AuthInvariant`: `AuthInv` is invariant. `RepliesAreOlder` is what `AccessEnds` needs of
  the replies under way; `AloneInSession` and `FindsItsRow` say that a request without
  overlap finds the row as it read it; with `RetiredIsOlder` (replaced tokens are older than
  the row's) that gives `RetiredIsRefused`, and with `OneBrowserPerSession` (no session gets
  into two jars) and `CookieFollows` it gives `CookieIsCurrent`.
* `AccessEndsWithLogout`, `LogoutsAreFinal`, `SessionsOutliveTokens`,
  `RetiredTokensAreRefused`, `CookiesAreCurrent` follow.

`StrictAnswerProofs` proves, under the same assumptions as `RetrievalCacheProofs`, the
properties of StrictAnswer. Each of its steps is one of the retrieval or leaves the
retrieval alone (`AnswersRetrieve`), so that `CacheInv` stays invariant. `AnswerInv` adds what
connects an answer to it: a draft quotes chunks of the request's result
(`DraftsFollowChunks`), a refusal of the fallback kind is written only for an empty result
(`RefusalsAreMeant`), and no answer waits under a version still to come
(`AnswersNotAhead`). `AnswersAreIsolated`, `NoOutdatedAnswer`, `RefusalsAreDeserved` follow.

`RolesProofs` proves, from `RolesAssumption`, for any number of organisations, users,
documents and overlapping requests: `RolesInvariant`, `EveryMemberHasARole`,
`NobodyInheritsAccess`, `TenantsStayApart`. The inductive parts are `IdsAreIssued` (every
id anybody holds was issued), `RequestsStayInside` and `DocumentsStayInside` (what a request
has checked and what a document names belong to the organisation of the user).

`ChatsProofs` proves, from `ChatsAssumption` and `RuntimeAssumption`, for any users, chats,
requests, providers and models, any `LLM_MAX_RETRIES` and answers of any length:
`ChatInvariant`, `EveryAnswerFollowsItsQuestion`, `StoredSettingsFit`,
`UnstrictIsPermitted`, `EveryStoredAnswerWasShown`, `EveryHistoryIsPast`. `RequestInv` says what a request may
rely on at each step, `WritesInOrder` what it has written so far.

`RateLimiterProofs` proves, from `LimiterAssumption`, for any limit, burst, window, size of
the table and any delay up to the window: `LimiterInvariant`, `WindowsStayApart`,
`AtMostTwice`, `RefusalsAreEarned`. The inductive parts are `ReadingsAreFresh`,
`EntriesCount` (an entry counts what was allowed in the last window of its key) and
`DroppedIsOver` (what was dropped is over for a window, which the delay does not exceed).

`ChunkerProofs` proves, from `ChunkerAssumption`, for all documents and all sizes of chunks
and sections in which `Overlap < ParagraphMinLen <= MinLen <= ChunkSize`, as in the code:
`ChunkerInvariant`, `NothingIsLost`, `PagesAreCovered`, `OffsetsAreRight`,
`ChunksUnderTheirHeading`. The argument has three parts.

* Normalisation (`NormalizedIs`): each of the two loops over the lines of a page only drops
  and inserts runes that are no letters (`Gathered`, kept by `GatherLine`, `GatherJoined`,
  `GatherNothing`), the second leaves no two blank lines (`Sparse`), so that the text has no
  stray whitespace (`Calm`, then `Well`). What the last replacement leaves is read from the
  text at growing places (`ReadAt`), and where something was dropped stands no whitespace
  (`ReadNext`), so it is as tidy as before (`UnhyphenatedKeeps`). Pages are laid one after
  another with boundaries that name the page of every rune (`Laid`, kept by `PageLaid`).
* Paragraphs: in such a text, between two blank lines is one paragraph and its indentation
  (`ParagraphCut`). The section and the paragraphs of no section yet always follow each other
  (`Consecutive`), so the content of a section is written from the text (`Written`): it is
  the text rune by rune, but for indentation at the start of paragraphs.
* Chunks: a chunk ends after the overlap of the next one (`ChunkEndIs`), which skips no word
  unless it starts in a long token (`NextStartIs`, `WrittenToken`): `CutChunkLoses`. Pages grow
  with offsets (`PageMonotone`), and no heading begins inside a paragraph but at its start
  or after it (`SameHeading`).

What the model computes by recursion is a function `f[n]` chosen with CHOOSE; each proof
about one first shows that a solution exists (`RecursionExists`: `JoinWithIs`, `KeptLinesIs`,
`JoinedLinesIs`, `UnhyphenatedIs`, `PagingIs`), then goes by induction on the set of `n` up to which the claim
holds (`InductionTo`), which needs no theorem with an operator for a parameter.

Because the environment of RetrievalCache is KnowledgeBase, and the pipeline is proved
to implement it, these results hold with the real pipeline in its place.

Only model-checked: the liveness properties, which are out of the prover's reach, as is
anything about ENABLED. The findings are behaviours TLC found.

## Plan

1. Done: the modules, runs and proofs above, in the order KnowledgeBase, Ingestion,
   RetrievalCache, StrictAnswer, AuthSessions, Roles, LLMRuntime and Chats, Normalizer and
   Chunker, RateLimiter.
2. Titles of chats (`updateChat`, and the title taken from the first question).
3. Fusion of ranked lists (`retrieval_v2.go`), if its weights become configuration.

## Not modelled

* Ranking: variants of a query, fusion, focusing, reranking, and the grounding summary.
  They are pure functions of scores in floating point with weights tuned by hand; what
  they keep is the constant `Matches`.
* Extraction and embedding (external programs and services), `classifyChunkKind`, prompts,
  and wire formats of the LLM, reranker, search and storage clients.
* Configuration and start-up, a restart with another configuration, password hashing, and
  the seeding and evaluation tools. `seed_eval_corpus` deletes an organisation's documents
  directly; the service itself never does, and the models do not.
* The web client's view state. What its tabs do to a session is in AuthSessions.
* Unstrict answers' cache, which has the steps of the strict one without the guard and
  is off by default.
