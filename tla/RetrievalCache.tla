--------------------------- MODULE RetrievalCache ---------------------------
(***************************************************************************)
(* retrieveForChat: chat requests of one organisation read its knowledge   *)
(* base through a Redis cache that nobody invalidates.  An entry is named  *)
(* by role, kb_version and query; it disappears when it expires, or is     *)
(* left behind when kb_version moves on.                                   *)
(*                                                                         *)
(* The environment is module KnowledgeBase, which module Ingestion         *)
(* implements: between any two calls of a request documents may be hidden, *)
(* replaced, shown and announced, in the orders the pipeline allows.       *)
(***************************************************************************)
EXTENDS KnowledgeBase

CONSTANTS
  Readers,   \* chat requests that may run at a time
  Roles,     \* role ids
  Queries,   \* normalised query, mode, topK and candidateK of a request
  Allowed,   \* Allowed[d]: the allowed_role_ids of d, fixed when d is created
  Matches,   \* Matches[q]: documents that ranking, focusing and top-K keep for q
  RetrievalVersions  \* retrievalVersion of the API processes, which share the cache

ASSUME RetrievalAssumption ==
  /\ Allowed \in [Docs -> SUBSET Roles]
  /\ Matches \in [Queries -> SUBSET Docs]
  /\ RetrievalVersions \subseteq {"v1", "v2"}
  /\ Roles # {} /\ Queries # {}

VARIABLES
  cache,    \* the retrieval entries in Redis
  reader,   \* chat requests in flight
  since,    \* history: the generations of a document since the last increment
  steady    \* history: documents visible and not replaced since then

cacheVars == <<kbVars, cache, reader, since, steady>>

\* The chunks of one generation of one document.
Hits == Docs \X (Generations \cup {NoChunks})
Keys == [role : Roles, version : Nat, query : Queries]
ReaderSteps == {"idle", "version", "lookup", "retrieve", "hydrate", "store", "answer"}

CacheTypeOK ==
  /\ KBTypeOK
  /\ cache \subseteq [key : Keys, hits : SUBSET Hits]
  /\ reader \in [Readers -> [at : ReaderSteps, key : Keys, hits : SUBSET Hits]]
  /\ since \in [Docs -> SUBSET (Generations \cup {NoChunks})]
  /\ steady \subseteq Docs

\* Documents a request with this key may see and wants to see.
Relevant(k) == {d \in Matches[k.query] : k.role \in Allowed[d]}

\* No request: its key means nothing.
Idle == [at |-> "idle", hits |-> {},
         key |-> CHOOSE k \in [role : Roles, version : {0}, query : Queries] : TRUE]

CacheInit ==
  /\ KBInit
  /\ cache = {}
  /\ reader = [r \in Readers |-> Idle]
  /\ since = [d \in Docs |-> {NoChunks}]
  /\ steady = {}

-----------------------------------------------------------------------------
(* One request, in the order of retrieveForChat *)

Move(r, at) == reader' = [reader EXCEPT ![r].at = at]

MoveWith(r, at, hits) ==
  reader' = [reader EXCEPT ![r].at = at, ![r].hits = hits]

History == <<since, steady>>

\* authMiddleware has loaded the user, and with it the role.
Ask(r, role, query) ==
  /\ reader[r].at = "idle"
  /\ reader' = [reader EXCEPT ![r] =
                  [at |-> "version", hits |-> {},
                   key |-> [role |-> role, version |-> 0, query |-> query]]]
  /\ UNCHANGED <<kbVars, cache, History>>

\* GetOrganizationKBVersion, the first call: the key is built from its answer.
ReadVersion(r) ==
  /\ reader[r].at = "version"
  /\ reader' = [reader EXCEPT ![r].at = "lookup", ![r].key.version = version]
  /\ UNCHANGED <<kbVars, cache, History>>

\* Mutant: the entry is looked up without the role.
FindForAnyRole(r) ==
  /\ reader[r].at = "lookup"
  /\ \E e \in cache :
       /\ [e.key EXCEPT !.role = reader[r].key.role] = reader[r].key
       /\ MoveWith(r, "answer", e.hits)
  /\ UNCHANGED <<kbVars, cache, History>>

\* GetJSON found the entry.
Find(r) ==
  /\ reader[r].at = "lookup"
  /\ \E e \in cache :
       /\ e.key = reader[r].key
       /\ MoveWith(r, "answer", e.hits)
  /\ UNCHANGED <<kbVars, cache, History>>

\* GetJSON found nothing, or Redis failed, which is the same to the code.
Miss(r) ==
  /\ reader[r].at = "lookup"
  /\ Move(r, "retrieve")
  /\ UNCHANGED <<kbVars, cache, History>>

\* What a query of the database sees: chunks of ready documents for the role.
VisibleHits(k) == {<<d, content[d]>> : d \in Relevant(k) \cap visible}

\* v1: RetrieveChunks is one SQL statement.
RetrieveChunks(r) ==
  /\ "v1" \in RetrievalVersions
  /\ reader[r].at = "retrieve"
  /\ MoveWith(r, "store", VisibleHits(reader[r].key))
  /\ UNCHANGED <<kbVars, cache, History>>

\* Mutant: with a sparse index the dense search is left out.
CollectSparseOnly(r) ==
  /\ "v2" \in RetrievalVersions
  /\ reader[r].at = "retrieve"
  /\ \E stray \in SUBSET (Relevant(reader[r].key) \X Generations) :
       MoveWith(r, "hydrate", stray)
  /\ UNCHANGED <<kbVars, cache, History>>

\* v2: the ids of collectDenseCandidates, a query of the database, and of
\* collectSparseCandidates, a search of an index that may be ahead of it or
\* hold entries of replaced chunks.
CollectCandidates(r) ==
  /\ "v2" \in RetrievalVersions
  /\ reader[r].at = "retrieve"
  /\ \E stray \in SUBSET (Relevant(reader[r].key) \X Generations) :
       MoveWith(r, "hydrate", VisibleHits(reader[r].key) \cup stray)
  /\ UNCHANGED <<kbVars, cache, History>>

\* Mutant: candidates go into the result without a look at the database.
HydrateFromIndex(r) ==
  /\ reader[r].at = "hydrate"
  /\ Move(r, "store")
  /\ UNCHANGED <<kbVars, cache, History>>

\* v2: GetRetrievalChunksByIDs repeats the filters of status and role; ids of
\* deleted chunks find no row.
HydrateCandidates(r) ==
  /\ reader[r].at = "hydrate"
  /\ MoveWith(r, "store", reader[r].hits \cap VisibleHits(reader[r].key))
  /\ UNCHANGED <<kbVars, cache, History>>

Put(entries, k, hits) ==
  {e \in entries : e.key # k} \cup {[key |-> k, hits |-> hits]}

\* SetJSON, also of an empty result; its error is ignored.
Set(r) ==
  /\ reader[r].at = "store"
  /\ cache' \in {cache, Put(cache, reader[r].key, reader[r].hits)}
  /\ Move(r, "answer")
  /\ UNCHANGED <<kbVars, History>>

\* The request has used the chunks, or a call before has failed.
Leave(r) ==
  /\ reader[r].at # "idle"
  /\ reader' = [reader EXCEPT ![r] = Idle]
  /\ UNCHANGED <<kbVars, cache, History>>

\* The TTL of an entry has passed, or Redis has evicted it.
Expire(e) ==
  /\ e \in cache
  /\ cache' = cache \ {e}
  /\ UNCHANGED <<kbVars, reader, History>>

-----------------------------------------------------------------------------
(* The knowledge base *)

Replace(d, g) ==
  /\ Install(d, g)
  /\ since' = [since EXCEPT ![d] = @ \cup {g}]
  /\ steady' = steady \ {d}
  /\ UNCHANGED <<cache, reader>>

ShowDocument(d) ==
  /\ Show(d)
  /\ UNCHANGED <<cache, reader, History>>

HideDocument(d) ==
  /\ Hide(d)
  /\ steady' = steady \ {d}
  /\ UNCHANGED <<cache, reader, since>>

Announce ==
  /\ Bump
  /\ since' = [d \in Docs |-> {content[d]}]
  /\ steady' = visible
  /\ UNCHANGED <<cache, reader>>

-----------------------------------------------------------------------------

Retrieve(r) ==
  \/ \E role \in Roles, query \in Queries : Ask(r, role, query)
  \/ ReadVersion(r)
  \/ Find(r)
  \/ Miss(r)
  \/ RetrieveChunks(r)
  \/ CollectCandidates(r)
  \/ HydrateCandidates(r)
  \/ Set(r)

Environment ==
  \/ \E d \in Docs :
       \/ \E g \in Generations : Replace(d, g)
       \/ ShowDocument(d)
       \/ HideDocument(d)
  \/ Announce
  \/ \E e \in cache : Expire(e)

CacheNext ==
  \/ \E r \in Readers : Retrieve(r) \/ Leave(r)
  \/ Environment

CacheSpec == CacheInit /\ [][CacheNext]_cacheVars

-----------------------------------------------------------------------------
(* Properties *)

\* What requests may be handed: results of finished requests, and every
\* entry, because a request may find it.
Results ==
  cache \cup {[key |-> reader[r].key, hits |-> reader[r].hits] :
                r \in {r \in Readers : reader[r].at \in {"store", "answer"}}}

\* Nobody is handed chunks of a document the role may not read, from the
\* database or from an entry another user's request left.
RoleIsolation == \A x \in Results : \A h \in x.hits : x.key.role \in Allowed[h[1]]

Current == {x \in Results : x.key.version = version}

\* Under the current kb_version nobody is handed chunks that had been
\* replaced before kb_version got its value, although entries live for ten
\* minutes and the knowledge base moves during the retrieval.
NothingOutdated == \A x \in Current : \A h \in x.hits : h[2] \in since[h[1]]

\* Under the current kb_version a result lacks a document only if that has
\* been hidden or replaced since: an empty result cached while a document was
\* being ingested is not found any more once the document is announced.
NothingMissing ==
  \A x \in Current : \A d \in steady \cap Relevant(x.key) :
    \E h \in x.hits : h[1] = d

-----------------------------------------------------------------------------
(* The inductive invariant behind the properties *)

\* Names of entries and requests were read from the counter, which only grows:
\* no entry waits under a version that is still to come.
KeysNotAhead ==
  /\ \A e \in cache : e.key.version <= version
  /\ \A r \in Readers : reader[r].key.version <= version

\* What the database holds now counts as held since the last increment.
ContentIsRecent ==
  /\ \A d \in Docs : content[d] \in since[d]
  /\ steady \subseteq visible

\* The ids collected under the current kb_version include the present chunks
\* of every document that has not changed since, so hydration keeps them.
CandidatesCover ==
  \A r \in Readers :
    reader[r].at = "hydrate" /\ reader[r].key.version = version =>
      \A d \in steady \cap Relevant(reader[r].key) : <<d, content[d]>> \in reader[r].hits

CacheInv ==
  /\ CacheTypeOK
  /\ KeysNotAhead
  /\ ContentIsRecent
  /\ CandidatesCover
  /\ RoleIsolation
  /\ NothingOutdated
  /\ NothingMissing
=============================================================================
