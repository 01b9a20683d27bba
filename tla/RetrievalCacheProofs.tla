------------------------ MODULE RetrievalCacheProofs ------------------------
(***************************************************************************)
(* Machine-checked proofs about module RetrievalCache, for any number of   *)
(* documents, roles, queries, requests and increments of kb_version, and   *)
(* for both retrievers.                                                    *)
(*                                                                         *)
(* A result is handed out long after the database was read, so the         *)
(* properties are carried by two facts about a step: which results it      *)
(* makes (ResultStep), and what it does to the knowledge base while        *)
(* kb_version stands still (WhileVersionStands).                           *)
(***************************************************************************)
EXTENDS RetrievalCache, TLAPS

USE DEF History

\* The step of one request or of the environment.
LEMMA CacheStepCases ==
  ASSUME [CacheNext]_cacheVars
  PROVE  \/ UNCHANGED cacheVars
         \/ \E r \in Readers, role \in Roles, query \in Queries : Ask(r, role, query)
         \/ \E r \in Readers :
              \/ ReadVersion(r) \/ Find(r) \/ Miss(r) \/ RetrieveChunks(r)
              \/ CollectCandidates(r) \/ HydrateCandidates(r) \/ Set(r) \/ Leave(r)
         \/ \E d \in Docs, g \in Generations : Replace(d, g)
         \/ \E d \in Docs : ShowDocument(d) \/ HideDocument(d)
         \/ Announce
         \/ \E e \in cache : Expire(e)
  BY DEF CacheNext, Retrieve, Environment

\* The state of a reader without a request is well-typed.
LEMMA IdleType == Idle \in [at : ReaderSteps, key : Keys, hits : SUBSET Hits]
<1> DEFINE First == [role : Roles, version : {0}, query : Queries]
<1>1. First # {}
  <2>1. PICK role \in Roles, query \in Queries : TRUE
    BY RetrievalAssumption
  <2>2. [role |-> role, version |-> 0, query |-> query] \in First
    OBVIOUS
  <2> QED
    BY <2>2
<1>2. (CHOOSE k \in First : TRUE) \in First
  BY <1>1
<1>3. First \subseteq Keys
  BY DEF Keys
<1> QED
  BY <1>2, <1>3 DEF Idle, ReaderSteps

LEMMA IdleVersion == Idle.key.version = 0
<1>1. PICK role \in Roles, query \in Queries : TRUE
  BY RetrievalAssumption
<1>2. [role |-> role, version |-> 0, query |-> query]
         \in [role : Roles, version : {0}, query : Queries]
  OBVIOUS
<1> QED
  BY <1>2 DEF Idle

\* Initially there are no entries, no requests and no documents.
LEMMA InitEstablishesCacheInv == CacheInit => CacheInv
<1> SUFFICES ASSUME CacheInit PROVE CacheInv
  OBVIOUS
<1> USE DEF CacheInit, KBInit
<1>1. CacheTypeOK
  BY IdleType DEF CacheTypeOK, KBTypeOK
<1>2. \A r \in Readers : reader[r].at = "idle" /\ reader[r].key.version = 0
  BY IdleVersion DEF Idle
<1>3. Results = {}
  BY <1>2 DEF Results
<1> QED
  BY <1>1, <1>2, <1>3
     DEF CacheInv, KeysNotAhead, ContentIsRecent, CandidatesCover,
         RoleIsolation, NothingOutdated, NothingMissing, Current

\* What a query of the database returns is made of chunks.
LEMMA VisibleHitsType ==
  ASSUME CacheTypeOK, NEW k \in Keys
  PROVE  VisibleHits(k) \subseteq Hits
  BY RetrievalAssumption DEF CacheTypeOK, KBTypeOK, VisibleHits, Relevant, Hits, Keys

LEMMA MoveType ==
  ASSUME CacheTypeOK, NEW r \in Readers, NEW at \in ReaderSteps,
         NEW hits \in SUBSET Hits, MoveWith(r, at, hits)
  PROVE  reader' \in [Readers -> [at : ReaderSteps, key : Keys, hits : SUBSET Hits]]
  BY DEF CacheTypeOK, MoveWith

LEMMA CacheTypeStep ==
  ASSUME CacheTypeOK, [CacheNext]_cacheVars
  PROVE  CacheTypeOK'
<1> USE DEF CacheTypeOK, KBTypeOK, ReaderSteps, kbVars
<1>1. CASE UNCHANGED cacheVars
  BY <1>1 DEF cacheVars
<1>2. ASSUME NEW r \in Readers, NEW role \in Roles, NEW query \in Queries,
             Ask(r, role, query)
      PROVE  CacheTypeOK'
  <2>1. [role |-> role, version |-> 0, query |-> query] \in Keys
    BY DEF Keys
  <2> QED
    BY <1>2, <2>1 DEF Ask
<1>3. ASSUME NEW r \in Readers, ReadVersion(r)
      PROVE  CacheTypeOK'
  <2>1. reader[r].key \in Keys
    OBVIOUS
  <2>2. [reader[r].key EXCEPT !.version = version] \in Keys
    BY <2>1 DEF Keys
  <2>3. reader' = [reader EXCEPT ![r] =
                    [@ EXCEPT !.at = "lookup",
                              !.key = [reader[r].key EXCEPT !.version = version]]]
    BY <1>3 DEF ReadVersion
  <2> QED
    BY <1>3, <2>2, <2>3 DEF ReadVersion
<1>4. ASSUME NEW r \in Readers, Find(r) \/ Miss(r)
      PROVE  CacheTypeOK'
  BY <1>4 DEF Find, Miss, Move, MoveWith
<1>5. ASSUME NEW r \in Readers, RetrieveChunks(r) \/ HydrateCandidates(r)
      PROVE  CacheTypeOK'
  <2>1. reader[r].key \in Keys
    OBVIOUS
  <2>2. VisibleHits(reader[r].key) \subseteq Hits
    BY <2>1, VisibleHitsType
  <2> QED
    BY <1>5, <2>2 DEF RetrieveChunks, HydrateCandidates, MoveWith
<1>6. ASSUME NEW r \in Readers, CollectCandidates(r)
      PROVE  CacheTypeOK'
  <2>1. reader[r].key \in Keys
    OBVIOUS
  <2>2. VisibleHits(reader[r].key) \subseteq Hits
    BY <2>1, VisibleHitsType
  <2>3. Relevant(reader[r].key) \X Generations \subseteq Hits
    BY <2>1, RetrievalAssumption DEF Relevant, Hits, Keys
  <2>4. PICK stray \in SUBSET (Relevant(reader[r].key) \X Generations) :
          MoveWith(r, "hydrate", VisibleHits(reader[r].key) \cup stray)
    BY <1>6 DEF CollectCandidates
  <2>5. VisibleHits(reader[r].key) \cup stray \subseteq Hits
    BY <2>2, <2>3
  <2>6. reader' \in [Readers -> [at : ReaderSteps, key : Keys, hits : SUBSET Hits]]
    BY <2>4, <2>5, MoveType
  <2> QED
    BY <1>6, <2>6 DEF CollectCandidates
<1>7. ASSUME NEW r \in Readers, Set(r)
      PROVE  CacheTypeOK'
  BY <1>7 DEF Set, Put, Move
<1>8. ASSUME NEW r \in Readers, Leave(r)
      PROVE  CacheTypeOK'
  BY <1>8, IdleType DEF Leave
<1>9. ASSUME NEW d \in Docs, NEW g \in Generations, Replace(d, g)
      PROVE  CacheTypeOK'
  BY <1>9 DEF Replace, Install
<1>10. ASSUME NEW d \in Docs, ShowDocument(d) \/ HideDocument(d)
       PROVE  CacheTypeOK'
  BY <1>10 DEF ShowDocument, HideDocument, Show, Hide
<1>11. CASE Announce
  BY <1>11 DEF Announce, Bump
<1>12. ASSUME NEW e \in cache, Expire(e)
       PROVE  CacheTypeOK'
  BY <1>12 DEF Expire
<1> QED
  BY <1>1, <1>2, <1>3, <1>4, <1>5, <1>6, <1>7, <1>8, <1>9, <1>10, <1>11, <1>12,
     CacheStepCases

\* What a request's step leaves alone, and what it does to the cache.
LEMMA RequestFrame ==
  ASSUME CacheTypeOK, NEW r \in Readers,
         (\E role \in Roles, query \in Queries : Ask(r, role, query)) \/ ReadVersion(r)
         \/ Find(r) \/ Miss(r) \/ RetrieveChunks(r) \/ CollectCandidates(r)
         \/ HydrateCandidates(r) \/ Set(r) \/ Leave(r)
  PROVE  /\ UNCHANGED <<content, visible, version, since, steady>>
         /\ \A s \in Readers \ {r} : reader'[s] = reader[s]
         /\ cache' \subseteq cache \cup {[key |-> reader[r].key, hits |-> reader[r].hits]}
         /\ \/ reader'[r].key = reader[r].key
            \/ reader'[r].key.version \in {0, version}
<1> USE DEF kbVars, CacheTypeOK
<1>1. ASSUME NEW role \in Roles, NEW query \in Queries, Ask(r, role, query)
      PROVE  reader'[r].key.version = 0
  BY <1>1 DEF Ask
<1>2. ASSUME ReadVersion(r)
      PROVE  reader'[r].key.version = version
  BY <1>2 DEF ReadVersion, Keys
<1>3. ASSUME Find(r) \/ Miss(r) \/ RetrieveChunks(r) \/ CollectCandidates(r)
             \/ HydrateCandidates(r) \/ Set(r)
      PROVE  reader'[r].key = reader[r].key
  BY <1>3 DEF Find, Miss, RetrieveChunks, CollectCandidates, HydrateCandidates, Set,
              Move, MoveWith
<1>4. ASSUME Leave(r)
      PROVE  reader'[r].key.version = 0
  BY <1>4, IdleVersion DEF Leave
<1>5. UNCHANGED <<content, visible, version, since, steady>>
  BY DEF Ask, ReadVersion, Find, Miss, RetrieveChunks, CollectCandidates,
         HydrateCandidates, Set, Leave
<1>6. \A s \in Readers \ {r} : reader'[s] = reader[s]
  BY DEF Ask, ReadVersion, Find, Miss, RetrieveChunks, CollectCandidates,
         HydrateCandidates, Set, Leave, Move, MoveWith
<1>7. cache' \subseteq cache \cup {[key |-> reader[r].key, hits |-> reader[r].hits]}
  BY DEF Ask, ReadVersion, Find, Miss, RetrieveChunks, CollectCandidates,
         HydrateCandidates, Set, Put, Leave
<1> QED
  BY <1>1, <1>2, <1>3, <1>4, <1>5, <1>6, <1>7

\* The environment leaves requests alone and adds nothing to the cache; only
\* Announce moves kb_version.
LEMMA EnvironmentFrame ==
  ASSUME CacheTypeOK, Environment
  PROVE  /\ UNCHANGED reader
         /\ cache' \subseteq cache
         /\ \/ Announce /\ version' = version + 1
            \/ version' = version
  BY DEF Environment, Replace, Install, ShowDocument, Show, HideDocument, Hide,
         Announce, Bump, Expire, kbVars

\* Every step is one of these.
LEMMA CacheSteps ==
  ASSUME [CacheNext]_cacheVars
  PROVE  \/ UNCHANGED cacheVars
         \/ Environment
         \/ \E r \in Readers :
              (\E role \in Roles, query \in Queries : Ask(r, role, query)) \/ ReadVersion(r)
              \/ Find(r) \/ Miss(r) \/ RetrieveChunks(r) \/ CollectCandidates(r)
              \/ HydrateCandidates(r) \/ Set(r) \/ Leave(r)
  BY DEF CacheNext, Retrieve

\* Only Announce moves kb_version.
LEMMA VersionStep ==
  ASSUME CacheTypeOK, [CacheNext]_cacheVars
  PROVE  \/ Announce /\ version' = version + 1
         \/ version' = version
  BY CacheSteps, RequestFrame, EnvironmentFrame DEF cacheVars, kbVars

LEMMA KeysStep ==
  ASSUME CacheInv, [CacheNext]_cacheVars
  PROVE  KeysNotAhead'
<1> USE DEF CacheInv, KeysNotAhead
<1>0. version \in Nat /\ version' \in Nat /\ version <= version'
  BY VersionStep DEF CacheTypeOK, KBTypeOK
<1>1. \A e \in cache : e.key.version \in Nat
  BY DEF CacheTypeOK, Keys
<1>2. \A r \in Readers : reader[r].key.version \in Nat
  BY DEF CacheTypeOK, Keys
<1>3. CASE UNCHANGED cacheVars
  BY <1>3 DEF cacheVars, kbVars
<1>4. CASE Environment
  BY <1>4, <1>0, <1>1, <1>2, EnvironmentFrame
<1>5. ASSUME NEW r \in Readers,
             (\E role \in Roles, query \in Queries : Ask(r, role, query)) \/ ReadVersion(r)
             \/ Find(r) \/ Miss(r) \/ RetrieveChunks(r) \/ CollectCandidates(r)
             \/ HydrateCandidates(r) \/ Set(r) \/ Leave(r)
      PROVE  KeysNotAhead'
  <2>1. /\ version' = version
        /\ \A s \in Readers \ {r} : reader'[s] = reader[s]
        /\ cache' \subseteq cache \cup {[key |-> reader[r].key, hits |-> reader[r].hits]}
        /\ \/ reader'[r].key = reader[r].key
           \/ reader'[r].key.version \in {0, version}
    BY <1>5, RequestFrame
  <2> QED
    BY <2>1, <1>0, <1>2
<1> QED
  BY <1>3, <1>4, <1>5, CacheSteps

\* While kb_version stands still, the generations held since its increment
\* only grow, and a steady document has neither left nor changed.
LEMMA WhileVersionStands ==
  ASSUME CacheTypeOK, [CacheNext]_cacheVars, ~Announce
  PROVE  /\ \A d \in Docs : since[d] \subseteq since'[d]
         /\ steady' \subseteq steady
         /\ \A d \in steady' : content'[d] = content[d]
<1> USE DEF CacheTypeOK, KBTypeOK
<1>1. CASE UNCHANGED cacheVars
  BY <1>1 DEF cacheVars, kbVars
<1>2. ASSUME NEW d \in Docs, NEW g \in Generations, Replace(d, g)
      PROVE  /\ \A e \in Docs : since[e] \subseteq since'[e]
             /\ steady' \subseteq steady
             /\ \A e \in steady' : content'[e] = content[e]
  BY <1>2 DEF Replace, Install
<1>3. ASSUME NEW d \in Docs, ShowDocument(d) \/ HideDocument(d)
      PROVE  /\ UNCHANGED <<since, content>>
             /\ steady' \subseteq steady
  BY <1>3 DEF ShowDocument, Show, HideDocument, Hide
<1>4. ASSUME NEW e \in cache, Expire(e)
      PROVE  UNCHANGED <<since, steady, content>>
  BY <1>4 DEF Expire, kbVars
<1>5. CASE Environment
  BY <1>2, <1>3, <1>4, <1>5 DEF Environment
<1> QED
  BY <1>1, <1>5, CacheSteps, RequestFrame

LEMMA ContentStep ==
  ASSUME CacheInv, [CacheNext]_cacheVars
  PROVE  ContentIsRecent'
<1> USE DEF CacheInv, ContentIsRecent, CacheTypeOK, KBTypeOK
<1>1. CASE UNCHANGED cacheVars
  BY <1>1 DEF cacheVars, kbVars
<1>2. ASSUME NEW d \in Docs, NEW g \in Generations, Replace(d, g)
      PROVE  ContentIsRecent'
  BY <1>2 DEF Replace, Install
<1>3. ASSUME NEW d \in Docs, ShowDocument(d) \/ HideDocument(d)
      PROVE  ContentIsRecent'
  BY <1>3 DEF ShowDocument, Show, HideDocument, Hide
<1>4. CASE Announce
  BY <1>4 DEF Announce, Bump
<1>5. ASSUME NEW e \in cache, Expire(e)
      PROVE  ContentIsRecent'
  BY <1>5 DEF Expire, kbVars
<1>6. CASE Environment
  BY <1>2, <1>3, <1>4, <1>5, <1>6 DEF Environment
<1> QED
  BY <1>1, <1>6, CacheSteps, RequestFrame

\* A step makes a result only by reading the database; every other result has
\* been there before, under the same name.
LEMMA ResultStep ==
  ASSUME CacheInv, [CacheNext]_cacheVars, NEW x \in Results'
  PROVE  \/ x \in Results
         \/ \E r \in Readers :
              /\ RetrieveChunks(r)
              /\ x = [key |-> reader[r].key, hits |-> VisibleHits(reader[r].key)]
         \/ \E r \in Readers :
              /\ HydrateCandidates(r)
              /\ x = [key |-> reader[r].key,
                      hits |-> reader[r].hits \cap VisibleHits(reader[r].key)]
<1> USE DEF CacheInv
<1>1. CASE UNCHANGED cacheVars
  BY <1>1 DEF cacheVars, Results
<1>2. CASE Environment
  BY <1>2, EnvironmentFrame DEF Results
<1>3. ASSUME NEW r \in Readers,
             (\E role \in Roles, query \in Queries : Ask(r, role, query)) \/ ReadVersion(r)
             \/ Miss(r) \/ CollectCandidates(r) \/ Leave(r)
      PROVE  x \in Results
  <2>1. cache' = cache
    BY <1>3 DEF Ask, ReadVersion, Miss, CollectCandidates, Leave
  <2>2. \A s \in Readers \ {r} : reader'[s] = reader[s]
    BY <1>3, RequestFrame
  <2>3. reader'[r].at \notin {"store", "answer"}
    BY <1>3 DEF Ask, ReadVersion, Miss, CollectCandidates, Leave, Move, MoveWith,
                Idle, CacheTypeOK
  <2> QED
    BY <2>1, <2>2, <2>3 DEF Results
<1>4. ASSUME NEW r \in Readers, Find(r)
      PROVE  x \in Results
  <2>1. PICK e \in cache : e.key = reader[r].key /\ MoveWith(r, "answer", e.hits)
    BY <1>4 DEF Find
  <2>2. cache' = cache /\ \A s \in Readers \ {r} : reader'[s] = reader[s]
    BY <1>4, RequestFrame DEF Find
  <2>3. e = [key |-> reader'[r].key, hits |-> reader'[r].hits]
    BY <2>1 DEF MoveWith, CacheTypeOK
  <2> QED
    BY <2>1, <2>2, <2>3 DEF Results
<1>5. ASSUME NEW r \in Readers, Set(r)
      PROVE  x \in Results
  <2>1. /\ cache' \subseteq cache \cup {[key |-> reader[r].key, hits |-> reader[r].hits]}
        /\ \A s \in Readers \ {r} : reader'[s] = reader[s]
    BY <1>5, RequestFrame
  <2>2. reader[r].at = "store" /\ reader'[r].key = reader[r].key
        /\ reader'[r].hits = reader[r].hits
    BY <1>5 DEF Set, Move, CacheTypeOK
  <2> QED
    BY <2>1, <2>2 DEF Results
<1>6. ASSUME NEW r \in Readers, RetrieveChunks(r)
      PROVE  \/ x \in Results
             \/ x = [key |-> reader[r].key, hits |-> VisibleHits(reader[r].key)]
  <2>1. cache' = cache /\ \A s \in Readers \ {r} : reader'[s] = reader[s]
    BY <1>6, RequestFrame DEF RetrieveChunks
  <2>2. /\ reader'[r].key = reader[r].key
        /\ reader'[r].hits = VisibleHits(reader[r].key)
    BY <1>6 DEF RetrieveChunks, MoveWith, CacheTypeOK
  <2> QED
    BY <2>1, <2>2 DEF Results
<1>7. ASSUME NEW r \in Readers, HydrateCandidates(r)
      PROVE  \/ x \in Results
             \/ x = [key |-> reader[r].key,
                     hits |-> reader[r].hits \cap VisibleHits(reader[r].key)]
  <2>1. cache' = cache /\ \A s \in Readers \ {r} : reader'[s] = reader[s]
    BY <1>7, RequestFrame DEF HydrateCandidates
  <2>2. /\ reader'[r].key = reader[r].key
        /\ reader'[r].hits = reader[r].hits \cap VisibleHits(reader[r].key)
    BY <1>7 DEF HydrateCandidates, MoveWith, CacheTypeOK
  <2> QED
    BY <2>1, <2>2 DEF Results
<1> QED
  BY <1>1, <1>2, <1>3, <1>4, <1>5, <1>6, <1>7, CacheSteps

LEMMA IsolationStep ==
  ASSUME CacheInv, [CacheNext]_cacheVars
  PROVE  RoleIsolation'
<1> SUFFICES ASSUME NEW x \in Results', NEW h \in x.hits
             PROVE  x.key.role \in Allowed[h[1]]
  BY DEF RoleIsolation
<1>1. CASE x \in Results
  BY <1>1 DEF CacheInv, RoleIsolation
<1>2. ASSUME NEW r \in Readers, x.key = reader[r].key, h \in VisibleHits(reader[r].key)
      PROVE  x.key.role \in Allowed[h[1]]
  BY <1>2 DEF VisibleHits, Relevant
<1> QED
  BY <1>1, <1>2, ResultStep

\* No result waits under a version that is still to come.
LEMMA ResultsNotAhead ==
  ASSUME CacheInv, NEW x \in Results
  PROVE  /\ x.key.version \in Nat
         /\ x.key.version <= version
         /\ x.hits \subseteq Hits
  BY DEF CacheInv, CacheTypeOK, KeysNotAhead, Results, Keys

LEMMA NothingOutdatedStep ==
  ASSUME CacheInv, [CacheNext]_cacheVars
  PROVE  NothingOutdated'
<1> SUFFICES ASSUME NEW x \in Results', x.key.version = version', NEW h \in x.hits
             PROVE  h[2] \in since'[h[1]]
  BY DEF NothingOutdated, Current
<1> USE DEF CacheInv
<1>1. CASE x \in Results
  <2>1. version \in Nat /\ x.key.version <= version /\ h \in Hits
    BY <1>1, ResultsNotAhead DEF CacheTypeOK, KBTypeOK
  <2>2. ~Announce /\ version' = version
    BY <2>1, VersionStep DEF Announce, Bump
  <2>3. h[1] \in Docs /\ h[2] \in since[h[1]]
    BY <1>1, <2>1, <2>2 DEF NothingOutdated, Current, Hits
  <2> QED
    BY <2>2, <2>3, WhileVersionStands
<1>2. ASSUME NEW r \in Readers, RetrieveChunks(r) \/ HydrateCandidates(r),
             h \in VisibleHits(reader[r].key)
      PROVE  h[2] \in since'[h[1]]
  <2>1. since' = since
    BY <1>2, RequestFrame
  <2>2. reader[r].key.query \in Queries
    BY DEF CacheTypeOK, Keys
  <2>3. h[1] \in Docs /\ h[2] = content[h[1]]
    BY <1>2, <2>2, RetrievalAssumption DEF VisibleHits, Relevant
  <2> QED
    BY <2>1, <2>3 DEF ContentIsRecent
<1> QED
  BY <1>1, <1>2, ResultStep

LEMMA NothingMissingStep ==
  ASSUME CacheInv, [CacheNext]_cacheVars
  PROVE  NothingMissing'
<1> SUFFICES ASSUME NEW x \in Results', x.key.version = version',
                    NEW d \in steady' \cap Relevant(x.key)
             PROVE  \E h \in x.hits : h[1] = d
  BY DEF NothingMissing, Current, Relevant
<1> USE DEF CacheInv
<1>1. CASE x \in Results
  <2>1. version \in Nat /\ x.key.version <= version
    BY <1>1, ResultsNotAhead DEF CacheTypeOK, KBTypeOK
  <2>2. ~Announce /\ version' = version
    BY <2>1, VersionStep DEF Announce, Bump
  <2>3. d \in steady
    BY <2>2, WhileVersionStands
  <2> QED
    BY <1>1, <2>2, <2>3 DEF NothingMissing, Current
<1>2. ASSUME NEW r \in Readers, RetrieveChunks(r) \/ HydrateCandidates(r),
             x.key = reader[r].key
      PROVE  /\ <<d, content[d]>> \in VisibleHits(x.key)
             /\ HydrateCandidates(r) => <<d, content[d]>> \in reader[r].hits
  <2>1. version' = version /\ steady' = steady
    BY <1>2, RequestFrame
  <2>2. d \in visible
    BY <2>1 DEF ContentIsRecent
  <2>3. HydrateCandidates(r) => <<d, content[d]>> \in reader[r].hits
    BY <1>2, <2>1 DEF HydrateCandidates, CandidatesCover
  <2> QED
    BY <2>2, <2>3 DEF VisibleHits
<1>3. ASSUME NEW r \in Readers, RetrieveChunks(r),
             x = [key |-> reader[r].key, hits |-> VisibleHits(reader[r].key)]
      PROVE  <<d, content[d]>> \in x.hits
  BY <1>2, <1>3
<1>4. ASSUME NEW r \in Readers, HydrateCandidates(r),
             x = [key |-> reader[r].key,
                  hits |-> reader[r].hits \cap VisibleHits(reader[r].key)]
      PROVE  <<d, content[d]>> \in x.hits
  BY <1>2, <1>4
<1>5. <<d, content[d]>>[1] = d
  OBVIOUS
<1> QED
  BY <1>1, <1>3, <1>4, <1>5, ResultStep

LEMMA CandidatesStep ==
  ASSUME CacheInv, [CacheNext]_cacheVars
  PROVE  CandidatesCover'
<1> SUFFICES ASSUME NEW r \in Readers, reader'[r].at = "hydrate",
                    reader'[r].key.version = version',
                    NEW d \in steady' \cap Relevant(reader'[r].key)
             PROVE  <<d, content'[d]>> \in reader'[r].hits
  BY DEF CandidatesCover, Relevant
<1> USE DEF CacheInv
<1>1. version \in Nat /\ reader[r].key.version \in Nat /\ reader[r].key.version <= version
  BY DEF CacheTypeOK, KBTypeOK, KeysNotAhead, Keys
<1>2. CASE reader'[r] = reader[r]
  <2>1. ~Announce /\ version' = version
    BY <1>1, <1>2, VersionStep DEF Announce, Bump
  <2>2. d \in steady /\ content'[d] = content[d]
    BY <2>1, WhileVersionStands
  <2> QED
    BY <1>2, <2>1, <2>2 DEF CandidatesCover
<1>3. CASE CollectCandidates(r)
  <2>1. version' = version /\ steady' = steady /\ content' = content
    BY <1>3, RequestFrame
  <2>2. /\ reader'[r].key = reader[r].key
        /\ VisibleHits(reader[r].key) \subseteq reader'[r].hits
    BY <1>3 DEF CollectCandidates, MoveWith, CacheTypeOK
  <2>3. d \in visible
    BY <2>1 DEF ContentIsRecent
  <2> QED
    BY <2>1, <2>2, <2>3 DEF VisibleHits
<1>4. ASSUME (\E role \in Roles, query \in Queries : Ask(r, role, query)) \/ ReadVersion(r)
             \/ Find(r) \/ Miss(r) \/ RetrieveChunks(r) \/ HydrateCandidates(r)
             \/ Set(r) \/ Leave(r)
      PROVE  FALSE
  BY <1>4 DEF Ask, ReadVersion, Find, Miss, RetrieveChunks, HydrateCandidates, Set,
              Leave, Move, MoveWith, Idle, CacheTypeOK
<1>5. CASE UNCHANGED cacheVars \/ Environment
  BY <1>2, <1>5, EnvironmentFrame DEF cacheVars
<1>6. ASSUME NEW s \in Readers \ {r},
             (\E role \in Roles, query \in Queries : Ask(s, role, query)) \/ ReadVersion(s)
             \/ Find(s) \/ Miss(s) \/ RetrieveChunks(s) \/ CollectCandidates(s)
             \/ HydrateCandidates(s) \/ Set(s) \/ Leave(s)
      PROVE  reader'[r] = reader[r]
  BY <1>6, RequestFrame
<1> QED
  BY <1>2, <1>3, <1>4, <1>5, <1>6, CacheSteps

\* CacheInv is inductive.
THEOREM RetrievalInvariant == CacheSpec => []CacheInv
<1>1. CacheInit => CacheInv
  BY InitEstablishesCacheInv
<1>2. CacheInv /\ [CacheNext]_cacheVars => CacheInv'
  <2> SUFFICES ASSUME CacheInv, [CacheNext]_cacheVars PROVE CacheInv'
    OBVIOUS
  <2>1. CacheTypeOK' /\ KeysNotAhead' /\ ContentIsRecent'
    BY CacheTypeStep, KeysStep, ContentStep DEF CacheInv
  <2>2. CandidatesCover' /\ RoleIsolation' /\ NothingOutdated' /\ NothingMissing'
    BY CandidatesStep, IsolationStep, NothingOutdatedStep, NothingMissingStep
  <2> QED
    BY <2>1, <2>2 DEF CacheInv
<1> QED
  BY <1>1, <1>2, PTL DEF CacheSpec

\* The key's role, and the filters of both retrievers, keep every result inside
\* what the role may read.
THEOREM RolesAreIsolated == CacheSpec => []RoleIsolation
  BY RetrievalInvariant, PTL DEF CacheInv

\* Reading kb_version before the database makes the key old enough: no result
\* under the current version was outdated when the version got its value.
THEOREM NoOutdatedResult == CacheSpec => []NothingOutdated
  BY RetrievalInvariant, PTL DEF CacheInv

\* Nor does a result under the current version lack a document that has been
\* there since.
THEOREM NoMissingDocument == CacheSpec => []NothingMissing
  BY RetrievalInvariant, PTL DEF CacheInv
=============================================================================
