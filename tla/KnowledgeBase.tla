--------------------------- MODULE KnowledgeBase ---------------------------
(***************************************************************************)
(* What the rest of the system may assume about one organisation's         *)
(* knowledge base, whatever the workers, the queue and the API do to it:   *)
(*                                                                         *)
(*   - the chunks of a document are installed as one generation and are    *)
(*     replaced only by another whole generation;                          *)
(*   - a document is offered to retrieval only once it has a generation;   *)
(*   - organizations.kb_version moves by one at a time, and a move         *)
(*     announces every generation installed so far.                        *)
(*                                                                         *)
(* Module Ingestion implements this specification; the modules about the   *)
(* caches take it as their environment.                                    *)
(***************************************************************************)
EXTENDS Naturals

CONSTANTS
  Docs,         \* the documents of the organisation
  Generations,  \* identities of committed chunk sets
  NoChunks      \* the document has no rows in document_chunks

ASSUME NoChunksAssumption == NoChunks \notin Generations

VARIABLES
  content,    \* content[d]: the generation in document_chunks, or NoChunks
  visible,    \* the documents whose row says status = 'ready'
  version,    \* organizations.kb_version
  announced   \* content at the last increment of kb_version

kbVars == <<content, visible, version, announced>>

KBTypeOK ==
  /\ content \in [Docs -> Generations \cup {NoChunks}]
  /\ visible \in SUBSET Docs
  /\ version \in Nat
  /\ announced \in [Docs -> Generations \cup {NoChunks}]

KBInit ==
  /\ content = [d \in Docs |-> NoChunks]
  /\ visible = {}
  /\ version = 0
  /\ announced = content

\* A new generation of d replaces the current one, in one transaction.
Install(d, g) ==
  /\ g # content[d]
  /\ content' = [content EXCEPT ![d] = g]
  /\ UNCHANGED <<visible, version, announced>>

\* The row of d becomes 'ready': retrieval may read its chunks.
Show(d) ==
  /\ content[d] # NoChunks
  /\ visible' = visible \cup {d}
  /\ UNCHANGED <<content, version, announced>>

\* The row of d takes any other status: retrieval ignores its chunks.
Hide(d) ==
  /\ visible' = visible \ {d}
  /\ UNCHANGED <<content, version, announced>>

\* kb_version is incremented.
Bump ==
  /\ version' = version + 1
  /\ announced' = content
  /\ UNCHANGED <<content, visible>>

KBNext ==
  \/ \E d \in Docs :
       \/ \E g \in Generations : Install(d, g)
       \/ Show(d)
       \/ Hide(d)
  \/ Bump

KBSpec == KBInit /\ [][KBNext]_kbVars
=============================================================================
