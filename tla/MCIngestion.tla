---------------------------- MODULE MCIngestion ----------------------------
(* Instances of the ingestion pipeline for TLC. *)
EXTENDS Ingestion, TLC

\* The liveness properties tell the actors apart: only the safety runs
\* permute them.
Symmetry == Permutations(Tasks) \cup Permutations(Requests) \cup Permutations(Docs)
=============================================================================
