--------------------------- MODULE MCStrictAnswer ---------------------------
(* Instances of the strict answers for TLC. *)
EXTENDS StrictAnswer, TLC

CONSTANTS MaxVersion, ra

\* Every document may be read by ra only; the queries are about everything.
AllowedRoles == [d \in Docs |-> {ra}]
EveryDocument == [q \in Queries |-> Docs]

VersionBound == version <= MaxVersion

Symmetry == Permutations(Readers) \cup Permutations(Generations)
=============================================================================
