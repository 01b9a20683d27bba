------------------------------ MODULE MCRoles ------------------------------
(* An instance of the roles for TLC. *)
EXTENDS Roles, TLC

\* Two organisations take the ids 1 to 8; one role more may be created.
Ids == 1..9
Some == {{}, {ManageRoles, ManageUsers}}
Lists == {{4}, {8}, {4, 9}}

Symmetry == Permutations(Orgs) \cup Permutations(Users) \cup Permutations(Requests)
=============================================================================
