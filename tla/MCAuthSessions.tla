--------------------------- MODULE MCAuthSessions ---------------------------
(* Instances of the sign-in sessions for TLC. *)
EXTENDS AuthSessions, TLC

CONSTANTS s1, s2, u1, r1, r2, b1

\* Two tabs of one browser.
OneBrowser == [r \in Requests |-> b1]

Symmetry == Permutations(Sessions) \cup Permutations(Users) \cup Permutations(Requests)
=============================================================================
