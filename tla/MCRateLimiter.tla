--------------------------- MODULE MCRateLimiter ---------------------------
(* An instance of the rate limiter for TLC. *)
EXTENDS RateLimiter, TLC

\* bound: when the clock stops
CONSTANT MaxTime

TimeBound == clock =< MaxTime

Symmetry == Permutations(Keys) \cup Permutations(Requests)
=============================================================================
