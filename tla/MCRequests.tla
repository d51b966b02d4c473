----------------------------- MODULE MCRequests -----------------------------
(***************************************************************************)
(* Model checking Requests: two sites that use one process identifier,     *)
(* four requests, turnstiles and consents always over their limits.        *)
(***************************************************************************)
EXTENDS Requests, TLC

Symmetry == Permutations(Calls) \cup Permutations(Sites)

=============================================================================
