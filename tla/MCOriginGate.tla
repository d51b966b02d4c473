---------------------------- MODULE MCOriginGate ----------------------------
(***************************************************************************)
(* Model checking OriginGate: two origins of one domain and one of         *)
(* another, two calls with a forget_site and a restart, and turnstiles     *)
(* that are always over their limit.                                       *)
(***************************************************************************)
EXTENDS OriginGate, TLC

CONSTANTS https, http, other, d1, d2

MCDomainOf == (https :> d1) @@ (http :> d1) @@ (other :> d2)

\* A turnstile is named by a call, so the set of calls stands for both.
Symmetry == Permutations(Calls)

=============================================================================
