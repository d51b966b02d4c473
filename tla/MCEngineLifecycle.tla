-------------------------- MODULE MCEngineLifecycle --------------------------
(***************************************************************************)
(* Model checking EngineLifecycle: three calls of start and stop, which is *)
(* enough for a stop to overlap two starts, and one connection.            *)
(***************************************************************************)
EXTENDS EngineLifecycle, TLC

\* A run is named by a call, so the set of calls stands for both.
Symmetry == Permutations(Calls)

=============================================================================
