--------------------------- MODULE MCOpenPassword ---------------------------
(***************************************************************************)
(* OpenPassword on a small instance: one call after another, with all      *)
(* three attempts, over three sessions that come and go in a store with    *)
(* room for one, beside the app and the sweeper.  The deadlines keep their *)
(* order: TransientTtl < RememberedTtl < SessionTtl.  There are liveness   *)
(* properties, so nothing is taken up to permutation.                      *)
(***************************************************************************)
EXTENDS OpenPassword

=============================================================================
