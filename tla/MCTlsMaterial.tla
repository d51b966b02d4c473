---------------------------- MODULE MCTlsMaterial ----------------------------
(* Two processes of one data directory, one fault.                         *)
EXTENDS TlsMaterial
=============================================================================
