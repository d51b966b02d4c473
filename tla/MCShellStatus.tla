---------------------------- MODULE MCShellStatus ----------------------------
(***************************************************************************)
(* Model checking ShellStatus: one launch, one quit at any moment, and one *)
(* connection.                                                             *)
(***************************************************************************)
EXTENDS ShellStatus

CONSTANTS launchCall, quitCall

=============================================================================
