----------------------------- MODULE MCUiPanels -----------------------------
(***************************************************************************)
(* Model checking UiPanels, and UiBroker with it: four calls over the main *)
(* actor's queue, room for two waiters.  The deadlines of 90 s, 60 s and   *)
(* 5 s become 4, 2 and 1 ticks, which keeps their order and keeps          *)
(* REQUEST_TIMEOUT + DISMISS_TIMEOUT < TURN_WAIT_TIMEOUT.                  *)
(***************************************************************************)
EXTENDS UiPanels

=============================================================================
