----------------------------- MODULE OneDialog -----------------------------
(***************************************************************************)
(* What UiBroker promises its callers: the person has one dialog at a      *)
(* time, calls get it in the order they started to wait, the dialog never  *)
(* stands idle while a call waits, and a call that was turned away never   *)
(* gets one.  Deadlines, permits and dismissals are left out.              *)
(***************************************************************************)
CONSTANTS Calls, Nobody

VARIABLES
    status,   \* "new", "pending" in line, "shown", or "over"
    dialog,   \* the call that has the person's attention
    before    \* for a pending call, the pending calls that came before it

vars == <<status, dialog, before>>

Pending == {c \in Calls : status[c] = "pending"}

Init ==
    /\ status = [c \in Calls |-> "new"]
    /\ dialog = Nobody
    /\ before = [c \in Calls |-> {}]

Forget(c) == before' = [d \in Calls |-> before[d] \ {c}]

TurnAway(c) ==
    /\ status[c] \in {"new", "pending"}
    /\ status' = [status EXCEPT ![c] = "over"]
    /\ Forget(c)
    /\ UNCHANGED dialog

Show(c) ==
    /\ status[c] = "new"
    /\ dialog = Nobody
    /\ status' = [status EXCEPT ![c] = "shown"]
    /\ dialog' = c
    /\ UNCHANGED before

Wait(c) ==
    /\ status[c] = "new"
    /\ dialog # Nobody
    /\ status' = [status EXCEPT ![c] = "pending"]
    /\ before' = [before EXCEPT ![c] = Pending]
    /\ UNCHANGED dialog

\* The dialog closes; the first in line, if there is a line, gets the next.
Finish(c) ==
    /\ dialog = c
    /\ status[c] = "shown"
    /\ \/ /\ Pending = {}
          /\ status' = [status EXCEPT ![c] = "over"]
          /\ dialog' = Nobody
          /\ UNCHANGED before
       \/ \E next \in Pending :
          /\ before[next] = {}
          /\ status' = [status EXCEPT ![c] = "over", ![next] = "shown"]
          /\ dialog' = next
          /\ Forget(next)

Next == \E c \in Calls : TurnAway(c) \/ Show(c) \/ Wait(c) \/ Finish(c)

Spec == Init /\ [][Next]_vars

=============================================================================
