------------------------------ MODULE UiBroker ------------------------------
(***************************************************************************)
(* openimzo_rpc::ui::UiBroker: how concurrent RPC calls take turns at the  *)
(* one person in front of the computer.                                    *)
(*                                                                         *)
(* A call is one invocation of UiBroker::serialized.  It is admitted to a  *)
(* bounded waiting room (the semaphore "waiting"), queues for the FIFO     *)
(* mutex "turn", asks the delegate, and returns; each of the three waits   *)
(* has its own deadline.  Time is counted in ticks: a timer counts the     *)
(* ticks its call has spent in its present phase, and no tick passes while *)
(* a deadline is due or a woken call has not yet run, so a wait lasts at   *)
(* most its deadline, as tokio::time::timeout makes it.                    *)
(***************************************************************************)
EXTENDS Naturals, FiniteSets

CONSTANTS
    Calls,            \* invocations of serialized, each made once
    Nobody,           \* the turn when no call holds it
    MaxWaiting,       \* MAX_WAITING
    TurnWaitTimeout,  \* TURN_WAIT_TIMEOUT, in ticks
    RequestTimeout,   \* REQUEST_TIMEOUT, in ticks
    DismissTimeout    \* DISMISS_TIMEOUT, in ticks

ASSUME BrokerAssumption ==
    /\ Nobody \notin Calls
    /\ MaxWaiting \in Nat
    /\ TurnWaitTimeout \in Nat
    /\ RequestTimeout \in Nat
    /\ DismissTimeout \in Nat

\* The constants of ui.rs are 90 s, 60 s and 5 s: a call waits for its turn
\* longer than any one call can hold it.
ASSUME PatienceAssumption == RequestTimeout + DismissTimeout < TurnWaitTimeout

VARIABLES
    phase,    \* where each call is in serialized
    outcome,  \* what each call returned
    turn,     \* the owner of the turn mutex
    ahead,    \* for a call in the mutex's queue, the calls queued before it
    permits,  \* permits left in the waiting semaphore
    timer     \* ticks each call has spent in its phase

vars == <<phase, outcome, turn, ahead, permits, timer>>

Phases == {"idle", "waiting", "granted", "asking", "dismissing", "done"}

\* What the delegate's future resolves to (UiError::Unavailable is NoUi's).
Replies == {"Ok", "Cancelled", "Unavailable"}

Outcomes == Replies \cup {"Busy", "TimedOut", "none"}

TypeOK ==
    /\ phase \in [Calls -> Phases]
    /\ outcome \in [Calls -> Outcomes]
    /\ turn \in Calls \cup {Nobody}
    /\ ahead \in [Calls -> SUBSET Calls]
    /\ permits \in 0 .. MaxWaiting
    /\ timer \in [Calls -> Nat]

Init ==
    /\ phase = [c \in Calls |-> "idle"]
    /\ outcome = [c \in Calls |-> "none"]
    /\ turn = Nobody
    /\ ahead = [c \in Calls |-> {}]
    /\ permits = MaxWaiting
    /\ timer = [c \in Calls |-> 0]

InQueue == {c \in Calls : phase[c] = "waiting"}

\* Every call that holds a permit of the waiting semaphore.
Admitted == {c \in Calls : phase[c] \in {"waiting", "granted"}}

\* Calls whose dialog may be on the screen.
Served == {c \in Calls : phase[c] \in {"asking", "dismissing"}}

-----------------------------------------------------------------------------

Enter(c, p) ==
    /\ phase' = [phase EXCEPT ![c] = p]
    /\ timer' = [timer EXCEPT ![c] = 0]

Return(c, result) ==
    /\ Enter(c, "done")
    /\ outcome' = [outcome EXCEPT ![c] = result]

LeaveQueue(c) == ahead' = [d \in Calls |-> ahead[d] \ {c}]

\* try_acquire found no permit.
Refuse(c) ==
    /\ phase[c] = "idle"
    /\ permits = 0
    /\ Return(c, "Busy")
    /\ UNCHANGED <<turn, ahead, permits>>

\* The mutex is free, so lock() is ready at its first poll and the permit
\* goes back before serialized yields.
EnterFreeTurn(c) ==
    /\ phase[c] = "idle"
    /\ permits > 0
    /\ turn = Nobody
    /\ turn' = c
    /\ Enter(c, "asking")
    /\ UNCHANGED <<outcome, ahead, permits>>

JoinQueue(c) ==
    /\ phase[c] = "idle"
    /\ permits > 0
    /\ turn # Nobody
    /\ permits' = permits - 1
    /\ ahead' = [ahead EXCEPT ![c] = InQueue]
    /\ Enter(c, "waiting")
    /\ UNCHANGED <<outcome, turn>>

\* Mutant: the permit is forgotten on the way out.
GiveUpWaiting_KeepsPermit(c) ==
    /\ phase[c] = "waiting"
    /\ timer[c] = TurnWaitTimeout
    /\ LeaveQueue(c)
    /\ Return(c, "Busy")
    /\ UNCHANGED <<turn, permits>>

\* Mutant: the wait is bounded by the dialog's own deadline.
GiveUpWaiting_AtRequestTimeout(c) ==
    /\ phase[c] = "waiting"
    /\ timer[c] = RequestTimeout
    /\ permits' = permits + 1
    /\ LeaveQueue(c)
    /\ Return(c, "Busy")
    /\ UNCHANGED turn

\* timeout(TURN_WAIT_TIMEOUT, turn.lock()) elapsed: the queue entry and the
\* permit are dropped with it.
GiveUpWaiting(c) ==
    /\ phase[c] = "waiting"
    /\ timer[c] = TurnWaitTimeout
    /\ permits' = permits + 1
    /\ LeaveQueue(c)
    /\ Return(c, "Busy")
    /\ UNCHANGED turn

\* A call handed the mutex runs: it drops its permit and asks the delegate.
TakeTurn(c) ==
    /\ phase[c] = "granted"
    /\ permits' = permits + 1
    /\ Enter(c, "asking")
    /\ UNCHANGED <<outcome, turn, ahead>>

\* Mutant: any waiter may be woken, not the one that waited longest.
ReleaseTurn_WakesAny(c, result) ==
    \/ /\ InQueue = {}
       /\ turn' = Nobody
       /\ Return(c, result)
       /\ UNCHANGED <<ahead, permits>>
    \/ \E next \in InQueue :
       /\ turn' = next
       /\ phase' = [phase EXCEPT ![c] = "done", ![next] = "granted"]
       /\ timer' = [timer EXCEPT ![c] = 0, ![next] = 0]
       /\ outcome' = [outcome EXCEPT ![c] = result]
       /\ LeaveQueue(next)
       /\ UNCHANGED permits

\* Dropping the guard wakes the head of the mutex's queue, which then owns
\* the mutex, or frees it.
ReleaseTurn(c, result) ==
    \/ /\ InQueue = {}
       /\ turn' = Nobody
       /\ Return(c, result)
       /\ UNCHANGED <<ahead, permits>>
    \/ \E next \in InQueue :
       /\ ahead[next] = {}
       /\ turn' = next
       /\ phase' = [phase EXCEPT ![c] = "done", ![next] = "granted"]
       /\ timer' = [timer EXCEPT ![c] = 0, ![next] = 0]
       /\ outcome' = [outcome EXCEPT ![c] = result]
       /\ LeaveQueue(next)
       /\ UNCHANGED permits

\* The delegate's future resolved before the deadline.
Reply(c, result) ==
    /\ phase[c] = "asking"
    /\ ReleaseTurn(c, result)

\* Mutant: the turn is given up before the stale dialog is down.
AskTimesOut_DropsTurn(c) ==
    /\ phase[c] = "asking"
    /\ timer[c] = RequestTimeout
    /\ InQueue = {}
    /\ turn' = Nobody
    /\ Enter(c, "dismissing")
    /\ UNCHANGED <<outcome, ahead, permits>>

\* timeout(self.timeout, f) elapsed: f is dropped and the delegate is told to
\* take its dialog down, with the turn still held.
AskTimesOut(c) ==
    /\ phase[c] = "asking"
    /\ timer[c] = RequestTimeout
    /\ Enter(c, "dismissing")
    /\ UNCHANGED <<outcome, turn, ahead, permits>>

Dismissed(c) ==
    /\ phase[c] = "dismissing"
    /\ ReleaseTurn(c, "TimedOut")

\* Mutant: dismiss is awaited without a deadline of its own.
DismissTimesOut_Never(c) == FALSE /\ UNCHANGED vars

\* The delegate hangs in dismiss; the next call gets its turn anyway.
DismissTimesOut(c) ==
    /\ phase[c] = "dismissing"
    /\ timer[c] = DismissTimeout
    /\ ReleaseTurn(c, "TimedOut")

Timed == InQueue \cup Served

\* The deadline of the wait a timed call is in.
Deadline(c) ==
    IF phase[c] = "waiting" THEN TurnWaitTimeout
    ELSE IF phase[c] = "asking" THEN RequestTimeout
    ELSE DismissTimeout

\* One tick of the clock, once every step that is due has been taken.
Tick ==
    /\ Timed # {}
    /\ \A c \in Calls : phase[c] # "granted"
    /\ \A c \in Timed : timer[c] < Deadline(c)
    /\ timer' = [c \in Calls |-> IF c \in Timed THEN timer[c] + 1 ELSE timer[c]]
    /\ UNCHANGED <<phase, outcome, turn, ahead, permits>>

\* A caller starts a call.
Arrive(c) == Refuse(c) \/ EnterFreeTurn(c) \/ JoinQueue(c)

\* The runtime polls a call whose timer has fired or whose lock was granted.
Poll(c) ==
    \/ GiveUpWaiting(c)
    \/ TakeTurn(c)
    \/ AskTimesOut(c)
    \/ DismissTimesOut(c)

\* The delegate's own doing: it may also never answer and never dismiss.
DelegateActs(c) ==
    \/ \E result \in Replies : Reply(c, result)
    \/ Dismissed(c)

Next ==
    \/ \E c \in Calls : Arrive(c) \/ Poll(c) \/ DelegateActs(c)
    \/ Tick

\* The runtime runs woken tasks and the clock advances; nobody has to call,
\* and the delegate owes nothing.
Fairness == WF_vars(Tick) /\ \A c \in Calls : WF_vars(Poll(c))

Spec == Init /\ [][Next]_vars

FairSpec == Spec /\ Fairness

-----------------------------------------------------------------------------

\* Two sites cannot stack dialogs: at most one call is being served, and the
\* turn is its own (module comment of ui.rs).
OneDialogAtATime ==
    /\ \A c \in Served : turn = c
    /\ turn # Nobody => phase[turn] \in {"granted", "asking", "dismissing"}

\* No path through serialized leaks or doubles a permit, so a call is refused
\* at the door only when MAX_WAITING others really wait.
PermitsBalance == permits + Cardinality(Admitted) = MaxWaiting

\* How long the owner of the turn has had it: a dismissal starts when the
\* request's own deadline is spent.
HeldFor(c) == IF phase[c] = "dismissing" THEN RequestTimeout + timer[c] ELSE timer[c]

\* A call that runs out of patience (TURN_WAIT_TIMEOUT) has waited longer than
\* the holder has held the turn: it saw the turn go to somebody else, so the
\* next in line behind a single dialog is never turned away.
GivesUpOnlyAfterAnotherTurn ==
    [][\A c \in InQueue :
          outcome'[c] = "Busy" => turn # Nobody /\ HeldFor(turn) < timer[c]]_vars

\* The broker keeps the promise of OneDialog: a call has the dialog from the
\* moment it owns the turn until it returns.
Promise == INSTANCE OneDialog WITH
    status <- [c \in Calls |-> IF phase[c] = "idle" THEN "new"
                               ELSE IF phase[c] = "waiting" THEN "pending"
                               ELSE IF phase[c] = "done" THEN "over"
                               ELSE "shown"],
    dialog <- turn,
    before <- ahead

\* Calls get the dialog one at a time and in the order they began to wait
\* (ui.rs, module comment; tokio's Mutex is FIFO).
ImplementsOneDialog == Promise!Spec

\* serialized returns, whatever the delegate does: a dialog nobody answers and
\* a dismiss that hangs do not wedge the broker (ui.rs, on DISMISS_TIMEOUT).
EveryCallReturns ==
    \A c \in Calls : phase[c] # "idle" ~> phase[c] = "done"

=============================================================================
