------------------------------ MODULE UiProofs ------------------------------
(***************************************************************************)
(* Theorems about UiBroker and about UiPanels, the app's side of it.       *)
(*                                                                         *)
(* The first part is about the broker alone, for every set of calls,       *)
(* finite or not, every MAX_WAITING and every choice of deadlines; only    *)
(* its last theorem uses the relation between the deadlines.               *)
(*                                                                         *)
(* The second part is about the panels: the broker is still the one of     *)
(* UiBroker, whatever the app does, and there is one panel at most, for    *)
(* the call that has the turn or one whose cancel is on its way.  The      *)
(* argument is about the main actor's queue: it alternates, so that a      *)
(* panel is only ever presented where its predecessor's cancel has just    *)
(* been handled, or where its predecessor was answered.                    *)
(***************************************************************************)
EXTENDS UiPanels, FiniteSetTheorems, TLAPS

\* TypeOK but for the upper bound of permits, which is PermitInv's to show.
BaseType ==
    /\ phase \in [Calls -> Phases]
    /\ outcome \in [Calls -> Outcomes]
    /\ turn \in Calls \cup {Nobody}
    /\ ahead \in [Calls -> SUBSET Calls]
    /\ permits \in Nat
    /\ timer \in [Calls -> Nat]

\* The mutex is owned by the one call that is past the queue and not returned.
TurnInv ==
    \A c \in Calls : phase[c] \in {"granted", "asking", "dismissing"} <=> turn = c

\* The mutex is handed over, never dropped, while somebody queues for it.
HandoverInv == turn = Nobody => InQueue = {}

\* Nobody waits behind a call that is not in the queue.
AheadInv == \A c \in Calls : ahead[c] \subseteq InQueue

OutcomeInv == \A c \in Calls : phase[c] # "done" => outcome[c] = "none"

\* No call outstays its deadline.
TimerInv ==
    /\ \A c \in Timed : timer[c] <= Deadline(c)
    /\ \A c \in Calls : phase[c] = "granted" => timer[c] = 0

PermitInv ==
    /\ IsFiniteSet(Admitted)
    /\ permits + Cardinality(Admitted) = MaxWaiting

ControlInv ==
    /\ BaseType
    /\ TurnInv
    /\ HandoverInv
    /\ AheadInv
    /\ OutcomeInv
    /\ TimerInv

BrokerInv == ControlInv /\ PermitInv

-----------------------------------------------------------------------------

LEMMA InitControl == Init => ControlInv
BY BrokerAssumption
   DEF Init, ControlInv, BaseType, TurnInv, HandoverInv, AheadInv, OutcomeInv,
       TimerInv, Timed, InQueue, Served, Deadline, Phases, Outcomes, Replies

\* Handing the turn over keeps the control invariant, whoever releases it.
LEMMA ReleaseControl ==
    ASSUME ControlInv, NEW c \in Calls, NEW result \in Outcomes,
           phase[c] \in {"asking", "dismissing"}, ReleaseTurn(c, result)
    PROVE  ControlInv'
<1> USE BrokerAssumption
        DEF ControlInv, BaseType, TurnInv, InQueue, Phases
<1>1. CASE /\ InQueue = {}
           /\ turn' = Nobody
           /\ Return(c, result)
           /\ UNCHANGED <<ahead, permits>>
  <2>1. BaseType' /\ TurnInv'
    BY <1>1 DEF Return, Enter
  <2>2. HandoverInv' /\ AheadInv' /\ OutcomeInv'
    BY <1>1 DEF Return, Enter, HandoverInv, AheadInv, OutcomeInv
  <2>3. TimerInv'
    BY <1>1 DEF Return, Enter, TimerInv, Timed, Served, Deadline
  <2>4. QED
    BY <2>1, <2>2, <2>3
<1>2. ASSUME NEW next \in InQueue,
             ahead[next] = {},
             turn' = next,
             phase' = [phase EXCEPT ![c] = "done", ![next] = "granted"],
             timer' = [timer EXCEPT ![c] = 0, ![next] = 0],
             outcome' = [outcome EXCEPT ![c] = result],
             LeaveQueue(next),
             UNCHANGED permits
      PROVE  ControlInv'
  <2>1. BaseType' /\ TurnInv'
    BY <1>2 DEF LeaveQueue
  <2>2. HandoverInv' /\ AheadInv' /\ OutcomeInv'
    BY <1>2 DEF LeaveQueue, HandoverInv, AheadInv, OutcomeInv
  <2>3. TimerInv'
    BY <1>2 DEF TimerInv, Timed, Served, Deadline
  <2>4. QED
    BY <2>1, <2>2, <2>3
<1>3. QED
  BY <1>1, <1>2 DEF ReleaseTurn

LEMMA NextControl == ControlInv /\ [Next]_vars => ControlInv'
<1> SUFFICES ASSUME ControlInv, [Next]_vars
             PROVE  ControlInv'
  OBVIOUS
<1> USE BrokerAssumption
        DEF ControlInv, BaseType, TurnInv, HandoverInv, AheadInv, OutcomeInv,
            TimerInv, InQueue, Served, Timed, Deadline, Phases
<1>1. ASSUME NEW c \in Calls, Refuse(c)
      PROVE  ControlInv'
  BY <1>1 DEF Refuse, Return, Enter, Outcomes
<1>2. ASSUME NEW c \in Calls, EnterFreeTurn(c)
      PROVE  ControlInv'
  BY <1>2 DEF EnterFreeTurn, Enter
<1>3. ASSUME NEW c \in Calls, JoinQueue(c)
      PROVE  ControlInv'
  BY <1>3 DEF JoinQueue, Enter
<1>4. ASSUME NEW c \in Calls, GiveUpWaiting(c)
      PROVE  ControlInv'
  BY <1>4 DEF GiveUpWaiting, LeaveQueue, Return, Enter, Outcomes
<1>5. ASSUME NEW c \in Calls, TakeTurn(c)
      PROVE  ControlInv'
  BY <1>5 DEF TakeTurn, Enter
<1>6. ASSUME NEW c \in Calls, AskTimesOut(c)
      PROVE  ControlInv'
  BY <1>6 DEF AskTimesOut, Enter
<1>7. ASSUME NEW c \in Calls, NEW result \in Replies, Reply(c, result)
      PROVE  ControlInv'
  BY <1>7, ReleaseControl DEF Reply, Outcomes
<1>8. ASSUME NEW c \in Calls, Dismissed(c) \/ DismissTimesOut(c)
      PROVE  ControlInv'
  BY <1>8, ReleaseControl DEF Dismissed, DismissTimesOut, Outcomes
<1>9. ASSUME Tick
      PROVE  ControlInv'
  BY <1>9 DEF Tick
<1>10. CASE UNCHANGED vars
  BY <1>10 DEF vars
<1>11. QED
  BY <1>1, <1>2, <1>3, <1>4, <1>5, <1>6, <1>7, <1>8, <1>9, <1>10
     DEF Next, Arrive, Poll, DelegateActs

-----------------------------------------------------------------------------
(* The waiting room: who holds a permit changes by one call at a time. *)

LEMMA ReleaseKeepsAdmitted ==
    ASSUME ControlInv, NEW c \in Calls, NEW result,
           phase[c] \in {"asking", "dismissing"}, ReleaseTurn(c, result)
    PROVE  Admitted' = Admitted /\ permits' = permits
BY BrokerAssumption
   DEF ReleaseTurn, Return, Enter, Admitted, InQueue, ControlInv, BaseType

LEMMA NextPermits == BrokerInv /\ [Next]_vars => PermitInv'
<1> SUFFICES ASSUME BrokerInv, [Next]_vars
             PROVE  PermitInv'
  OBVIOUS
<1> USE BrokerAssumption DEF BrokerInv, ControlInv, BaseType
<1>1. /\ IsFiniteSet(Admitted)
      /\ Cardinality(Admitted) \in Nat
      /\ permits + Cardinality(Admitted) = MaxWaiting
  BY FS_CardinalityType DEF PermitInv
<1>2. ASSUME Admitted' = Admitted, permits' = permits
      PROVE  PermitInv'
  BY <1>2 DEF PermitInv
<1>3. ASSUME NEW c \in Calls \ Admitted,
             Admitted' = Admitted \cup {c}, permits' = permits - 1
      PROVE  PermitInv'
  <2>1. /\ IsFiniteSet(Admitted \cup {c})
        /\ Cardinality(Admitted \cup {c}) = Cardinality(Admitted) + 1
    BY <1>1, FS_AddElement
  <2>2. QED
    BY <1>1, <1>3, <2>1 DEF PermitInv
<1>4. ASSUME NEW c \in Admitted,
             Admitted' = Admitted \ {c}, permits' = permits + 1
      PROVE  PermitInv'
  <2>1. /\ IsFiniteSet(Admitted \ {c})
        /\ Cardinality(Admitted \ {c}) = Cardinality(Admitted) - 1
    BY <1>1, FS_RemoveElement
  <2>2. QED
    BY <1>1, <1>4, <2>1 DEF PermitInv
<1>5. ASSUME NEW c \in Calls, Refuse(c) \/ EnterFreeTurn(c) \/ AskTimesOut(c)
      PROVE  PermitInv'
  <2>1. Admitted' = Admitted /\ permits' = permits
    BY <1>5 DEF Refuse, EnterFreeTurn, AskTimesOut, Return, Enter, Admitted
  <2>2. QED
    BY <1>2, <2>1
<1>6. ASSUME NEW c \in Calls, JoinQueue(c)
      PROVE  PermitInv'
  <2>1. /\ c \in Calls \ Admitted
        /\ Admitted' = Admitted \cup {c}
        /\ permits' = permits - 1
    BY <1>6 DEF JoinQueue, Enter, Admitted
  <2>2. QED
    BY <1>3, <2>1
<1>7. ASSUME NEW c \in Calls, GiveUpWaiting(c) \/ TakeTurn(c)
      PROVE  PermitInv'
  <2>1. /\ c \in Admitted
        /\ Admitted' = Admitted \ {c}
        /\ permits' = permits + 1
    BY <1>7 DEF GiveUpWaiting, TakeTurn, Return, Enter, Admitted
  <2>2. QED
    BY <1>4, <2>1
<1>8. ASSUME NEW c \in Calls, DelegateActs(c) \/ DismissTimesOut(c)
      PROVE  PermitInv'
  <2>1. /\ phase[c] \in {"asking", "dismissing"}
        /\ \E result : ReleaseTurn(c, result)
    BY <1>8 DEF DelegateActs, Reply, Dismissed, DismissTimesOut
  <2>2. QED
    BY <1>2, <2>1, ReleaseKeepsAdmitted
<1>9. CASE Tick \/ UNCHANGED vars
  BY <1>2, <1>9 DEF Tick, vars, Admitted
<1>10. QED
  BY <1>5, <1>6, <1>7, <1>8, <1>9 DEF Next, Arrive, Poll

\* The inductive invariant: control and permits together.
THEOREM BrokerInvariant == Spec => []BrokerInv
<1>1. Init => BrokerInv
  <2>1. Init => PermitInv
    <3>1. Init => Admitted = {}
      BY DEF Init, Admitted
    <3>2. QED
      BY <3>1, FS_EmptySet, BrokerAssumption DEF Init, PermitInv
  <2>2. QED
    BY <2>1, InitControl DEF BrokerInv
<1>2. BrokerInv /\ [Next]_vars => BrokerInv'
  BY NextControl, NextPermits DEF BrokerInv
<1>3. QED
  BY <1>1, <1>2, PTL DEF Spec

\* Every variable of the broker keeps its type; in particular the semaphore
\* never holds more than MAX_WAITING permits.
THEOREM TypeCorrect == Spec => []TypeOK
<1>1. BrokerInv => TypeOK
  BY FS_CardinalityType, BrokerAssumption
     DEF BrokerInv, ControlInv, BaseType, PermitInv, TypeOK
<1>2. QED
  BY <1>1, BrokerInvariant, PTL

\* Whatever the number of callers, at most one dialog is open and it belongs
\* to the owner of the turn.
THEOREM MutualExclusion == Spec => []OneDialogAtATime
<1>1. BrokerInv => OneDialogAtATime
  BY BrokerAssumption
     DEF BrokerInv, ControlInv, BaseType, TurnInv, OneDialogAtATime, Served
<1>2. QED
  BY <1>1, BrokerInvariant, PTL

\* No path through serialized leaks or doubles a permit.
THEOREM PermitsAreBalanced == Spec => []PermitsBalance
<1>1. BrokerInv => PermitsBalance
  BY DEF BrokerInv, PermitInv, PermitsBalance
<1>2. QED
  BY <1>1, BrokerInvariant, PTL

\* With REQUEST_TIMEOUT + DISMISS_TIMEOUT < TURN_WAIT_TIMEOUT, a call that
\* gives up waiting saw the turn go to somebody else meanwhile.
THEOREM Patience == Spec => GivesUpOnlyAfterAnotherTurn
<1>1. ASSUME BrokerInv, [Next]_vars, NEW c \in InQueue, outcome'[c] = "Busy"
      PROVE  turn # Nobody /\ HeldFor(turn) < timer[c]
  <2> USE BrokerAssumption DEF BrokerInv, ControlInv, BaseType
  <2>1. c \in Calls /\ phase[c] = "waiting" /\ outcome[c] = "none"
    BY <1>1 DEF InQueue, OutcomeInv
  <2>2. ASSUME NEW d \in Calls, Refuse(d) \/ EnterFreeTurn(d) \/ JoinQueue(d)
        PROVE  FALSE
    BY <1>1, <2>1, <2>2 DEF Refuse, EnterFreeTurn, JoinQueue, Return
  <2>3. ASSUME NEW d \in Calls, TakeTurn(d) \/ AskTimesOut(d)
        PROVE  FALSE
    BY <1>1, <2>1, <2>3 DEF TakeTurn, AskTimesOut
  <2>4. ASSUME NEW d \in Calls, NEW result,
               phase[d] \in {"asking", "dismissing"}, ReleaseTurn(d, result)
        PROVE  FALSE
    BY <1>1, <2>1, <2>4 DEF ReleaseTurn, Return
  <2>5. ASSUME NEW d \in Calls, DelegateActs(d) \/ DismissTimesOut(d)
        PROVE  FALSE
    BY <2>4, <2>5 DEF DelegateActs, Reply, Dismissed, DismissTimesOut
  <2>6. ~Tick /\ ~UNCHANGED vars
    BY <1>1, <2>1 DEF Tick, vars
  <2>7. PICK d \in Calls : GiveUpWaiting(d)
    BY <1>1, <2>2, <2>3, <2>5, <2>6 DEF Next, Arrive, Poll
  <2>8. d = c
    BY <1>1, <2>1, <2>7 DEF GiveUpWaiting, Return
  <2>9. timer[c] = TurnWaitTimeout
    BY <2>7, <2>8 DEF GiveUpWaiting
  <2>10. turn \in Calls /\ phase[turn] \in {"granted", "asking", "dismissing"}
    BY <1>1, <2>1 DEF HandoverInv, TurnInv, InQueue
  <2>11. HeldFor(turn) <= RequestTimeout + DismissTimeout
    BY <1>1, <2>10 DEF HeldFor, TimerInv, Timed, Served, Deadline
  <2>12. QED
    BY <1>1, <2>9, <2>10, <2>11, PatienceAssumption DEF HeldFor
<1>2. BrokerInv /\ [Next]_vars =>
        [\A c \in InQueue :
            outcome'[c] = "Busy" => turn # Nobody /\ HeldFor(turn) < timer[c]]_vars
  BY <1>1
<1>3. QED
  BY <1>2, BrokerInvariant, PTL DEF Spec, GivesUpOnlyAfterAnotherTurn

-----------------------------------------------------------------------------
(* The broker implements OneDialog. *)

LEMMA PendingIsQueue == Promise!Pending = InQueue
BY DEF Promise!Pending, InQueue

\* Releasing the turn finishes the dialog and shows the next one.
LEMMA ReleaseFinishes ==
    ASSUME ControlInv, NEW c \in Calls, NEW result,
           phase[c] \in {"asking", "dismissing"}, ReleaseTurn(c, result)
    PROVE  Promise!Finish(c)
<1> USE BrokerAssumption DEF ControlInv, BaseType, TurnInv
<1>1. turn = c
  OBVIOUS
<1>2. CASE /\ InQueue = {}
           /\ turn' = Nobody
           /\ Return(c, result)
           /\ UNCHANGED <<ahead, permits>>
  BY <1>1, <1>2, PendingIsQueue DEF Promise!Finish, Return, Enter
<1>3. ASSUME NEW next \in InQueue,
             ahead[next] = {},
             turn' = next,
             phase' = [phase EXCEPT ![c] = "done", ![next] = "granted"],
             LeaveQueue(next)
      PROVE  Promise!Finish(c)
  BY <1>1, <1>3, PendingIsQueue
     DEF Promise!Finish, Promise!Forget, LeaveQueue, InQueue
<1>4. QED
  BY <1>2, <1>3 DEF ReleaseTurn

LEMMA StepSimulation ==
    ControlInv /\ [Next]_vars => [Promise!Next]_(Promise!vars)
<1> SUFFICES ASSUME ControlInv, [Next]_vars
             PROVE  [Promise!Next]_(Promise!vars)
  OBVIOUS
<1> USE BrokerAssumption DEF ControlInv, BaseType
<1>1. ASSUME NEW c \in Calls, Refuse(c)
      PROVE  Promise!TurnAway(c)
  BY <1>1 DEF Refuse, Return, Enter, Promise!TurnAway, Promise!Forget, AheadInv, InQueue
<1>2. ASSUME NEW c \in Calls, EnterFreeTurn(c)
      PROVE  Promise!Show(c)
  BY <1>2 DEF EnterFreeTurn, Enter, Promise!Show
<1>3. ASSUME NEW c \in Calls, JoinQueue(c)
      PROVE  Promise!Wait(c)
  BY <1>3, PendingIsQueue DEF JoinQueue, Enter, Promise!Wait
<1>4. ASSUME NEW c \in Calls, GiveUpWaiting(c)
      PROVE  Promise!TurnAway(c)
  BY <1>4 DEF GiveUpWaiting, Return, Enter, LeaveQueue, Promise!TurnAway, Promise!Forget
<1>5. ASSUME NEW c \in Calls, TakeTurn(c) \/ AskTimesOut(c)
      PROVE  UNCHANGED Promise!vars
  BY <1>5 DEF TakeTurn, AskTimesOut, Enter, Promise!vars
<1>6. ASSUME NEW c \in Calls, DelegateActs(c) \/ DismissTimesOut(c)
      PROVE  Promise!Finish(c)
  BY <1>6, ReleaseFinishes DEF DelegateActs, Reply, Dismissed, DismissTimesOut
<1>7. CASE Tick \/ UNCHANGED vars
  BY <1>7 DEF Tick, vars, Promise!vars
<1>8. QED
  BY <1>1, <1>2, <1>3, <1>4, <1>5, <1>6, <1>7
     DEF Next, Arrive, Poll, Promise!Next

\* The broker keeps OneDialog's promise: one dialog at a time, in the order
\* the calls began to wait, and none for a call that was turned away.
THEOREM Refinement == Spec => ImplementsOneDialog
<1>1. Init => Promise!Init
  BY DEF Init, Promise!Init
<1>2. ControlInv /\ [Next]_vars => [Promise!Next]_(Promise!vars)
  BY StepSimulation
<1>3. BrokerInv => ControlInv
  BY DEF BrokerInv
<1>4. QED
  BY <1>1, <1>2, <1>3, BrokerInvariant, PTL DEF Spec, Promise!Spec, ImplementsOneDialog

-----------------------------------------------------------------------------
(* The panels. *)

Asking == {c \in Calls : phase[c] = "asking"}

\* Calls whose dialog the broker has stopped waiting for.
Abandoned == {c \in Calls : phase[c] = "dismissing" \/ (phase[c] = "done" /\ outcome[c] = "TimedOut")}

PanelType ==
    /\ currentRequest \in Calls \cup {Nobody}
    /\ mainQueue \in Seq(Messages)
    /\ windows \subseteq Calls
    /\ activePanel \in Calls \cup {Nobody}
    /\ answers \subseteq Calls \X PanelReplies
    /\ dismissals \subseteq Calls

\* A dialog that is asked for and then abandoned is asked and cancelled in
\* that order with nothing between; only the last one can still be waited for.
QueueInv == \A i \in DOMAIN mainQueue :
    /\ mainQueue[i].kind = "cancel" => mainQueue[i].call \in Abandoned
    /\ i < Len(mainQueue) => mainQueue[i].kind # mainQueue[i + 1].kind
    /\ i < Len(mainQueue) /\ mainQueue[i].kind = "ask" => mainQueue[i + 1].call = mainQueue[i].call
    /\ i = Len(mainQueue) /\ mainQueue[i].kind = "ask" => Asking = {mainQueue[i].call}
    /\ i = Len(mainQueue) /\ mainQueue[i].kind = "cancel" => Asking = {}

\* What is on the screen is what the messages yet to be handled expect there.
WindowInv ==
    /\ windows = {activePanel} \ {Nobody}
    /\ mainQueue = <<>> => windows \subseteq Asking
    /\ mainQueue # <<>> => windows \subseteq
         IF Head(mainQueue).kind = "ask" THEN {} ELSE {Head(mainQueue).call}

\* An answer that is still waited for is the last the app has to say.
AnswerInv == \A a \in answers :
    /\ phase[a[1]] \in {"asking", "dismissing", "done"}
    /\ phase[a[1]] = "asking" => mainQueue = <<>> /\ windows = {}

\* The request id dismiss would use is the one of the call being asked.
CurrentInv == \A c \in Asking : currentRequest = c

PanelInv == PanelType /\ QueueInv /\ WindowInv /\ AnswerInv /\ CurrentInv

-----------------------------------------------------------------------------

\* A step of the app is none of the broker's, and the others are its own.
LEMMA PanelStepIsBrokers == [PanelNext]_allVars => [Next]_vars
<1> SUFFICES ASSUME [PanelNext]_allVars PROVE [Next]_vars
  OBVIOUS
<1>1. ASSUME NEW c \in Calls, OpenDialog(c) \/ AbandonDialog(c) \/ DismissReturns(c) \/ BrokerAlone(c)
      PROVE  Next
  BY <1>1 DEF OpenDialog, AbandonDialog, DismissReturns, BrokerAlone, Next, Arrive, Poll, DelegateActs
<1>2. ASSUME NEW c \in Calls, AnswerArrives(c) PROVE Next
  BY <1>2 DEF AnswerArrives, PanelReplies, Replies, Next, DelegateActs
<1>3. CASE MainActor \/ ForceClose \/ \E c \in Calls : PersonAnswers(c)
  BY <1>3 DEF MainActor, Present, Cancel, ForceClose, PersonAnswers
<1>4. CASE PanelTick
  BY <1>4 DEF PanelTick, Next
<1>5. CASE UNCHANGED allVars
  BY <1>5 DEF allVars
<1> QED
  BY <1>1, <1>2, <1>3, <1>4, <1>5 DEF PanelNext

LEMMA PanelInitInv == PanelInit => PanelInv
<1> SUFFICES ASSUME PanelInit PROVE PanelInv
  OBVIOUS
<1>1. PanelType
  BY DEF PanelInit, PanelType
<1>2. QueueInv /\ WindowInv /\ AnswerInv
  BY DEF PanelInit, QueueInv, WindowInv, AnswerInv
<1>3. CurrentInv
  BY DEF PanelInit, Init, CurrentInv, Asking
<1> QED
  BY <1>1, <1>2, <1>3 DEF PanelInv

\* A step the app hears nothing of, in which nobody begins or ends to ask.
LEMMA QuietBroker ==
    ASSUME PanelInv, UNCHANGED panelVars, Asking' = Asking,
           Abandoned \subseteq Abandoned',
           \A c \in Calls : phase[c] \in {"asking", "dismissing", "done"} =>
                                phase'[c] \in {"asking", "dismissing", "done"}
    PROVE  PanelInv'
<1> USE DEF panelVars
<1>1. PanelType'
  BY DEF PanelInv, PanelType
<1>2. QueueInv'
  <2>1. QueueInv /\ mainQueue' = mainQueue
    BY DEF PanelInv
  <2> QED
    BY <2>1 DEF QueueInv
<1>3. WindowInv' /\ CurrentInv'
  BY DEF PanelInv, WindowInv, CurrentInv
<1>4. AnswerInv'
  BY DEF PanelInv, PanelType, AnswerInv, Asking
<1> QED
  BY <1>1, <1>2, <1>3, <1>4 DEF PanelInv

\* Who asks next does so only once its turn was given up and taken.
LEMMA ReleaseAsking ==
    ASSUME ControlInv, NEW c \in Calls, NEW result, phase[c] \in {"asking", "dismissing"},
           ReleaseTurn(c, result)
    PROVE  /\ Asking' = Asking \ {c}
           /\ phase'[c] = "done" /\ outcome'[c] = result
           /\ \A d \in Calls : phase[d] = "done" => phase'[d] = "done" /\ outcome'[d] = outcome[d]
           /\ \A d \in Calls : phase[d] \in {"asking", "dismissing"} => d = c
<1> USE BrokerAssumption DEF ControlInv, BaseType, TurnInv, Asking
<1>1. CASE InQueue = {} /\ turn' = Nobody /\ Return(c, result)
  BY <1>1 DEF Return, Enter
<1>2. ASSUME NEW next \in InQueue,
             phase' = [phase EXCEPT ![c] = "done", ![next] = "granted"],
             outcome' = [outcome EXCEPT ![c] = result]
      PROVE  /\ Asking' = Asking \ {c}
             /\ phase'[c] = "done" /\ outcome'[c] = result
             /\ \A d \in Calls : phase[d] = "done" => phase'[d] = "done" /\ outcome'[d] = outcome[d]
  BY <1>2 DEF InQueue
<1>3. \A d \in Calls : phase[d] \in {"asking", "dismissing"} => d = c
  OBVIOUS
<1> QED
  BY <1>1, <1>2, <1>3 DEF ReleaseTurn

LEMMA AloneStep ==
    ASSUME ControlInv, PanelInv, NEW c \in Calls, BrokerAlone(c) \/ DismissReturns(c)
    PROVE  PanelInv'
<1> USE DEF ControlInv, BaseType, Asking, Abandoned
<1>1. CASE Refuse(c) \/ JoinQueue(c) \/ GiveUpWaiting(c)
  <2>1. /\ phase[c] \in {"idle", "waiting"} /\ phase'[c] \in {"waiting", "done"}
        /\ \A d \in Calls : d # c => phase'[d] = phase[d] /\ outcome'[d] = outcome[d]
    BY <1>1 DEF Refuse, JoinQueue, GiveUpWaiting, Return, Enter
  <2>2. UNCHANGED panelVars
    BY <1>1 DEF BrokerAlone, DismissReturns
  <2> QED
    BY <2>1, <2>2, QuietBroker
<1>2. CASE phase[c] = "dismissing" /\ ReleaseTurn(c, "TimedOut")
  <2>1. UNCHANGED panelVars
    BY DEF BrokerAlone, DismissReturns
  <2> QED
    BY <1>2, <2>1, ReleaseAsking, QuietBroker
<1> QED
  BY <1>1, <1>2 DEF BrokerAlone, DismissReturns, DismissTimesOut, Dismissed

\* An answer that arrives is the end of what the app was asked.
LEMMA AnswerStep ==
    ASSUME ControlInv, PanelInv, NEW c \in Calls, AnswerArrives(c)
    PROVE  PanelInv'
<1>1. PICK result \in PanelReplies : <<c, result>> \in answers /\ Reply(c, result)
  BY DEF AnswerArrives
<1>2. phase[c] = "asking" /\ ReleaseTurn(c, result) /\ UNCHANGED panelVars
  BY <1>1 DEF Reply, AnswerArrives
<1>3. mainQueue = <<>> /\ windows = {}
  BY <1>1, <1>2 DEF PanelInv, AnswerInv
<1>4. /\ Asking' = {}
      /\ \A d \in Calls : phase[d] \in {"asking", "dismissing", "done"} => phase'[d] = "done"
  BY <1>2, ReleaseAsking DEF Asking
<1> USE DEF panelVars
<1>5. PanelType' /\ QueueInv' /\ WindowInv' /\ CurrentInv'
  BY <1>2, <1>3, <1>4 DEF PanelInv, PanelType, QueueInv, WindowInv, CurrentInv
<1>6. AnswerInv'
  BY <1>2, <1>3, <1>4 DEF PanelInv, PanelType, AnswerInv
<1> QED
  BY <1>5, <1>6 DEF PanelInv

\* A message goes behind those of its kind's other half.
LEMMA PostInv ==
    ASSUME PanelInv, NEW kind \in {"ask", "cancel"}, NEW c \in Calls, Post(kind, c),
           UNCHANGED <<windows, activePanel, answers, dismissals>>,
           Abandoned \subseteq Abandoned',
           \A d \in Calls : phase[d] \in {"asking", "dismissing", "done"} =>
                                phase'[d] \in {"asking", "dismissing", "done"},
           currentRequest' \in Calls, \A d \in Asking' : currentRequest' = d,
           \/ kind = "ask" /\ Asking = {} /\ Asking' = {c} /\ phase[c] \notin {"asking", "dismissing", "done"}
           \/ kind = "cancel" /\ Asking = {c} /\ Asking' = {} /\ c \in Abandoned'
    PROVE  PanelInv'
<1> DEFINE m == [kind |-> kind, call |-> c]
<1>1. mainQueue \in Seq(Messages) /\ m \in Messages /\ mainQueue' = Append(mainQueue, m)
  BY DEF PanelInv, PanelType, Messages, Post
<1>2. PanelType'
  BY <1>1 DEF PanelInv, PanelType
<1>3. m.kind = kind /\ m.call = c
  OBVIOUS
<1> HIDE DEF m
<1>4. /\ Len(mainQueue) \in Nat /\ DOMAIN mainQueue = 1 .. Len(mainQueue)
      /\ Len(mainQueue') = Len(mainQueue) + 1 /\ DOMAIN mainQueue' = 1 .. Len(mainQueue) + 1
      /\ mainQueue'[Len(mainQueue) + 1] = m /\ \A i \in 1 .. Len(mainQueue) : mainQueue'[i] = mainQueue[i]
  BY <1>1
<1>5. \A i \in DOMAIN mainQueue : mainQueue[i].call \in Calls /\ mainQueue[i].kind \in {"ask", "cancel"}
  <2>1. \A i \in DOMAIN mainQueue : mainQueue[i] \in Messages
    BY <1>1
  <2>2. \A x \in Messages : x.call \in Calls /\ x.kind \in {"ask", "cancel"}
    BY DEF Messages
  <2> QED
    BY <2>1, <2>2
<1>6. ASSUME Len(mainQueue) > 0 PROVE Head(mainQueue) = mainQueue[1] /\ Head(mainQueue') = Head(mainQueue)
  BY <1>1, <1>6
<1>7. ASSUME Len(mainQueue) > 0
      PROVE  LET last == mainQueue[Len(mainQueue)] IN
             IF last.kind = "ask" THEN Asking = {last.call} ELSE Asking = {}
  <2>1. Len(mainQueue) \in DOMAIN mainQueue
    BY <1>4, <1>7
  <2> QED
    BY <1>5, <2>1 DEF PanelInv, QueueInv
<1>8. Len(mainQueue) = 0 => mainQueue = <<>> /\ Head(mainQueue') = m
  BY <1>1, <1>4
<1>9. QueueInv'
  <2> SUFFICES ASSUME NEW i \in 1 .. Len(mainQueue) + 1
      PROVE  /\ mainQueue'[i].kind = "cancel" => mainQueue'[i].call \in Abandoned'
             /\ i < Len(mainQueue') => mainQueue'[i].kind # mainQueue'[i + 1].kind
             /\ i < Len(mainQueue') /\ mainQueue'[i].kind = "ask" => mainQueue'[i + 1].call = mainQueue'[i].call
             /\ i = Len(mainQueue') /\ mainQueue'[i].kind = "ask" => Asking' = {mainQueue'[i].call}
             /\ i = Len(mainQueue') /\ mainQueue'[i].kind = "cancel" => Asking' = {}
    BY <1>4 DEF QueueInv
  <2> HIDE DEF m
  <2>1. CASE i < Len(mainQueue)
    <3>1. i \in DOMAIN mainQueue /\ i + 1 \in 1 .. Len(mainQueue) /\ mainQueue'[i] = mainQueue[i] /\ mainQueue'[i + 1] = mainQueue[i + 1]
      BY <1>4, <2>1
    <3>2. /\ mainQueue[i].kind = "cancel" => mainQueue[i].call \in Abandoned
          /\ mainQueue[i].kind # mainQueue[i + 1].kind
          /\ mainQueue[i].kind = "ask" => mainQueue[i + 1].call = mainQueue[i].call
      BY <2>1, <3>1 DEF PanelInv, QueueInv
    <3> QED
      BY <1>4, <2>1, <3>1, <3>2
  <2>2. CASE i = Len(mainQueue)
    <3>1. i \in DOMAIN mainQueue /\ mainQueue'[i] = mainQueue[i] /\ mainQueue'[i + 1] = m
      BY <1>4, <2>2
    <3>2. mainQueue[i].kind = "cancel" => mainQueue[i].call \in Abandoned
      BY <3>1 DEF PanelInv, QueueInv
    <3>3. Asking = IF mainQueue[i].kind = "ask" THEN {mainQueue[i].call} ELSE {}
      BY <1>4, <1>7, <2>2
    <3>4. mainQueue[i].kind # kind /\ (mainQueue[i].kind = "ask" => mainQueue[i].call = c)
      BY <1>5, <3>1, <3>3
    <3> QED
      BY <1>4, <1>3, <2>2, <3>1, <3>2, <3>4
  <2>3. CASE i = Len(mainQueue) + 1
    <3>1. mainQueue'[i] = m /\ ~(i < Len(mainQueue'))
      BY <1>4, <2>3
    <3> QED
      BY <1>3, <3>1
  <2>4. i < Len(mainQueue) \/ i = Len(mainQueue) \/ i = Len(mainQueue) + 1
    <3>1. Len(mainQueue) \in Nat
      BY <1>4
    <3> QED
      BY <3>1
  <2> QED
    BY <2>1, <2>2, <2>3, <2>4
<1>10. WindowInv'
  <2>1. windows' \subseteq IF Head(mainQueue').kind = "ask" THEN {} ELSE {Head(mainQueue').call}
    <3>1. CASE Len(mainQueue) > 0
      <4>1. mainQueue # <<>> /\ windows' = windows /\ Head(mainQueue') = Head(mainQueue)
        BY <1>1, <1>6, <3>1
      <4> QED
        BY <4>1 DEF PanelInv, WindowInv
    <3>2. CASE Len(mainQueue) = 0
      <4>1. windows \subseteq Asking /\ windows' = windows /\ Head(mainQueue') = m
        BY <1>8, <3>2 DEF PanelInv, WindowInv
      <4> QED
        BY <1>3, <4>1
    <3> QED
      BY <1>4, <3>1, <3>2
  <2>2. mainQueue' # <<>>
    BY <1>1
  <2> QED
    BY <2>1, <2>2 DEF PanelInv, WindowInv
<1>11. AnswerInv'
  BY DEF PanelInv, PanelType, AnswerInv, Asking
<1>12. CurrentInv'
  BY DEF CurrentInv
<1> QED
  BY <1>2, <1>9, <1>10, <1>11, <1>12 DEF PanelInv

\* A dialog is asked for by a call that has the turn to itself.
LEMMA OpenStep ==
    ASSUME ControlInv, PanelInv, NEW c \in Calls, OpenDialog(c)
    PROVE  PanelInv'
<1> USE BrokerAssumption DEF ControlInv, BaseType
<1>1. /\ phase[c] \in {"idle", "granted"} /\ phase' = [phase EXCEPT ![c] = "asking"]
      /\ outcome' = outcome /\ turn \in {Nobody, c}
  BY DEF OpenDialog, EnterFreeTurn, TakeTurn, Enter, TurnInv
<1>2. Asking = {} /\ Asking' = {c}
  BY <1>1 DEF Asking, TurnInv
<1>3. Abandoned \subseteq Abandoned'
  BY <1>1 DEF Abandoned
<1>4. \A d \in Calls : phase[d] \in {"asking", "dismissing", "done"} =>
                           phase'[d] \in {"asking", "dismissing", "done"}
  BY <1>1
<1>5. Post("ask", c) /\ currentRequest' = c /\ UNCHANGED <<windows, activePanel, answers, dismissals>>
  BY DEF OpenDialog
<1> QED
  BY <1>1, <1>2, <1>3, <1>4, <1>5, PostInv

\* The cancel of an abandoned dialog names the call that asked for it.
LEMMA AbandonStep ==
    ASSUME ControlInv, PanelInv, NEW c \in Calls, AbandonDialog(c)
    PROVE  PanelInv'
<1> USE DEF ControlInv, BaseType
<1>1. /\ phase[c] = "asking" /\ phase' = [phase EXCEPT ![c] = "dismissing"]
      /\ outcome' = outcome
  BY DEF AbandonDialog, AskTimesOut, Enter
<1>2. Asking = {c} /\ Asking' = {}
  BY <1>1 DEF Asking, TurnInv
<1>3. Abandoned \subseteq Abandoned' /\ c \in Abandoned'
  BY <1>1 DEF Abandoned
<1>4. \A d \in Calls : phase[d] \in {"asking", "dismissing", "done"} =>
                           phase'[d] \in {"asking", "dismissing", "done"}
  BY <1>1
<1>5. currentRequest = c
  BY <1>2 DEF PanelInv, CurrentInv
<1>6. Post("cancel", c) /\ currentRequest' = c /\ UNCHANGED <<windows, activePanel, answers, dismissals>>
  BY <1>5 DEF AbandonDialog
<1> QED
  BY <1>2, <1>3, <1>4, <1>6, PostInv

-----------------------------------------------------------------------------

\* What the main actor handles first leaves the rest as it was.
LEMMA TailQueue ==
    ASSUME PanelType, QueueInv, mainQueue # <<>>, mainQueue' = Tail(mainQueue), UNCHANGED vars
    PROVE  /\ mainQueue' \in Seq(Messages) /\ QueueInv'
           /\ Head(mainQueue) = mainQueue[1] /\ Head(mainQueue) \in Messages
           /\ mainQueue' = <<>> /\ Head(mainQueue).kind = "ask" => Asking = {Head(mainQueue).call}
           /\ mainQueue' # <<>> => /\ Head(mainQueue').kind # Head(mainQueue).kind
                                   /\ Head(mainQueue).kind = "ask" => Head(mainQueue').call = Head(mainQueue).call
<1> DEFINE n == Len(mainQueue)
<1>1. mainQueue \in Seq(Messages)
  BY DEF PanelType
<1>2. /\ n \in Nat /\ n > 0 /\ DOMAIN mainQueue = 1 .. n
      /\ mainQueue' \in Seq(Messages) /\ Len(mainQueue') = n - 1 /\ DOMAIN mainQueue' = 1 .. n - 1
      /\ \A i \in 1 .. n - 1 : mainQueue'[i] = mainQueue[i + 1]
      /\ Head(mainQueue) = mainQueue[1] /\ mainQueue[1] \in Messages
  BY <1>1
<1>3. mainQueue' # <<>> => n > 1 /\ Head(mainQueue') = mainQueue[2]
  BY <1>2
<1>4. mainQueue' = <<>> => n = 1
  <2>1. mainQueue' = <<>> => Len(mainQueue') = 0
    OBVIOUS
  <2> QED
    BY <1>2, <2>1
<1>5. Asking' = Asking /\ Abandoned' = Abandoned
  BY DEF vars, Asking, Abandoned
<1> HIDE DEF n
<1>6. \A i \in 1 .. n :
          /\ mainQueue[i].kind = "cancel" => mainQueue[i].call \in Abandoned
          /\ i < n => mainQueue[i].kind # mainQueue[i + 1].kind
          /\ i < n /\ mainQueue[i].kind = "ask" => mainQueue[i + 1].call = mainQueue[i].call
          /\ i = n /\ mainQueue[i].kind = "ask" => Asking = {mainQueue[i].call}
          /\ i = n /\ mainQueue[i].kind = "cancel" => Asking = {}
  BY <1>2 DEF n, QueueInv
<1>7. QueueInv'
  <2> SUFFICES ASSUME NEW i \in 1 .. n - 1
      PROVE  /\ mainQueue'[i].kind = "cancel" => mainQueue'[i].call \in Abandoned
             /\ i < n - 1 => mainQueue'[i].kind # mainQueue'[i + 1].kind
             /\ i < n - 1 /\ mainQueue'[i].kind = "ask" => mainQueue'[i + 1].call = mainQueue'[i].call
             /\ i = n - 1 /\ mainQueue'[i].kind = "ask" => Asking = {mainQueue'[i].call}
             /\ i = n - 1 /\ mainQueue'[i].kind = "cancel" => Asking = {}
    BY <1>2, <1>5 DEF QueueInv
  <2>1. i + 1 \in 1 .. n /\ mainQueue'[i] = mainQueue[i + 1]
    BY <1>2
  <2>2. i < n - 1 => mainQueue'[i + 1] = mainQueue[i + 1 + 1]
    BY <1>2
  <2> QED
    BY <1>2, <1>6, <2>1, <2>2
<1>8. 1 \in 1 .. n /\ (n > 1 => 1 < n /\ 1 + 1 = 2)
  BY <1>2
<1> QED
  BY <1>2, <1>3, <1>4, <1>6, <1>7, <1>8

\* A panel is there because its call is asking, or still awaits its cancel.
LEMMA WindowOwner ==
    ASSUME PanelType, QueueInv, WindowInv, NEW c \in windows
    PROVE  /\ c \in Calls /\ windows = {c} /\ activePanel = c
           /\ \/ mainQueue = <<>> /\ c \in Asking
              \/ /\ mainQueue # <<>> /\ 1 \in DOMAIN mainQueue
                 /\ mainQueue[1] = [kind |-> "cancel", call |-> c] /\ c \in Abandoned
<1>1. c \in Calls /\ windows = {c} /\ activePanel = c
  BY DEF PanelType, WindowInv
<1>2. ASSUME mainQueue # <<>>
      PROVE  /\ 1 \in DOMAIN mainQueue /\ mainQueue[1] = [kind |-> "cancel", call |-> c]
             /\ c \in Abandoned
  <2>0. mainQueue \in Seq(Messages)
    BY DEF PanelType
  <2>1. 1 \in DOMAIN mainQueue /\ Head(mainQueue) = mainQueue[1] /\ mainQueue[1] \in Messages
    BY <1>2, <2>0
  <2>2. Head(mainQueue).kind # "ask" /\ Head(mainQueue).call = c
    BY <1>1, <1>2 DEF WindowInv
  <2>3. mainQueue[1] = [kind |-> "cancel", call |-> c]
    BY <2>1, <2>2 DEF Messages
  <2>4. c \in Abandoned
    BY <2>1, <2>3 DEF QueueInv
  <2> QED
    BY <2>1, <2>3, <2>4
<1>3. mainQueue = <<>> => c \in Asking
  BY DEF WindowInv
<1> QED
  BY <1>1, <1>2, <1>3

\* A panel that is resolved goes, and its answer is the last word for its call.
LEMMA ResolveInv ==
    ASSUME PanelInv, UNCHANGED <<vars, currentRequest>>, mainQueue' \in Seq(Messages), QueueInv',
           dismissals' \subseteq Calls,
           NEW c \in windows, NEW result \in PanelReplies, Resolve(c, result),
           c \in Asking => mainQueue' = <<>>,
           mainQueue = <<>> => mainQueue' = <<>>
    PROVE  PanelInv' /\ windows' = {}
<1>1. windows = {c} /\ c \in Calls /\ windows \subseteq Calls
  BY DEF PanelInv, PanelType, WindowInv
<1>2. windows' = {} /\ activePanel' = Nobody /\ answers' = answers \cup {<<c, result>>}
  BY <1>1 DEF Resolve
<1>3. PanelType'
  BY <1>1, <1>2 DEF PanelInv, PanelType, vars
<1>4. WindowInv' /\ CurrentInv'
  BY <1>2 DEF PanelInv, WindowInv, CurrentInv, Asking, vars
<1>5. phase[c] \in {"asking", "dismissing", "done"}
  BY WindowOwner DEF PanelInv, Asking, Abandoned
<1>6. AnswerInv'
  BY <1>1, <1>2, <1>5 DEF PanelInv, AnswerInv, Asking, vars
<1> QED
  BY <1>2, <1>3, <1>4, <1>6 DEF PanelInv

\* Without a panel a resolution changes nothing, and the queue's head may go.
LEMMA NothingThere ==
    ASSUME PanelInv, UNCHANGED <<vars, currentRequest, windows, activePanel, answers>>, windows = {},
           mainQueue' \in Seq(Messages), QueueInv', dismissals' \subseteq Calls,
           mainQueue = <<>> => mainQueue' = <<>>
    PROVE  PanelInv'
<1>1. PanelType'
  BY DEF PanelInv, PanelType, vars
<1>2. WindowInv' /\ CurrentInv'
  BY DEF PanelInv, WindowInv, CurrentInv, Asking, vars
<1>3. AnswerInv'
  BY DEF PanelInv, AnswerInv, Asking, vars
<1> QED
  BY <1>1, <1>2, <1>3 DEF PanelInv

LEMMA PresentStep ==
    ASSUME PanelInv, Present
    PROVE  PanelInv'
<1> DEFINE m == Head(mainQueue)
<1>1. /\ mainQueue # <<>> /\ mainQueue' = Tail(mainQueue) /\ m.kind = "ask" /\ UNCHANGED vars
      /\ windows' = windows \cup {m.call} /\ activePanel' = m.call
      /\ UNCHANGED <<currentRequest, answers, dismissals>>
  BY DEF Present
<1>2. /\ mainQueue' \in Seq(Messages) /\ QueueInv' /\ m \in Messages
      /\ mainQueue' = <<>> => Asking = {m.call}
      /\ mainQueue' # <<>> => Head(mainQueue').kind # "ask" /\ Head(mainQueue').call = m.call
  BY <1>1, TailQueue DEF PanelInv
<1> HIDE DEF m
<1>3. windows' = {m.call} /\ m.call \in Calls
  <2>1. windows = {}
    BY <1>1 DEF PanelInv, WindowInv, m
  <2>2. \A x \in Messages : x.call \in Calls
    BY DEF Messages
  <2> QED
    BY <1>1, <1>2, <2>1, <2>2
<1>4. PanelType'
  BY <1>1, <1>2, <1>3 DEF PanelInv, PanelType, vars
<1>5. WindowInv'
  BY <1>1, <1>2, <1>3, BrokerAssumption DEF WindowInv, Asking, vars
<1>6. AnswerInv'
  BY <1>1 DEF PanelInv, AnswerInv, vars
<1>7. CurrentInv'
  BY <1>1 DEF PanelInv, CurrentInv, Asking, vars
<1> QED
  BY <1>2, <1>4, <1>5, <1>6, <1>7 DEF PanelInv

\* cancel takes down what is on the screen, which is what it names.
LEMMA CancelStep ==
    ASSUME PanelInv, Cancel
    PROVE  PanelInv' /\ dismissals' = dismissals \cup {Head(mainQueue).call}
           /\ windows \ windows' \subseteq {Head(mainQueue).call}
<1> DEFINE m == Head(mainQueue)
<1>1. /\ mainQueue # <<>> /\ mainQueue' = Tail(mainQueue) /\ m.kind = "cancel" /\ UNCHANGED vars
      /\ CancelFromCore /\ UNCHANGED currentRequest /\ dismissals' = dismissals \cup {m.call}
  BY DEF Cancel
<1>2. mainQueue' \in Seq(Messages) /\ QueueInv' /\ m \in Messages
  BY <1>1, TailQueue DEF PanelInv
<1> HIDE DEF m
<1>3. dismissals' \subseteq Calls
  BY <1>1, <1>2 DEF Messages, PanelInv, PanelType
<1>4. windows \subseteq {m.call}
  BY <1>1 DEF PanelInv, WindowInv, m
<1>5. CASE windows = {}
  <2>1. activePanel = Nobody
    BY <1>5 DEF PanelInv, WindowInv
  <2>2. UNCHANGED <<windows, activePanel, answers>>
    BY <1>1, <2>1 DEF CancelFromCore
  <2> QED
    BY <1>1, <1>2, <1>3, <1>5, <2>2, NothingThere DEF m
<1>6. ASSUME NEW c \in windows
      PROVE  PanelInv' /\ windows \ windows' \subseteq {m.call}
  <2>1. activePanel = c /\ c \in Calls /\ c \in Abandoned
    BY <1>1, <1>6, WindowOwner DEF PanelInv
  <2>2. Resolve(c, "Cancelled")
    BY <1>1, <2>1, BrokerAssumption DEF CancelFromCore
  <2>3. c \notin Asking
    BY <2>1 DEF Asking, Abandoned
  <2>4. "Cancelled" \in PanelReplies
    BY DEF PanelReplies
  <2> QED
    BY <1>1, <1>2, <1>3, <1>4, <2>2, <2>3, <2>4, ResolveInv
<1> QED
  BY <1>1, <1>5, <1>6 DEF m

\* The person, or the app that quits, resolves the panel that is there.
LEMMA PersonStep ==
    ASSUME PanelInv, ForceClose \/ \E c \in Calls : PersonAnswers(c)
    PROVE  PanelInv' /\ dismissals' = dismissals
<1>1. PICK c \in windows, result \in PanelReplies : Resolve(c, result)
  <2>1. CASE ForceClose
    <3>1. activePanel \in windows /\ Resolve(activePanel, "Cancelled")
      BY <2>1 DEF ForceClose, CancelFromCore, PanelInv, WindowInv
    <3> QED
      BY <3>1 DEF PanelReplies
  <2>2. CASE \E c \in Calls : PersonAnswers(c)
    BY <2>2 DEF PersonAnswers
  <2> QED
    BY <2>1, <2>2
<1>2. UNCHANGED <<vars, currentRequest, mainQueue, dismissals>>
  BY DEF ForceClose, PersonAnswers
<1>3. Asking' = Asking /\ Abandoned' = Abandoned
  BY <1>2 DEF vars, Asking, Abandoned
<1>4. QueueInv'
  BY <1>2, <1>3 DEF PanelInv, QueueInv
<1>5. c \in Asking => mainQueue = <<>>
  BY WindowOwner DEF PanelInv, Asking, Abandoned
<1>6. mainQueue \in Seq(Messages) /\ dismissals \subseteq Calls
  BY DEF PanelInv, PanelType
<1> QED
  BY <1>1, <1>2, <1>4, <1>5, <1>6, ResolveInv

LEMMA PanelStep == ControlInv /\ PanelInv /\ [PanelNext]_allVars => PanelInv'
<1> SUFFICES ASSUME ControlInv, PanelInv, [PanelNext]_allVars PROVE PanelInv'
  OBVIOUS
<1>1. ASSUME NEW c \in Calls, BrokerAlone(c) \/ DismissReturns(c) PROVE PanelInv'
  BY <1>1, AloneStep
<1>2. ASSUME PanelTick PROVE PanelInv'
  <2>1. UNCHANGED panelVars /\ phase' = phase /\ outcome' = outcome
    BY <1>2 DEF PanelTick, Tick
  <2> QED
    BY <2>1, QuietBroker DEF Asking, Abandoned
<1>3. CASE UNCHANGED allVars
  <2>1. UNCHANGED panelVars /\ phase' = phase /\ outcome' = outcome
    BY <1>3 DEF allVars, vars
  <2> QED
    BY <2>1, QuietBroker DEF Asking, Abandoned
<1> QED
  BY <1>1, <1>2, <1>3, OpenStep, AbandonStep, AnswerStep, PresentStep, CancelStep, PersonStep
     DEF PanelNext, MainActor

-----------------------------------------------------------------------------

\* With the app beside it the broker is still UiBroker: every theorem
\* above holds of the dialogs as they really are shown.
THEOREM PanelsRunTheBroker == PanelSpec => Spec
<1>1. PanelInit => Init
  BY DEF PanelInit
<1> QED
  BY <1>1, PanelStepIsBrokers, PTL DEF PanelSpec, Spec

\* This holds however far the main actor lags and whatever the person does.
THEOREM PanelInvariant == PanelSpec => [](BrokerInv /\ PanelInv)
<1>1. BrokerInv /\ PanelInv /\ [PanelNext]_allVars => PanelInv'
  BY PanelStep DEF BrokerInv
<1> QED
  BY <1>1, PanelInitInv, PanelsRunTheBroker, BrokerInvariant, PTL DEF PanelSpec

\* The app's state stays well formed.
THEOREM PanelTypeCorrect == PanelSpec => []PanelTypeOK
<1>1. PanelInv /\ TypeOK => PanelTypeOK
  BY DEF PanelInv, PanelType, PanelTypeOK
<1> QED
  BY <1>1, PanelInvariant, PanelsRunTheBroker, TypeCorrect, PTL

\* Panels never stack, and activePanel names the one there is (MacUiDelegate),
\* although the broker gives up on a dismiss that hangs.
THEOREM OnePanel == PanelSpec => []NoStackedPanels
<1>1. PanelInv => NoStackedPanels
  BY DEF PanelInv, WindowInv, NoStackedPanels
<1> QED
  BY <1>1, PanelInvariant, PTL

\* What the person sees is for the call that has the turn, or for one that
\* timed out and whose cancel waits in the main actor's queue.
THEOREM PanelOfTheTurn == PanelSpec => []PanelIsForTheTurn
<1>1. BrokerInv /\ PanelInv => PanelIsForTheTurn
  <2> SUFFICES ASSUME BrokerInv, PanelInv, NEW c \in windows
               PROVE  \/ turn = c
                      \/ /\ outcome[c] = "TimedOut"
                         /\ \E i \in DOMAIN mainQueue :
                               mainQueue[i] = [kind |-> "cancel", call |-> c]
    BY DEF PanelIsForTheTurn
  <2>1. c \in Calls /\ (phase[c] \in {"asking", "dismissing"} => turn = c)
    BY WindowOwner DEF PanelInv, BrokerInv, ControlInv, TurnInv
  <2> QED
    BY <2>1, WindowOwner DEF PanelInv, Asking, Abandoned
<1> QED
  BY <1>1, PanelInvariant, PTL

\* cancel ignores its request id and yet only takes down the panel of the
\* request it names (comment in MacUiDelegate.cancel): the main actor handles
\* it before any later dialog, and after its own.
THEOREM CancelIsItsOwn == PanelSpec => CancelHitsItsOwnPanel
<1>1. PanelInv /\ [PanelNext]_allVars =>
          [\A c \in dismissals' \ dismissals : windows \ windows' \subseteq {c}]_allVars
  <2> SUFFICES ASSUME PanelInv, [PanelNext]_allVars, NEW c \in dismissals' \ dismissals
               PROVE  windows \ windows' \subseteq {c}
    OBVIOUS
  <2>1. ASSUME NEW d \in Calls, OpenDialog(d) \/ AbandonDialog(d) \/ AnswerArrives(d) \/ DismissReturns(d)
                                \/ BrokerAlone(d) \/ PersonAnswers(d)
        PROVE  dismissals' = dismissals
    BY <2>1 DEF OpenDialog, AbandonDialog, AnswerArrives, DismissReturns, BrokerAlone, PersonAnswers, panelVars
  <2>2. ASSUME Present \/ ForceClose \/ PanelTick \/ UNCHANGED allVars PROVE dismissals' = dismissals
    BY <2>2 DEF Present, ForceClose, PanelTick, allVars, panelVars
  <2> QED
    BY <2>1, <2>2, CancelStep DEF PanelNext, MainActor
<1> QED
  BY <1>1, PanelInvariant, PTL DEF PanelSpec, CancelHitsItsOwnPanel
=============================================================================
