------------------------------ MODULE UiPanels ------------------------------
(***************************************************************************)
(* The broker together with the app's side of a dialog: UiDelegateAdapter  *)
(* (openimzo-ffi) mints a request id and calls into Swift, whose           *)
(* MacUiDelegate presents and cancels panels on the main actor.            *)
(*                                                                         *)
(* A call from Rust is a message in the main actor's queue: it is handled  *)
(* in order, at any later time.  Dropping the Rust future takes no message *)
(* back (present awaits a continuation that ignores cancellation).         *)
(***************************************************************************)
EXTENDS UiBroker, Sequences

VARIABLES
    currentRequest,  \* UiDelegateAdapter.current_request: the call it is of
    mainQueue,       \* what Rust has asked of the main actor, not yet run
    windows,         \* calls whose panel is on the screen, unresolved
    activePanel,     \* MacUiDelegate.activePanel: the call it is of
    answers,         \* continuations resumed, their answer not yet in Rust
    dismissals       \* cancel(requestId:) calls that returned

panelVars == <<currentRequest, mainQueue, windows, activePanel, answers, dismissals>>

allVars == <<vars, panelVars>>

Messages == [kind : {"ask", "cancel"}, call : Calls]

\* What a panel resolves with: an answer, or its cancellation value, which the
\* adapter turns into UiError::Cancelled (permission, legacy algorithm and
\* randseed panels resolve with a refusal instead, an answer like another).
PanelReplies == {"Ok", "Cancelled"}

PanelTypeOK ==
    /\ TypeOK
    /\ currentRequest \in Calls \cup {Nobody}
    /\ mainQueue \in Seq(Messages)
    /\ windows \subseteq Calls
    /\ activePanel \in Calls \cup {Nobody}
    /\ answers \subseteq Calls \X PanelReplies
    /\ dismissals \subseteq Calls

PanelInit ==
    /\ Init
    /\ currentRequest = Nobody
    /\ mainQueue = <<>>
    /\ windows = {}
    /\ activePanel = Nobody
    /\ answers = {}
    /\ dismissals = {}

-----------------------------------------------------------------------------
(* The broker's steps, with what they ask of the app. *)

Post(kind, c) == mainQueue' = Append(mainQueue, [kind |-> kind, call |-> c])

\* begin_request, then the foreign ask_* call.
OpenDialog(c) ==
    /\ EnterFreeTurn(c) \/ TakeTurn(c)
    /\ currentRequest' = c
    /\ Post("ask", c)
    /\ UNCHANGED <<windows, activePanel, answers, dismissals>>

\* Mutant: the future is dropped and nobody tells the app.
AbandonDialog_Silently(c) ==
    /\ AskTimesOut(c)
    /\ UNCHANGED panelVars

\* dismiss reads current_request and calls cancel with it.
AbandonDialog(c) ==
    /\ AskTimesOut(c)
    /\ Post("cancel", currentRequest)
    /\ UNCHANGED <<currentRequest, windows, activePanel, answers, dismissals>>

AnswerArrives(c) ==
    /\ \E result \in PanelReplies : <<c, result>> \in answers /\ Reply(c, result)
    /\ UNCHANGED panelVars

DismissReturns(c) ==
    /\ currentRequest \in dismissals
    /\ Dismissed(c)
    /\ UNCHANGED panelVars

\* Steps of the broker the app hears nothing of.
BrokerAlone(c) ==
    /\ Refuse(c) \/ JoinQueue(c) \/ GiveUpWaiting(c) \/ DismissTimesOut(c)
    /\ UNCHANGED panelVars

-----------------------------------------------------------------------------
(* The main actor and the person. *)

\* Mutant: activePanel is left pointing at a panel that has closed.
Resolve_KeepsActive(c, result) ==
    /\ windows' = windows \ {c}
    /\ answers' = answers \cup {<<c, result>>}
    /\ UNCHANGED activePanel

\* RequestFinishBox.finish: the first resolution of a panel closes it, clears
\* activePanel and resumes its continuation; a second one does nothing.
Resolve(c, result) ==
    IF c \in windows
    THEN /\ windows' = windows \ {c}
         /\ activePanel' = Nobody
         /\ answers' = answers \cup {<<c, result>>}
    ELSE UNCHANGED <<windows, activePanel, answers>>

CancelFromCore ==
    IF activePanel = Nobody
    THEN UNCHANGED <<windows, activePanel, answers>>
    ELSE Resolve(activePanel, "Cancelled")

\* MacUiDelegate.present.
Present ==
    /\ mainQueue # <<>>
    /\ Head(mainQueue).kind = "ask"
    /\ windows' = windows \cup {Head(mainQueue).call}
    /\ activePanel' = Head(mainQueue).call
    /\ mainQueue' = Tail(mainQueue)
    /\ UNCHANGED <<vars, currentRequest, answers, dismissals>>

\* Mutant: a cancel may overtake what was asked of the main actor before it.
Cancel_Overtakes ==
    \E i \in DOMAIN mainQueue :
        /\ mainQueue[i].kind = "cancel"
        /\ CancelFromCore
        /\ dismissals' = dismissals \cup {mainQueue[i].call}
        /\ mainQueue' = SubSeq(mainQueue, 1, i - 1)
                         \o SubSeq(mainQueue, i + 1, Len(mainQueue))
        /\ UNCHANGED <<vars, currentRequest>>

\* MacUiDelegate.cancel(requestId:): whatever panel is active is cancelled.
Cancel ==
    /\ mainQueue # <<>>
    /\ Head(mainQueue).kind = "cancel"
    /\ CancelFromCore
    /\ dismissals' = dismissals \cup {Head(mainQueue).call}
    /\ mainQueue' = Tail(mainQueue)
    /\ UNCHANGED <<vars, currentRequest>>

\* The person submits, refuses, presses Escape or closes the window.
PersonAnswers(c) ==
    /\ c \in windows
    /\ \E result \in PanelReplies : Resolve(c, result)
    /\ UNCHANGED <<vars, currentRequest, mainQueue, dismissals>>

\* forceCloseActivePanel, when the app quits.
ForceClose ==
    /\ activePanel # Nobody
    /\ CancelFromCore
    /\ UNCHANGED <<vars, currentRequest, mainQueue, dismissals>>

MainActor == Present \/ Cancel

PanelTick == Tick /\ UNCHANGED panelVars

\* The runtime polls a call that is under way.
PollPanel(c) ==
    /\ phase[c] # "idle"
    /\ OpenDialog(c) \/ AbandonDialog(c) \/ BrokerAlone(c)

PanelNext ==
    \/ \E c \in Calls :
          \/ OpenDialog(c)
          \/ AbandonDialog(c)
          \/ AnswerArrives(c)
          \/ DismissReturns(c)
          \/ BrokerAlone(c)
          \/ PersonAnswers(c)
    \/ MainActor
    \/ ForceClose
    \/ PanelTick

PanelSpec == PanelInit /\ [][PanelNext]_allVars

\* The main actor gets to what it was asked; the runtime polls and the clock
\* advances.  The person need not answer.
PanelFairSpec ==
    /\ PanelSpec
    /\ WF_allVars(MainActor)
    /\ WF_allVars(PanelTick)
    /\ \A c \in Calls : WF_allVars(PollPanel(c))

-----------------------------------------------------------------------------

\* There is never more than one panel on the screen, and it is the one
\* activePanel names (comment on MacUiDelegate.activePanel), although the main
\* actor may be far behind and a dismiss may have been given up on.
NoStackedPanels == windows = {activePanel} \ {Nobody}

\* The panel on the screen is for the call that has the turn, or for one that
\* timed out and whose cancel is on its way.
PanelIsForTheTurn ==
    \A c \in windows :
        \/ turn = c
        \/ /\ outcome[c] = "TimedOut"
           /\ \E i \in DOMAIN mainQueue :
                 mainQueue[i] = [kind |-> "cancel", call |-> c]

\* cancel ignores its requestId, yet it only ever takes down the panel of the
\* request it names (comment in MacUiDelegate.cancel).
CancelHitsItsOwnPanel ==
    [][\A c \in dismissals' \ dismissals : windows \ windows' \subseteq {c}]_allVars

\* A panel whose call has returned does not stay on the screen: the original
\* hides its window rather than leaving it up for a request nobody waits on.
PanelsComeDown ==
    \A c \in Calls : (c \in windows /\ phase[c] = "done") ~> c \notin windows

=============================================================================
