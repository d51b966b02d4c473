----------------------------- MODULE ShellStatus -----------------------------
(***************************************************************************)
(* The engine's lifecycle as the app drives it (CoreEngine, EventPump): a  *)
(* launch task starts the engine, reads its status, loads the rest and     *)
(* only then subscribes to the engine's events; from then on every event   *)
(* makes the pump read the status again; views read it when they appear;   *)
(* quitting races a task that stops the engine against one that sleeps.    *)
(*                                                                         *)
(* status() takes its snapshot of the listeners, may probe the TLS         *)
(* listener for seconds, and is assigned on the main actor afterwards, so  *)
(* a read and its assignment are separate steps.                           *)
(***************************************************************************)
EXTENDS EngineLifecycle

CONSTANTS
    LaunchCall,  \* the call of start in retryConstruction
    QuitCall     \* the call of stop in prepareForQuit

ASSUME ShellAssumption == LaunchCall # QuitCall /\ {LaunchCall, QuitCall} \subseteq Calls

VARIABLES
    launch,    \* where the launch task is
    pump,      \* where EventPump's task is
    view,      \* where a view's refreshStatus is
    snapshot,  \* the status each of them has read and not yet assigned
    shown,     \* CoreEngine.status
    nudges,    \* ServerStateChanged events in the pump's subscription
    quit,      \* the race of prepareForQuit: its tasks still running, its
               \* OnceFlag and how often its continuation was resumed
    heard,     \* history: has the pump read the status since it last missed an event?
    crossed    \* history: were two reads of the status ever under way at once?

shellVars == <<launch, pump, view, snapshot, shown, nudges, quit, heard, crossed>>

readVars == <<snapshot, shown>>

allVars == <<vars, shellVars>>

Readers == {"launch", "pump", "view"}

Racers == {"stop", "sleep"}

NoQuit == [running |-> {}, fired |-> FALSE, resumed |-> 0]

ShellTypeOK ==
    /\ TypeOK
    /\ launch \in {"starting", "reading", "assigning", "loading", "over"}
    /\ pump \in {"off", "idle", "reading", "assigning"}
    /\ view \in {"idle", "assigning"}
    /\ snapshot \in [Readers -> SUBSET Listeners]
    /\ shown \subseteq Listeners
    /\ nudges \in Nat
    /\ quit \in [running : SUBSET Racers, fired : BOOLEAN, resumed : Nat]
    /\ heard \in BOOLEAN
    /\ crossed \in BOOLEAN
    /\ pump = "off" => nudges = 0

\* A status not read yet (nil) shows no listener, like one with none up.
ShellInit ==
    /\ Init
    /\ launch = "starting"
    /\ pump = "off"
    /\ view = "idle"
    /\ snapshot = [r \in Readers |-> {}]
    /\ shown = {}
    /\ nudges = 0
    /\ quit = NoQuit
    /\ heard = FALSE
    /\ crossed = FALSE

\* Readers whose snapshot is still to be assigned.
Reading ==
    {r \in Readers : \/ r = "launch" /\ launch = "assigning"
                     \/ r = "pump" /\ pump = "assigning"
                     \/ r = "view" /\ view = "assigning"}

\* Engine::status, up to the probe ...
Read(r) ==
    /\ snapshot' = [snapshot EXCEPT ![r] = listeners]
    /\ crossed' = (crossed \/ Reading # {})
    /\ heard' = (heard \/ r = "pump")
    /\ UNCHANGED <<vars, shown, nudges, quit>>

\* ... and what refreshStatus does with what it returns.
Assign(r) ==
    /\ shown' = snapshot[r]
    /\ snapshot' = [snapshot EXCEPT ![r] = {}]
    /\ UNCHANGED <<vars, nudges, quit, heard, crossed>>

-----------------------------------------------------------------------------
(* The launch task of retryConstruction. *)

LaunchStarts ==
    /\ launch = "starting"
    /\ Start(LaunchCall)
    /\ UNCHANGED shellVars

LaunchReads ==
    /\ launch = "starting"
    /\ step[LaunchCall] = "done"
    /\ launch' = "reading"
    /\ UNCHANGED <<vars, pump, view, readVars, nudges, quit, heard, crossed>>

LaunchRefreshes ==
    \/ launch = "reading" /\ Read("launch") /\ launch' = "assigning" /\ UNCHANGED <<pump, view>>
    \/ /\ launch = "assigning"
       /\ Assign("launch")
       /\ launch' = "loading"
       /\ UNCHANGED <<pump, view>>

\* The keys, sites, settings and activity have been loaded: pump.start().
PumpStarts ==
    /\ launch = "loading"
    /\ launch' = "over"
    /\ pump' = "idle"
    /\ UNCHANGED <<vars, view, readVars, nudges, quit, heard, crossed>>

-----------------------------------------------------------------------------
(* The pump and the views. *)

\* Mutant: the pump is told of listeners that come up, not of a stop.
Nudge_NotOfStops ==
    nudges' = IF pump # "off" /\ Head(events).kind # "Stopped" THEN nudges + 1 ELSE nudges

\* A broadcast reaches the receivers there are.
Nudge == nudges' = IF pump # "off" THEN nudges + 1 ELSE nudges

ForwardAndNudge ==
    /\ Forward
    /\ Nudge
    /\ UNCHANGED <<launch, pump, view, readVars, quit, heard, crossed>>

PumpTakes ==
    /\ pump = "idle"
    /\ nudges > 0
    /\ nudges' = nudges - 1
    /\ pump' = "reading"
    /\ UNCHANGED <<vars, launch, view, readVars, quit, heard, crossed>>

\* The pump has fallen behind by EVENT_CAPACITY events, log lines most of
\* them, and the oldest is dropped; next() goes on with those after it.
EventDropped ==
    /\ nudges > 0
    /\ nudges' = nudges - 1
    /\ heard' = FALSE
    /\ UNCHANGED <<vars, launch, pump, view, readVars, quit, crossed>>

PumpRefreshes ==
    \/ pump = "reading" /\ Read("pump") /\ pump' = "assigning" /\ UNCHANGED <<launch, view>>
    \/ /\ pump = "assigning"
       /\ Assign("pump")
       /\ pump' = "idle"
       /\ UNCHANGED <<launch, view>>

ViewRefreshes ==
    \/ view = "idle" /\ Read("view") /\ view' = "assigning" /\ UNCHANGED <<launch, pump>>
    \/ /\ view = "assigning"
       /\ Assign("view")
       /\ view' = "idle"
       /\ UNCHANGED <<launch, pump>>

-----------------------------------------------------------------------------
(* Quitting: prepareForQuit, whose continuation either task may resume. *)

QuitBegins ==
    /\ quit = NoQuit
    /\ quit' = [quit EXCEPT !.running = Racers]
    /\ UNCHANGED <<vars, launch, pump, view, readVars, nudges, heard, crossed>>

QuitStops ==
    /\ "stop" \in quit.running
    /\ Stop(QuitCall)
    /\ UNCHANGED shellVars

\* Mutant: whichever task comes to its end resumes.
Fires_Unasked(r) ==
    quit' = [running |-> quit.running \ {r},
             fired |-> TRUE,
             resumed |-> quit.resumed + 1]

\* A task of race comes to its end: only the first to fire the flag resumes.
Fires(r) ==
    quit' = [running |-> quit.running \ {r},
             fired |-> TRUE,
             resumed |-> IF quit.fired THEN quit.resumed ELSE quit.resumed + 1]

\* engine.stop() has returned, or the timeout has passed.
RacerEnds(r) ==
    /\ r \in quit.running
    /\ r = "stop" => step[QuitCall] = "done"
    /\ Fires(r)
    /\ UNCHANGED <<vars, launch, pump, view, readVars, nudges, heard, crossed>>

\* The engine's own steps.
EngineStep ==
    /\ \/ \E c \in Calls : CallStep(c)
       \/ \E r \in Runs : TaskStep(r)
       \/ \E x \in Connections : ConnStep(x)
    /\ UNCHANGED shellVars

\* What clients do.
ClientStep ==
    /\ \/ \E r \in Runs : Drained(r)
       \/ \E x \in Connections : Connect(x) \/ ClientLeaves(x)
    /\ UNCHANGED shellVars

LaunchStep == LaunchStarts \/ LaunchReads \/ LaunchRefreshes \/ PumpStarts

PumpStep == PumpTakes \/ PumpRefreshes

ShellNext ==
    \/ EngineStep
    \/ ClientStep
    \/ ForwardAndNudge
    \/ LaunchStep
    \/ PumpStep
    \/ EventDropped
    \/ ViewRefreshes
    \/ QuitBegins
    \/ QuitStops
    \/ \E r \in Racers : RacerEnds(r)

ShellSpec == ShellInit /\ [][ShellNext]_allVars

\* The runtime and the main actor run what is ready, and a sleep ends.
\* The person need not quit, nor a client finish.
ShellFairSpec ==
    /\ ShellSpec
    /\ \A c \in Calls : WF_allVars(CallStep(c) /\ UNCHANGED shellVars)
    /\ \A r \in Runs : WF_allVars(TaskStep(r) /\ UNCHANGED shellVars)
    /\ \A x \in Connections : WF_allVars(ConnStep(x) /\ UNCHANGED shellVars)
    /\ WF_allVars(ForwardAndNudge)
    /\ WF_allVars(LaunchStep)
    /\ WF_allVars(PumpStep)
    /\ WF_allVars(QuitStops)
    /\ \A r \in Racers : WF_allVars(RacerEnds(r))

-----------------------------------------------------------------------------

\* Nothing is under way in the engine, the launch, the pump or a view.
Settled ==
    /\ Quiet
    /\ launch = "over"
    /\ nudges = 0
    /\ pump = "idle"
    /\ view = "idle"

\* Once the pump has heard of a change and missed none since, the app shows
\* the listeners that are really up (doc of EventPump), unless two reads of
\* the status have crossed.
ShownIsTrue == Settled /\ heard /\ ~crossed => shown = Up

\* "a stop that hangs cannot make Quit hang" (doc of prepareForQuit), even
\* while a client keeps the plain listener from closing; and whichever task
\* wins, the other, which goes on, does not resume the continuation again,
\* which would end the process.
QuitReturns == quit.running # {} ~> [](quit.resumed = 1)

=============================================================================
