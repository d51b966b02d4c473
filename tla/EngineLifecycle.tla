--------------------------- MODULE EngineLifecycle ---------------------------
(***************************************************************************)
(* openimzo_ffi::Engine's start and stop over openimzo_server's Server:    *)
(* the handle of the current run, the tasks of each run, the one shutdown  *)
(* watch they all share, the server's events and the listener status kept  *)
(* from them, and the WebSocket connections that watch for the shutdown.   *)
(*                                                                         *)
(* Calls of start and stop may overlap: each step is one critical section  *)
(* of Engine.inner or one await.  A run is what one Server::start spawned, *)
(* named by the call that made it.  A watch receiver hears a change by its *)
(* version, not its value, so what it has to hear is a flag it has.        *)
(***************************************************************************)
EXTENDS Naturals, Sequences, FiniteSets

CONSTANTS
    Calls,        \* invocations of Engine::start and Engine::stop, each made once
    NoRun,        \* no run
    Connections   \* WebSocket connections, each made once

ASSUME LifecycleAssumption == NoRun \notin Calls

VARIABLES
    op,         \* what each call is: start or stop
    step,       \* where each call is
    mine,       \* the run each call has taken to stop it
    handle,     \* Inner.handle: the run it is of
    task,       \* for each run, where its tasks are
    shutdown,   \* the value in the watch AppState.shutdown
    told,       \* runs whose tasks have a change of the watch to hear
    events,     \* ServerEvents not yet seen by forward_server_events
    listeners,  \* Engine.listeners: the listeners believed to be up
    conn,       \* where each connection is
    connTold,   \* connections whose receiver has a change to hear
    overlapped  \* history: did a start spawn a run while another was being stopped?

callVars == <<op, step, mine>>
serverVars == <<task, shutdown, told>>
connVars == <<conn, connTold>>
vars == <<callVars, handle, serverVars, events, listeners, connVars, overlapped>>

Runs == Calls

Listeners == {"ws", "wss"}

Tasks == Listeners \cup {"sweeper"}

Events == [kind : {"Listening", "BindFailed"}, listener : Listeners] \cup [kind : {"Stopped"}]

TypeOK ==
    /\ op \in [Calls -> {"none", "start", "stop"}]
    /\ step \in [Calls -> {"idle", "signal", "join", "spawn", "done"}]
    /\ mine \in [Calls -> Runs \cup {NoRun}]
    /\ handle \in Runs \cup {NoRun}
    /\ task \in [Runs -> [Tasks -> {"none", "binding", "serving", "draining", "ended"}]]
    /\ shutdown \in BOOLEAN
    /\ told \subseteq Runs
    /\ events \in Seq(Events)
    /\ listeners \subseteq Listeners
    /\ conn \in [Connections -> {"none", "upgrading", "checking", "open", "closed"}]
    /\ connTold \subseteq Connections
    /\ overlapped \in BOOLEAN
    /\ \A c \in Calls : mine[c] # NoRun <=> step[c] \in {"signal", "join"}

Init ==
    /\ op = [c \in Calls |-> "none"]
    /\ step = [c \in Calls |-> "idle"]
    /\ mine = [c \in Calls |-> NoRun]
    /\ handle = NoRun
    /\ task = [r \in Runs |-> [t \in Tasks |-> "none"]]
    /\ shutdown = FALSE
    /\ told = {}
    /\ events = <<>>
    /\ listeners = {}
    /\ conn = [x \in Connections |-> "none"]
    /\ connTold = {}
    /\ overlapped = FALSE

Spawned == {r \in Runs : task[r]["sweeper"] # "none"}

Ended(r) == \A t \in Tasks : task[r][t] \in {"none", "ended"}

\* Calls that have taken a run to stop it and have not reported it stopped.
Stopping == {c \in Calls : step[c] \in {"signal", "join"}}

Goto(c, s) == step' = [step EXCEPT ![c] = s]

SetTask(r, t, s) == task' = [task EXCEPT ![r][t] = s]

Send(event) == events' = Append(events, event)

\* A send to the watch, true or false, is a change for every receiver.
SendWatch(value) ==
    /\ shutdown' = value
    /\ told' = Spawned
    /\ connTold' = {x \in Connections : conn[x] \in {"checking", "open"}}

-----------------------------------------------------------------------------
(* Engine::start and Engine::stop. *)

\* Both begin with the lock on inner: take the handle there is, to stop it.
TakeHandle(c) ==
    /\ mine' = [mine EXCEPT ![c] = handle]
    /\ handle' = NoRun
    /\ Goto(c, "signal")

\* A run with a listener up is left alone; one with none up is stale, and is
\* taken to be stopped first.
Start(c) ==
    /\ step[c] = "idle"
    /\ op' = [op EXCEPT ![c] = "start"]
    /\ \/ /\ handle # NoRun
          /\ listeners # {}
          /\ Goto(c, "done")
          /\ UNCHANGED <<mine, handle>>
       \/ /\ handle # NoRun
          /\ listeners = {}
          /\ TakeHandle(c)
       \/ /\ handle = NoRun
          /\ Goto(c, "spawn")
          /\ UNCHANGED <<mine, handle>>
    /\ UNCHANGED <<serverVars, events, listeners, connVars, overlapped>>

\* Mutant: with no listener up there is nothing to stop, and the handle is
\* dropped.
Stop_DropsStale(c) ==
    /\ step[c] = "idle"
    /\ op' = [op EXCEPT ![c] = "stop"]
    /\ \/ /\ handle # NoRun
          /\ listeners # {}
          /\ TakeHandle(c)
       \/ /\ handle = NoRun \/ listeners = {}
          /\ handle' = NoRun
          /\ Goto(c, "done")
          /\ UNCHANGED mine
    /\ UNCHANGED <<serverVars, events, listeners, connVars, overlapped>>

Stop(c) ==
    /\ step[c] = "idle"
    /\ op' = [op EXCEPT ![c] = "stop"]
    /\ \/ /\ handle # NoRun
          /\ TakeHandle(c)
       \/ /\ handle = NoRun
          /\ Goto(c, "done")
          /\ UNCHANGED <<mine, handle>>
    /\ UNCHANGED <<serverVars, events, listeners, connVars, overlapped>>

\* ServerHandle::stop flips the watch ...
Signal(c) ==
    /\ step[c] = "signal"
    /\ SendWatch(TRUE)
    /\ Goto(c, "join")
    /\ UNCHANGED <<op, mine, handle, task, events, listeners, conn, overlapped>>

\* Mutant: the tasks are not joined before the run is reported stopped.
Join_Early(c) ==
    /\ step[c] = "join"
    /\ Send([kind |-> "Stopped"])
    /\ mine' = [mine EXCEPT ![c] = NoRun]
    /\ Goto(c, IF op[c] = "start" THEN "spawn" ELSE "done")
    /\ UNCHANGED <<op, handle, serverVars, listeners, connVars, overlapped>>

\* ... joins the run's tasks, and reports it stopped.
Join(c) ==
    /\ step[c] = "join"
    /\ Ended(mine[c])
    /\ Send([kind |-> "Stopped"])
    /\ mine' = [mine EXCEPT ![c] = NoRun]
    /\ Goto(c, IF op[c] = "start" THEN "spawn" ELSE "done")
    /\ UNCHANGED <<op, handle, serverVars, listeners, connVars, overlapped>>

\* Server::start: the watch is reset before any task subscribes.  Without a
\* certificate that can be used there is no TLS task, only its BindFailed.
SpawnRun(r) ==
    /\ shutdown' = FALSE
    /\ told' = Spawned
    /\ connTold' = {x \in Connections : conn[x] \in {"checking", "open"}}
    /\ \/ /\ task' = [task EXCEPT ![r] = [t \in Tasks |->
                         IF t = "sweeper" THEN "serving" ELSE "binding"]]
          /\ UNCHANGED events
       \/ /\ task' = [task EXCEPT ![r] = [t \in Tasks |->
                         IF t = "sweeper" THEN "serving"
                         ELSE IF t = "ws" THEN "binding" ELSE "ended"]]
          /\ Send([kind |-> "BindFailed", listener |-> "wss"])
    /\ handle' = r
    /\ overlapped' = (overlapped \/ Stopping # {})

\* The second critical section of start: another start may have been first.
Spawn(c) ==
    /\ step[c] = "spawn"
    /\ \/ /\ handle # NoRun
          /\ UNCHANGED <<handle, serverVars, events, connTold, overlapped>>
       \/ /\ handle = NoRun
          /\ SpawnRun(c)
    /\ Goto(c, "done")
    /\ UNCHANGED <<op, mine, listeners, conn>>

-----------------------------------------------------------------------------
(* A run's tasks, and what becomes of their events. *)

PortFree(l) == \A r \in Runs : task[r][l] # "serving"

Bind(r, l) ==
    /\ task[r][l] = "binding"
    /\ PortFree(l)
    /\ SetTask(r, l, "serving")
    /\ Send([kind |-> "Listening", listener |-> l])
    /\ UNCHANGED <<callVars, handle, shutdown, told, listeners, connVars, overlapped>>

\* The port is held by another run, by the original E-IMZO, or refused.
BindFails(r, l) ==
    /\ task[r][l] = "binding"
    /\ SetTask(r, l, "ended")
    /\ Send([kind |-> "BindFailed", listener |-> l])
    /\ UNCHANGED <<callVars, handle, shutdown, told, listeners, connVars, overlapped>>

\* What hearing the watch makes of a serving task: the plain listener is
\* closed and its connections are given time to finish, the others return.
Heard(t) == IF t = "ws" THEN "draining" ELSE "ended"

\* Mutant: the sweeper does not watch for the shutdown.
Close_NotSweeper(r, t) ==
    /\ task[r][t] = "serving"
    /\ t # "sweeper"
    /\ r \in told
    /\ SetTask(r, t, Heard(t))
    /\ UNCHANGED <<callVars, handle, shutdown, told, events, listeners, connVars, overlapped>>

\* A serving task's shutdown.changed() is ready, in its select or behind
\* axum's graceful shutdown.
Close(r, t) ==
    /\ task[r][t] = "serving"
    /\ r \in told
    /\ SetTask(r, t, Heard(t))
    /\ UNCHANGED <<callVars, handle, shutdown, told, events, listeners, connVars, overlapped>>

\* axum's graceful shutdown is over: the clients have finished.
Drained(r) ==
    /\ task[r]["ws"] = "draining"
    /\ SetTask(r, "ws", "ended")
    /\ UNCHANGED <<callVars, handle, shutdown, told, events, listeners, connVars, overlapped>>

\* The status after an event.
Status(event) ==
    CASE event.kind = "Listening" -> listeners \cup {event.listener}
      [] event.kind = "BindFailed" -> listeners \ {event.listener}
      [] event.kind = "Stopped" -> {}

\* forward_server_events takes the next event.
Forward ==
    /\ events # <<>>
    /\ listeners' = Status(Head(events))
    /\ events' = Tail(events)
    /\ UNCHANGED <<callVars, handle, serverVars, connVars, overlapped>>

-----------------------------------------------------------------------------
(* WebSocket connections (ws::upgrade and ws::serve). *)

\* A client connects to a listener that serves.
Connect(x) ==
    /\ conn[x] = "none"
    /\ \E r \in Runs, l \in Listeners : task[r][l] = "serving"
    /\ conn' = [conn EXCEPT ![x] = "upgrading"]
    /\ UNCHANGED <<callVars, handle, serverVars, events, listeners, connTold, overlapped>>

\* serve subscribes: what is in the watch by now counts as seen ...
Subscribe(x) ==
    /\ conn[x] = "upgrading"
    /\ conn' = [conn EXCEPT ![x] = "checking"]
    /\ UNCHANGED <<callVars, handle, serverVars, events, listeners, connTold, overlapped>>

\* Mutant: the value in the watch is not looked at.
CheckShutdown_Redundant(x) ==
    /\ conn[x] = "checking"
    /\ conn' = [conn EXCEPT ![x] = "open"]
    /\ UNCHANGED <<callVars, handle, serverVars, events, listeners, connTold, overlapped>>

\* ... so the value is looked at before the loop is entered.
CheckShutdown(x) ==
    /\ conn[x] = "checking"
    /\ conn' = [conn EXCEPT ![x] = IF shutdown THEN "closed" ELSE "open"]
    /\ UNCHANGED <<callVars, handle, serverVars, events, listeners, connTold, overlapped>>

\* The loop hears the watch, once the request it is at has its reply.
HangUp(x) ==
    /\ conn[x] = "open"
    /\ x \in connTold
    /\ conn' = [conn EXCEPT ![x] = "closed"]
    /\ UNCHANGED <<callVars, handle, serverVars, events, listeners, connTold, overlapped>>

\* The client leaves, or its one request has been answered.
ClientLeaves(x) ==
    /\ conn[x] = "open"
    /\ conn' = [conn EXCEPT ![x] = "closed"]
    /\ UNCHANGED <<callVars, handle, serverVars, events, listeners, connTold, overlapped>>

-----------------------------------------------------------------------------

CallStep(c) == Signal(c) \/ Join(c) \/ Spawn(c)

TaskStep(r) ==
    \/ \E l \in Listeners : Bind(r, l) \/ BindFails(r, l)
    \/ \E t \in Tasks : Close(r, t)

ConnStep(x) == Subscribe(x) \/ CheckShutdown(x) \/ HangUp(x)

Next ==
    \/ \E c \in Calls : Start(c) \/ Stop(c) \/ CallStep(c)
    \/ \E r \in Runs : TaskStep(r) \/ Drained(r)
    \/ Forward
    \/ \E x \in Connections : Connect(x) \/ ConnStep(x) \/ ClientLeaves(x)

Spec == Init /\ [][Next]_vars

\* The runtime polls what is ready.  Clients of the plain listener need not
\* finish, nobody has to call, and nobody has to connect or leave.
Fairness ==
    /\ \A c \in Calls : WF_vars(CallStep(c))
    /\ \A r \in Runs : WF_vars(TaskStep(r))
    /\ WF_vars(Forward)
    /\ \A x \in Connections : WF_vars(ConnStep(x))

FairSpec == Spec /\ Fairness

-----------------------------------------------------------------------------

\* A run that has tasks nobody has told to end is in the handle, or with a
\* call that is about to tell them: no start leaves listeners behind that no
\* stop can reach (comment in Engine::start on the stale handle).
NoRunIsLost ==
    \A r \in Spawned \ told :
        \/ handle = r
        \/ \E c \in Calls : step[c] = "signal" /\ mine[c] = r

\* No connection sleeps through a stop: one that is in its loop while the
\* watch says stopped has the change still to hear, however its upgrade and
\* the stop raced (comment in ws::serve on the check before the loop).
ConnectionsHearTheStop ==
    \A x \in Connections : conn[x] = "open" /\ shutdown => x \in connTold

\* Nothing under way: no call, no bind, no event, and every told run is down.
Quiet ==
    /\ events = <<>>
    /\ \A c \in Calls : step[c] \in {"idle", "done"}
    /\ \A r \in Runs : \A l \in Listeners : task[r][l] # "binding"
    /\ \A r \in told : Ended(r)

Up == {l \in Listeners : \E r \in Runs : task[r][l] = "serving"}

\* The status says which listeners are really bound (doc of ListenerStatus),
\* once what is under way has ended, as long as no start spawned a run while
\* another call was stopping one: the late Stopped, or the late signal, of the
\* old run is taken for the new one's.
StatusIsTrue == Quiet /\ ~overlapped => listeners = Up

\* Doc of start: "Calling this twice while already running is a no-op": a call
\* of start takes no handle of a run that serves.
StartLeavesARunningServer ==
    [][\A c \in Calls :
          step[c] = "idle" /\ op'[c] = "start" /\ mine'[c] # NoRun
             => \A l \in Listeners : task[mine'[c]][l] # "serving"]_vars

\* start and stop return, unless a client of the plain listener hangs on.
CallsReturn ==
    \A c \in Calls :
        step[c] # "idle" ~> \/ step[c] = "done"
                            \/ \E r \in Runs : task[r]["ws"] = "draining"

=============================================================================
