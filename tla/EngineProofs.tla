---------------------------- MODULE EngineProofs ----------------------------
(***************************************************************************)
(* Theorems about EngineLifecycle and about ShellStatus, the app that      *)
(* drives it.                                                              *)
(*                                                                         *)
(* The first part is about the engine alone, for any number of overlapping *)
(* calls of start and stop and any number of connections.                  *)
(*                                                                         *)
(* The second part is about the app: the engine it drives is the one of    *)
(* the first part; its one start and one stop can never overlap in the way *)
(* that lets the status lie; and what the window shows is then what is up. *)
(* The argument is about the reads: while at most one is under way at a    *)
(* time, the last one of them that the pump began is of the listeners as   *)
(* they are, until the next event, and then there is a nudge.              *)
(***************************************************************************)
EXTENDS ShellStatus, TLAPS

\* One call's progress, without the task and the event it may touch.
CallType ==
    /\ op \in [Calls -> {"none", "start", "stop"}]
    /\ step \in [Calls -> {"idle", "signal", "join", "spawn", "done"}]
    /\ mine \in [Calls -> Runs \cup {NoRun}]
    /\ handle \in Runs \cup {NoRun}
    /\ \A c \in Calls : mine[c] # NoRun <=> step[c] \in {"signal", "join"}

ServerType ==
    /\ task \in [Runs -> [Tasks -> {"none", "binding", "serving", "draining", "ended"}]]
    /\ shutdown \in BOOLEAN
    /\ told \subseteq Runs

StatusType ==
    /\ events \in Seq(Events)
    /\ listeners \subseteq Listeners
    /\ overlapped \in BOOLEAN

ConnType ==
    /\ conn \in [Connections -> {"none", "upgrading", "checking", "open", "closed"}]
    /\ connTold \subseteq Connections

LEMMA TypeParts == TypeOK <=> CallType /\ ServerType /\ StatusType /\ ConnType
BY DEF TypeOK, CallType, ServerType, StatusType, ConnType

\* What an event does to the status keeps it a set of listeners.
LEMMA StatusOfEvent ==
    ASSUME listeners \subseteq Listeners, NEW event \in Events
    PROVE  Status(event) \subseteq Listeners
BY DEF Status, Events, Listeners

\* Events stay a sequence of events.
LEMMA SendType ==
    ASSUME events \in Seq(Events), NEW event \in Events, Send(event)
    PROVE  events' \in Seq(Events)
BY DEF Send

LEMMA TypeInit == Init => TypeOK
<1> SUFFICES ASSUME Init PROVE TypeOK
  OBVIOUS
<1>1. CallType
  BY LifecycleAssumption DEF Init, CallType, Runs
<1>2. ServerType
  BY DEF Init, ServerType
<1>3. StatusType
  <2>1. events \in Seq(Events)
    BY DEF Init
  <2>2. QED BY <2>1 DEF Init, StatusType
<1>4. ConnType
  BY DEF Init, ConnType
<1>5. QED BY <1>1, <1>2, <1>3, <1>4, TypeParts

LEMMA StartStopType ==
    ASSUME TypeOK, NEW c \in Calls, Start(c) \/ Stop(c)
    PROVE  TypeOK'
<1>1. ServerType' /\ StatusType' /\ ConnType'
  BY TypeParts DEF Start, Stop, serverVars, connVars, ServerType, StatusType, ConnType
<1>2. CallType'
  <2>1. CASE handle # NoRun /\ TakeHandle(c) /\ op' \in [Calls -> {"none", "start", "stop"}]
    BY <2>1, LifecycleAssumption DEF TypeOK, TakeHandle, Goto, CallType, Runs
  <2>2. ASSUME UNCHANGED <<mine, handle>>, NEW s \in {"spawn", "done"}, Goto(c, s),
               step[c] = "idle", op' \in [Calls -> {"none", "start", "stop"}]
        PROVE  CallType'
    BY <2>2 DEF TypeOK, Goto, CallType
  <2>3. step[c] = "idle" /\ op' \in [Calls -> {"none", "start", "stop"}]
    BY DEF TypeOK, Start, Stop
  <2>4. QED BY <2>1, <2>2, <2>3 DEF Start, Stop
<1>3. QED BY <1>1, <1>2 DEF TypeOK, CallType, ServerType, StatusType, ConnType

LEMMA CallStepType ==
    ASSUME TypeOK, NEW c \in Calls, CallStep(c)
    PROVE  TypeOK'
<1>1. CallType'
  <2>1. CASE Signal(c)
    BY <2>1 DEF TypeOK, Signal, Goto, CallType
  <2>2. CASE Join(c)
    <3>1. /\ step' \in [Calls -> {"idle", "signal", "join", "spawn", "done"}]
          /\ step'[c] \in {"spawn", "done"}
          /\ \A d \in Calls : d # c => step'[d] = step[d]
      BY <2>2 DEF TypeOK, Join, Goto
    <3>2. /\ mine' = [mine EXCEPT ![c] = NoRun]
          /\ UNCHANGED <<op, handle>>
      BY <2>2 DEF Join
    <3>3. QED BY <3>1, <3>2 DEF TypeOK, CallType
  <2>3. CASE Spawn(c)
    BY <2>3, LifecycleAssumption DEF TypeOK, Spawn, SpawnRun, Goto, CallType, Runs
  <2>4. QED BY <2>1, <2>2, <2>3 DEF CallStep
<1>2. ServerType'
  <2>1. CASE Signal(c)
    BY <2>1 DEF TypeOK, Signal, SendWatch, ServerType, Spawned
  <2>2. CASE Join(c) \/ (Spawn(c) /\ handle # NoRun)
    BY <2>2 DEF TypeOK, Join, Spawn, SpawnRun, serverVars, ServerType
  <2>3. CASE Spawn(c) /\ handle = NoRun
    <3>1. shutdown' \in BOOLEAN /\ told' \subseteq Runs
      BY <2>3 DEF Spawn, SpawnRun, Spawned
    <3>2. task' \in [Runs -> [Tasks -> {"none", "binding", "serving", "draining", "ended"}]]
      BY <2>3 DEF TypeOK, Spawn, SpawnRun, Runs
    <3>3. QED BY <3>1, <3>2 DEF ServerType
  <2>4. QED BY <2>1, <2>2, <2>3 DEF CallStep
<1>3. StatusType'
  <2>1. CASE Signal(c) \/ Join(c)
    <3>1. [kind |-> "Stopped"] \in Events
      BY DEF Events
    <3>2. events' \in Seq(Events)
      <4>1. events \in Seq(Events)
        BY DEF TypeOK
      <4>2. QED BY <2>1, <3>1, <4>1, SendType DEF Signal, Join
    <3>3. QED BY <2>1, <3>2 DEF TypeOK, Signal, Join, StatusType
  <2>2. CASE Spawn(c)
    <3>1. [kind |-> "BindFailed", listener |-> "wss"] \in Events
      BY DEF Events, Listeners
    <3>2. overlapped' \in BOOLEAN
      BY <2>2 DEF TypeOK, Spawn, SpawnRun
    <3>3. events' \in Seq(Events) /\ listeners' \subseteq Listeners
      BY <2>2, <3>1 DEF TypeOK, Spawn, SpawnRun, Send
    <3>4. QED BY <3>2, <3>3 DEF StatusType
  <2>3. QED BY <2>1, <2>2 DEF CallStep
<1>4. ConnType'
  BY DEF TypeOK, CallStep, Signal, Join, Spawn, SpawnRun, SendWatch, connVars, ConnType
<1>5. QED BY <1>1, <1>2, <1>3, <1>4 DEF TypeOK, CallType, ServerType, StatusType, ConnType

LEMMA TaskType ==
    ASSUME TypeOK, NEW r \in Runs, TaskStep(r) \/ Drained(r)
    PROVE  TypeOK'
<1>1. CallType' /\ ConnType'
  BY DEF TypeOK, TaskStep, Drained, Bind, BindFails, Close, callVars, connVars,
         CallType, ConnType
<1>2. ServerType'
  BY DEF TypeOK, TaskStep, Drained, Bind, BindFails, Close, Heard, SetTask, ServerType,
         Tasks, Listeners
<1>3. StatusType'
  <2>1. \A l \in Listeners : /\ [kind |-> "Listening", listener |-> l] \in Events
                             /\ [kind |-> "BindFailed", listener |-> l] \in Events
    BY DEF Events
  <2>2. events' \in Seq(Events)
    <3>1. CASE \E l \in Listeners : Bind(r, l) \/ BindFails(r, l)
      <4>1. events \in Seq(Events)
        BY DEF TypeOK
      <4>2. QED BY <2>1, <3>1, <4>1, SendType DEF Bind, BindFails
    <3>2. CASE Drained(r) \/ \E t \in Tasks : Close(r, t)
      BY <3>2 DEF TypeOK, Drained, Close
    <3>3. QED BY <3>1, <3>2 DEF TaskStep
  <2>3. UNCHANGED <<listeners, overlapped>>
    BY DEF TaskStep, Drained, Bind, BindFails, Close
  <2>4. QED BY <2>2, <2>3 DEF TypeOK, StatusType
<1>4. QED BY <1>1, <1>2, <1>3 DEF TypeOK, CallType, ServerType, StatusType, ConnType

LEMMA ForwardType ==
    ASSUME TypeOK, Forward
    PROVE  TypeOK'
<1>1. Head(events) \in Events /\ Tail(events) \in Seq(Events)
  BY DEF TypeOK, Forward
<1>2. StatusType'
  BY <1>1, StatusOfEvent DEF TypeOK, Forward, StatusType
<1>3. CallType' /\ ServerType' /\ ConnType'
  BY DEF TypeOK, Forward, callVars, serverVars, connVars, CallType, ServerType, ConnType
<1>4. QED BY <1>2, <1>3 DEF TypeOK, CallType, ServerType, StatusType, ConnType

LEMMA ConnectionType ==
    ASSUME TypeOK, NEW x \in Connections, Connect(x) \/ ConnStep(x) \/ ClientLeaves(x)
    PROVE  TypeOK'
BY DEF TypeOK, Connect, ConnStep, Subscribe, CheckShutdown, HangUp, ClientLeaves,
       callVars, serverVars

LEMMA TypeStep == TypeOK /\ [Next]_vars => TypeOK'
<1> SUFFICES ASSUME TypeOK, [Next]_vars PROVE TypeOK'
  OBVIOUS
<1>1. CASE Next
  BY <1>1, StartStopType, CallStepType, TaskType, ForwardType, ConnectionType DEF Next
<1>2. CASE UNCHANGED vars
  BY <1>2 DEF vars, callVars, serverVars, connVars, TypeOK
<1>3. QED BY <1>1, <1>2

\* Every value is of its type, and a call holds a run exactly while it stops it.
THEOREM TypeCorrect == Spec => []TypeOK
<1>1. QED BY TypeInit, TypeStep, PTL DEF Spec

-----------------------------------------------------------------------------

LEMMA NoRunIsLostStep == TypeOK /\ NoRunIsLost /\ [Next]_vars => NoRunIsLost'
<1> SUFFICES ASSUME TypeOK, NoRunIsLost, [Next]_vars PROVE NoRunIsLost'
  OBVIOUS
<1>1. ASSUME NEW c \in Calls, Start(c) \/ Stop(c)
      PROVE  NoRunIsLost'
  <2>1. UNCHANGED <<task, told>> BY <1>1 DEF Start, Stop, serverVars
  <2>2. \A r \in Runs : handle = r /\ r # NoRun =>
             handle' = r \/ (step'[c] = "signal" /\ mine'[c] = r)
    BY <1>1 DEF TypeOK, Start, Stop, TakeHandle, Goto
  <2>3. \A d \in Calls : step[d] = "signal" => step'[d] = "signal" /\ mine'[d] = mine[d]
    BY <1>1 DEF TypeOK, Start, Stop, TakeHandle, Goto
  <2>4. QED BY <2>1, <2>2, <2>3, LifecycleAssumption DEF NoRunIsLost, Spawned, Runs
<1>2. ASSUME NEW c \in Calls, CallStep(c)
      PROVE  NoRunIsLost'
  <2>1. CASE Signal(c)
    BY <2>1 DEF Signal, SendWatch, NoRunIsLost, Spawned
  <2>2. CASE Join(c)
    <3>1. UNCHANGED <<task, told, handle>> BY <2>2 DEF Join, serverVars
    <3>2. \A d \in Calls : step[d] = "signal" => step'[d] = "signal" /\ mine'[d] = mine[d]
      BY <2>2 DEF TypeOK, Join, Goto
    <3>3. QED BY <3>1, <3>2 DEF NoRunIsLost, Spawned
  <2>3. CASE Spawn(c)
    <3>1. CASE handle # NoRun
      <4>1. UNCHANGED <<task, told, handle, mine>>
        BY <2>3, <3>1 DEF Spawn, SpawnRun, serverVars
      <4>2. \A d \in Calls : step[d] = "signal" => step'[d] = "signal"
        BY <2>3 DEF TypeOK, Spawn, Goto
      <4>3. QED BY <4>1, <4>2 DEF NoRunIsLost, Spawned
    <3>2. CASE handle = NoRun
      <4>1. told' = Spawned /\ handle' = c
        BY <2>3, <3>2 DEF Spawn, SpawnRun
      <4>2. \A r \in Runs : r # c => task'[r] = task[r]
        BY <2>3, <3>2 DEF Spawn, SpawnRun, TypeOK
      <4>3. QED BY <4>1, <4>2 DEF NoRunIsLost, Spawned
    <3>3. QED BY <3>1, <3>2
  <2>4. QED BY <1>2, <2>1, <2>2, <2>3 DEF CallStep
<1>3. ASSUME NEW r \in Runs, TaskStep(r) \/ Drained(r)
      PROVE  NoRunIsLost'
  <2>1. UNCHANGED <<op, step, mine, handle, told>>
    BY <1>3 DEF TaskStep, Drained, Bind, BindFails, Close, callVars
  <2>2. PICK t \in Tasks, s \in {"serving", "draining", "ended"} :
             task[r][t] # "none" /\ SetTask(r, t, s)
    BY <1>3 DEF TaskStep, Drained, Bind, BindFails, Close, Heard, Tasks, Listeners
  <2>3. \A q \in Runs : task'[q]["sweeper"] # "none" <=> task[q]["sweeper"] # "none"
    BY <2>2 DEF TypeOK, SetTask, Tasks
  <2>4. QED BY <2>1, <2>3 DEF NoRunIsLost, Spawned
<1>4. CASE Forward \/ \E x \in Connections : Connect(x) \/ ConnStep(x) \/ ClientLeaves(x)
  BY <1>4 DEF Forward, Connect, ConnStep, Subscribe, CheckShutdown, HangUp, ClientLeaves,
              callVars, serverVars, NoRunIsLost, Spawned
<1>5. CASE UNCHANGED vars
  BY <1>5 DEF vars, callVars, serverVars, NoRunIsLost, Spawned
<1>6. QED BY <1>1, <1>2, <1>3, <1>4, <1>5 DEF Next

\* However calls of start and stop overlap, a run whose tasks have not been
\* told to end is in the handle or with the call that will tell them.
THEOREM RunsAreReachable == Spec => []NoRunIsLost
<1>1. Init => NoRunIsLost
  BY DEF Init, NoRunIsLost, Spawned, Tasks
<1>2. QED BY <1>1, TypeCorrect, NoRunIsLostStep, PTL DEF Spec

-----------------------------------------------------------------------------

LEMMA HearStep == TypeOK /\ ConnectionsHearTheStop /\ [Next]_vars => ConnectionsHearTheStop'
<1> SUFFICES ASSUME TypeOK, ConnectionsHearTheStop, [Next]_vars
             PROVE  ConnectionsHearTheStop'
  OBVIOUS
<1>1. ASSUME NEW c \in Calls, Start(c) \/ Stop(c) \/ CallStep(c)
      PROVE  ConnectionsHearTheStop'
  BY <1>1 DEF TypeOK, Start, Stop, CallStep, Signal, Join, Spawn, SpawnRun, SendWatch,
              serverVars, connVars, ConnectionsHearTheStop
<1>2. ASSUME NEW r \in Runs, TaskStep(r) \/ Drained(r)
      PROVE  ConnectionsHearTheStop'
  BY <1>2 DEF TaskStep, Drained, Bind, BindFails, Close, connVars, ConnectionsHearTheStop
<1>3. CASE Forward
  BY <1>3 DEF Forward, serverVars, connVars, ConnectionsHearTheStop
<1>4. ASSUME NEW x \in Connections, Connect(x) \/ ConnStep(x) \/ ClientLeaves(x)
      PROVE  ConnectionsHearTheStop'
  BY <1>4 DEF TypeOK, Connect, ConnStep, Subscribe, CheckShutdown, HangUp, ClientLeaves,
              serverVars, ConnectionsHearTheStop
<1>5. CASE UNCHANGED vars
  BY <1>5 DEF vars, serverVars, connVars, ConnectionsHearTheStop
<1>6. QED BY <1>1, <1>2, <1>3, <1>4, <1>5 DEF Next

\* No connection enters its loop deaf to a stop that has already happened.
THEOREM StopsAreHeard == Spec => []ConnectionsHearTheStop
<1>1. Init => ConnectionsHearTheStop
  BY DEF Init, ConnectionsHearTheStop
<1>2. QED BY <1>1, TypeCorrect, HearStep, PTL DEF Spec

-----------------------------------------------------------------------------

\* What an event in the queue will do to the status of l.
Raises(event, l) == event.kind = "Listening" /\ event.listener = l

Lowers(event, l) ==
    event.kind = "Stopped" \/ (event.kind = "BindFailed" /\ event.listener = l)

\* The status once the events in the queue have been forwarded: each listener
\* as the last event about it says, or as it is now if there is none.
Coming ==
    {l \in Listeners :
        \/ /\ l \in listeners
           /\ \A j \in 1 .. Len(events) : ~Lowers(events[j], l)
        \/ \E i \in 1 .. Len(events) :
              /\ Raises(events[i], l)
              /\ \A j \in i + 1 .. Len(events) : ~Lowers(events[j], l)}

Serving(r) == {l \in Listeners : task[r][l] = "serving"}

\* A run is made by the last step of the call it is named by.
SpawnedByDone == \A c \in Calls : task[c]["sweeper"] # "none" => step[c] = "done"

\* As long as no start spawns a run while another is being stopped, one run at
\* most is not down: the one in the handle, or the one that is being stopped.
OneRun ==
    /\ Stopping # {} => handle = NoRun
    /\ \A c, d \in Stopping : c = d
    /\ \A r \in Runs : Ended(r) \/ handle = r \/ \E c \in Stopping : mine[c] = r

\* A run that nobody has told to end is untouched ...
Untold(r) == handle = r \/ \E c \in Calls : step[c] = "signal" /\ mine[c] = r

\* ... so the status comes to what it has bound; with no run it comes to nothing.
StatusComesTrue ==
    /\ \A r \in Runs : Untold(r) => r \notin told /\ Coming = Serving(r)
    /\ handle = NoRun /\ Stopping = {} => Coming = {}

StatusInv == SpawnedByDone /\ (~overlapped => OneRun /\ StatusComesTrue)

LEMMA StatusRaised ==
    ASSUME NEW event \in Events, NEW l \in Listeners
    PROVE  l \in Status(event) <=> Raises(event, l) \/ (l \in listeners /\ ~Lowers(event, l))
<1>1. CASE event.kind = "Listening"
  BY <1>1 DEF Status, Raises, Lowers
<1>2. CASE event.kind = "BindFailed"
  BY <1>2 DEF Status, Raises, Lowers
<1>3. CASE event.kind = "Stopped"
  BY <1>3 DEF Status, Raises, Lowers
<1> QED
  BY <1>1, <1>2, <1>3 DEF Events

\* One more event has the last word on its listener ...
LEMMA SendComing ==
    ASSUME events \in Seq(Events), NEW event \in Events, Send(event), UNCHANGED listeners
    PROVE  Coming' = {l \in Listeners : Raises(event, l) \/ (l \in Coming /\ ~Lowers(event, l))}
<1> DEFINE n == Len(events)
<1>1. /\ n \in Nat /\ Len(events') = n + 1
      /\ events'[n + 1] = event
      /\ \A i \in 1 .. n : events'[i] = events[i]
  BY DEF Send
<1> SUFFICES ASSUME NEW l \in Listeners
             PROVE  l \in Coming' <=> Raises(event, l) \/ (l \in Coming /\ ~Lowers(event, l))
  BY DEF Coming
<1>2. l \in Coming' <=>
        \/ l \in listeners /\ \A j \in 1 .. n + 1 : ~Lowers(events'[j], l)
        \/ \E i \in 1 .. n + 1 : /\ Raises(events'[i], l)
                                 /\ \A j \in i + 1 .. n + 1 : ~Lowers(events'[j], l)
  BY <1>1 DEF Coming
<1>3. l \in Coming <=>
        \/ l \in listeners /\ \A j \in 1 .. n : ~Lowers(events[j], l)
        \/ \E i \in 1 .. n : /\ Raises(events[i], l)
                             /\ \A j \in i + 1 .. n : ~Lowers(events[j], l)
  BY DEF Coming
<1>4. \A i \in 1 .. n + 1 : i \in 1 .. n \/ i = n + 1
  BY <1>1
<1> HIDE DEF n
<1>5. ASSUME l \in Coming' PROVE Raises(event, l) \/ (l \in Coming /\ ~Lowers(event, l))
  BY <1>1, <1>2, <1>3, <1>4, <1>5
<1>6. ASSUME Raises(event, l) PROVE l \in Coming'
  BY <1>1, <1>2, <1>6
<1>7. ASSUME l \in Coming, ~Lowers(event, l) PROVE l \in Coming'
  BY <1>1, <1>2, <1>3, <1>4, <1>7
<1> QED
  BY <1>5, <1>6, <1>7

\* ... and forwarding one only brings the status nearer to what it comes to.
LEMMA ForwardComing ==
    ASSUME TypeOK, Forward PROVE Coming' = Coming
<1> DEFINE n == Len(events)
<1>1. /\ n \in Nat /\ n > 0 /\ Len(events') = n - 1
      /\ \A i \in 1 .. n - 1 : events'[i] = events[i + 1]
      /\ Head(events) = events[1] /\ events[1] \in Events
  BY DEF TypeOK, Forward
<1> SUFFICES ASSUME NEW l \in Listeners PROVE l \in Coming' <=> l \in Coming
  BY DEF Coming
<1>2. l \in listeners' <=> Raises(events[1], l) \/ (l \in listeners /\ ~Lowers(events[1], l))
  BY <1>1, StatusRaised DEF Forward
<1>3. l \in Coming' <=>
        \/ l \in listeners' /\ \A j \in 1 .. n - 1 : ~Lowers(events[j + 1], l)
        \/ \E i \in 1 .. n - 1 : /\ Raises(events[i + 1], l)
                                 /\ \A j \in i + 1 .. n - 1 : ~Lowers(events[j + 1], l)
  BY <1>1 DEF Coming
<1>4. l \in Coming <=>
        \/ l \in listeners /\ \A j \in 1 .. n : ~Lowers(events[j], l)
        \/ \E i \in 1 .. n : /\ Raises(events[i], l)
                             /\ \A j \in i + 1 .. n : ~Lowers(events[j], l)
  BY DEF Coming
<1> HIDE DEF n
<1>5. \A i \in 1 .. n : i = 1 \/ (i - 1 \in 1 .. n - 1 /\ i = (i - 1) + 1)
  BY <1>1
<1>6. \A i \in 1 .. n - 1 : i + 1 \in 1 .. n
  BY <1>1
<1>7. \A i \in 0 .. n - 1 :
          (\A j \in i + 1 .. n - 1 : ~Lowers(events[j + 1], l))
              <=> (\A j \in i + 2 .. n : ~Lowers(events[j], l))
  <2> SUFFICES ASSUME NEW i \in 0 .. n - 1
               PROVE  (\A j \in i + 1 .. n - 1 : ~Lowers(events[j + 1], l))
                          <=> (\A j \in i + 2 .. n : ~Lowers(events[j], l))
    OBVIOUS
  <2>1. \A j \in i + 1 .. n - 1 : j + 1 \in i + 2 .. n
    BY <1>1
  <2>2. \A j \in i + 2 .. n : j - 1 \in i + 1 .. n - 1 /\ j = (j - 1) + 1
    BY <1>1
  <2> QED
    BY <2>1, <2>2
<1>8. (\A j \in 1 .. n - 1 : ~Lowers(events[j + 1], l)) <=> (\A j \in 2 .. n : ~Lowers(events[j], l))
  <2>1. 0 \in 0 .. n - 1 /\ 0 + 1 = 1 /\ 0 + 2 = 2
    BY <1>1
  <2> QED
    BY <1>7, <2>1
<1>9. l \in Coming' <=>
        \/ l \in listeners' /\ \A j \in 2 .. n : ~Lowers(events[j], l)
        \/ \E i \in 2 .. n : /\ Raises(events[i], l)
                             /\ \A j \in i + 1 .. n : ~Lowers(events[j], l)
  <2>1. ASSUME NEW i \in 1 .. n - 1, Raises(events[i + 1], l),
               \A j \in i + 1 .. n - 1 : ~Lowers(events[j + 1], l)
        PROVE  \E k \in 2 .. n : /\ Raises(events[k], l)
                                 /\ \A j \in k + 1 .. n : ~Lowers(events[j], l)
    <3>1. i + 1 \in 2 .. n /\ (i + 1) + 1 = i + 2 /\ i \in 0 .. n - 1
      BY <1>1
    <3>2. \A j \in i + 2 .. n : ~Lowers(events[j], l)
      BY <1>7, <2>1, <3>1
    <3> QED
      BY <2>1, <3>1, <3>2
  <2>2. ASSUME NEW k \in 2 .. n, Raises(events[k], l),
               \A j \in k + 1 .. n : ~Lowers(events[j], l)
        PROVE  \E i \in 1 .. n - 1 : /\ Raises(events[i + 1], l)
                                     /\ \A j \in i + 1 .. n - 1 : ~Lowers(events[j + 1], l)
    <3>1. k - 1 \in 1 .. n - 1 /\ k - 1 \in 0 .. n - 1 /\ (k - 1) + 1 = k /\ (k - 1) + 2 = k + 1
      BY <1>1
    <3>2. \A j \in (k - 1) + 1 .. n - 1 : ~Lowers(events[j + 1], l)
      BY <1>7, <2>2, <3>1
    <3> QED
      BY <2>2, <3>1, <3>2
  <2> QED
    BY <1>3, <1>8, <2>1, <2>2
<1>10. (1 .. n) = {1} \cup (2 .. n)
  BY <1>1
<1>11. (\A j \in 1 .. n : ~Lowers(events[j], l))
           <=> ~Lowers(events[1], l) /\ \A j \in 2 .. n : ~Lowers(events[j], l)
  BY <1>10
<1>12. (\E i \in 1 .. n : /\ Raises(events[i], l)
                          /\ \A j \in i + 1 .. n : ~Lowers(events[j], l))
           <=> \/ Raises(events[1], l) /\ \A j \in 2 .. n : ~Lowers(events[j], l)
               \/ \E i \in 2 .. n : /\ Raises(events[i], l)
                                    /\ \A j \in i + 1 .. n : ~Lowers(events[j], l)
  <2>1. 1 + 1 = 2
    OBVIOUS
  <2> QED
    BY <1>10, <2>1
<1> QED
  BY <1>2, <1>4, <1>9, <1>11, <1>12

\* Nothing about the status changes with a step that leaves these alone.
LEMMA ComingKept == UNCHANGED <<events, listeners>> => Coming' = Coming
BY DEF Coming

\* While a run is up, no other can be the untold one.
LEMMA OneUntold ==
    ASSUME TypeOK, OneRun, NEW q \in Runs, NEW r \in Runs, ~Ended(r), Untold(q)
    PROVE  q = r
BY LifecycleAssumption DEF TypeOK, OneRun, Untold, Stopping, Runs

\* With no run in hand or being stopped, all are down.
LEMMA NoneUp ==
    ASSUME OneRun, handle = NoRun, Stopping = {}
    PROVE  \A r \in Runs : Ended(r)
BY LifecycleAssumption DEF OneRun, Runs

LEMMA SpawnedByDoneStep == TypeOK /\ SpawnedByDone /\ [Next]_vars => SpawnedByDone'
<1> SUFFICES ASSUME TypeOK, SpawnedByDone, [Next]_vars PROVE SpawnedByDone'
  OBVIOUS
<1>1. ASSUME NEW c \in Calls, Start(c) \/ Stop(c) \/ Signal(c) \/ Join(c) PROVE SpawnedByDone'
  BY <1>1 DEF TypeOK, Start, Stop, Signal, Join, TakeHandle, Goto, serverVars, SpawnedByDone
<1>2. ASSUME NEW c \in Calls, Spawn(c) PROVE SpawnedByDone'
  <2>1. step'[c] = "done" /\ \A d \in Calls : d # c => step'[d] = step[d] /\ task'[d] = task[d]
    BY <1>2 DEF TypeOK, Spawn, SpawnRun, Goto, serverVars, Runs
  <2> QED
    BY <2>1 DEF SpawnedByDone
<1>3. ASSUME NEW r \in Runs, TaskStep(r) \/ Drained(r) PROVE SpawnedByDone'
  <2>1. PICK t \in Tasks, s \in {"serving", "draining", "ended"} :
             task[r][t] # "none" /\ SetTask(r, t, s)
    BY <1>3 DEF TaskStep, Drained, Bind, BindFails, Close, Heard, Tasks, Listeners
  <2>2. \A q \in Runs : task'[q]["sweeper"] # "none" <=> task[q]["sweeper"] # "none"
    BY <2>1 DEF TypeOK, SetTask, Tasks
  <2>3. UNCHANGED step
    BY <1>3 DEF TaskStep, Drained, Bind, BindFails, Close, callVars
  <2> QED
    BY <2>2, <2>3 DEF SpawnedByDone, Runs
<1>4. CASE Forward \/ \E x \in Connections : Connect(x) \/ ConnStep(x) \/ ClientLeaves(x)
  BY <1>4 DEF Forward, Connect, ConnStep, Subscribe, CheckShutdown, HangUp, ClientLeaves,
              callVars, serverVars, SpawnedByDone
<1>5. CASE UNCHANGED vars
  BY <1>5 DEF vars, callVars, serverVars, SpawnedByDone
<1> QED
  BY <1>1, <1>2, <1>3, <1>4, <1>5 DEF Next, CallStep

\* Taking the handle makes the run in it the one being stopped.
LEMMA StartStopStatus ==
    ASSUME TypeOK, OneRun, StatusComesTrue, NEW c \in Calls, Start(c) \/ Stop(c)
    PROVE  OneRun' /\ StatusComesTrue'
<1>1. UNCHANGED <<task, told>> /\ Coming' = Coming /\ step[c] = "idle" /\ mine[c] = NoRun
  BY ComingKept DEF Start, Stop, serverVars, TypeOK
<1>2. CASE handle # NoRun /\ TakeHandle(c)
  <2>1. /\ step'[c] = "signal" /\ mine'[c] = handle /\ handle' = NoRun
        /\ \A d \in Calls : d # c => step'[d] = step[d] /\ mine'[d] = mine[d]
    BY <1>2 DEF TypeOK, TakeHandle, Goto
  <2>2. Stopping = {}
    BY <1>2 DEF OneRun
  <2>3. Stopping' = {c}
    BY <2>1, <2>2 DEF Stopping
  <2>4. OneRun'
    BY <1>1, <1>2, <2>1, <2>2, <2>3 DEF OneRun, Ended
  <2>5. \A r \in Runs : Untold(r)' => r = handle
    BY <2>1, <2>2, LifecycleAssumption DEF Untold, Stopping, Runs
  <2>6. StatusComesTrue'
    BY <1>1, <2>3, <2>5 DEF StatusComesTrue, Untold, Serving
  <2> QED
    BY <2>4, <2>6
<1>3. CASE UNCHANGED <<mine, handle>>
  <2>1. step'[c] \in {"done", "spawn"} /\ \A d \in Calls : d # c => step'[d] = step[d]
    BY <1>3, <1>1 DEF Start, Stop, TakeHandle, TypeOK, Goto
  <2>2. Stopping' = Stopping
    BY <1>1, <2>1 DEF Stopping
  <2>3. \A r \in Runs : Untold(r)' => Untold(r)
    BY <1>1, <1>3, <2>1 DEF Untold
  <2>4. OneRun'
    BY <1>1, <1>3, <2>2 DEF OneRun, Ended
  <2>5. StatusComesTrue'
    BY <1>1, <1>3, <2>2, <2>3 DEF StatusComesTrue, Serving
  <2> QED
    BY <2>4, <2>5
<1> QED
  BY <1>2, <1>3 DEF Start, Stop

\* Once a run has been told to end, nothing is said of the status until Join,
\* which leaves no listener and no run.
LEMMA SignalJoinStatus ==
    ASSUME TypeOK, OneRun, StatusComesTrue, NEW c \in Calls, Signal(c) \/ Join(c)
    PROVE  OneRun' /\ StatusComesTrue'
<1>1. /\ c \in Stopping /\ handle = NoRun /\ handle' = NoRun /\ UNCHANGED task
      /\ Stopping = {c}
  BY DEF Signal, Join, Stopping, OneRun, serverVars
<1>2. CASE Signal(c)
  <2>1. Stopping' = Stopping /\ UNCHANGED mine
    BY <1>2 DEF Signal, Goto, TypeOK, Stopping
  <2>2. OneRun'
    BY <1>1, <2>1 DEF OneRun, Ended
  <2>3. \A d \in Calls : step'[d] # "signal"
    BY <1>1, <1>2 DEF Signal, Goto, TypeOK, Stopping
  <2>4. \A r \in Runs : ~Untold(r)'
    BY <1>1, <2>3, LifecycleAssumption DEF Untold, Runs
  <2> QED
    BY <1>1, <2>1, <2>2, <2>4 DEF StatusComesTrue
<1>3. CASE Join(c)
  <2>1. Stopping' = {}
    BY <1>1, <1>3 DEF Join, Goto, TypeOK, Stopping
  <2>2. \A r \in Runs : Ended(r)
    BY <1>1, <1>3, LifecycleAssumption DEF OneRun, Join, Runs
  <2>3. Coming' = {}
    <3>1. [kind |-> "Stopped"] \in Events /\ events \in Seq(Events)
      BY DEF Events, TypeOK
    <3>2. \A l \in Listeners : Lowers([kind |-> "Stopped"], l) /\ ~Raises([kind |-> "Stopped"], l)
      BY DEF Lowers, Raises
    <3>3. Send([kind |-> "Stopped"]) /\ UNCHANGED listeners
      BY <1>3 DEF Join
    <3> QED
      BY <3>1, <3>2, <3>3, SendComing
  <2>4. OneRun'
    BY <1>1, <2>1, <2>2 DEF OneRun, Ended
  <2>5. \A r \in Runs : ~Untold(r)'
    BY <1>1, <2>1, LifecycleAssumption DEF Untold, Runs, Stopping
  <2> QED
    BY <2>1, <2>3, <2>4, <2>5 DEF StatusComesTrue
<1> QED
  BY <1>2, <1>3

\* A run spawned with nothing being stopped is the only one, and not told.
LEMMA SpawnStatus ==
    ASSUME TypeOK, SpawnedByDone, OneRun, StatusComesTrue, NEW c \in Calls, Spawn(c),
           ~overlapped'
    PROVE  OneRun' /\ StatusComesTrue'
<1>1. /\ step[c] = "spawn" /\ UNCHANGED <<mine, listeners>> /\ Stopping' = Stopping
      /\ step'[c] = "done" /\ \A d \in Calls : d # c => step'[d] = step[d]
  BY DEF Spawn, Goto, TypeOK, Stopping
<1>2. CASE handle # NoRun
  <2>1. UNCHANGED <<handle, task, told, events>>
    BY <1>2 DEF Spawn, SpawnRun, serverVars
  <2>2. OneRun'
    BY <1>1, <2>1 DEF OneRun, Ended
  <2>3. \A r \in Runs : Untold(r)' => Untold(r)
    BY <1>1, <2>1 DEF Untold
  <2> QED
    BY <1>1, <2>1, <2>2, <2>3, ComingKept DEF StatusComesTrue, Serving
<1>3. CASE handle = NoRun
  <2>1. SpawnRun(c) /\ Stopping = {}
    BY <1>3 DEF Spawn, SpawnRun
  <2>2. /\ handle' = c /\ told' = Spawned
        /\ \A r \in Runs : r # c => task'[r] = task[r]
        /\ \A l \in Listeners : task'[c][l] # "serving"
    BY <2>1 DEF SpawnRun, TypeOK, Runs, Tasks, Listeners
  <2>3. \A r \in Runs : Ended(r)
    BY <1>3, <2>1, NoneUp
  <2>4. OneRun'
    BY <1>1, <2>1, <2>2, <2>3 DEF OneRun, Ended
  <2>5. c \notin told'
    BY <1>1, <2>2 DEF SpawnedByDone, Spawned
  <2>6. Coming' = {}
    <3>1. Coming = {}
      BY <1>3, <2>1 DEF StatusComesTrue
    <3>2. CASE UNCHANGED events
      BY <1>1, <3>1, <3>2, ComingKept
    <3>3. CASE Send([kind |-> "BindFailed", listener |-> "wss"])
      <4>1. [kind |-> "BindFailed", listener |-> "wss"] \in Events /\ events \in Seq(Events)
        BY DEF Events, Listeners, TypeOK
      <4>2. \A l \in Listeners : ~Raises([kind |-> "BindFailed", listener |-> "wss"], l)
        BY DEF Raises
      <4> QED
        BY <1>1, <3>1, <3>3, <4>1, <4>2, SendComing
    <3> QED
      BY <2>1, <3>2, <3>3 DEF SpawnRun
  <2>7. Serving(c)' = {}
    BY <2>2 DEF Serving
  <2>8. \A r \in Runs : Untold(r)' => r = c
    BY <1>1, <2>1, <2>2 DEF Untold, Stopping
  <2>9. handle' # NoRun
    BY <2>2, LifecycleAssumption
  <2> QED
    BY <2>4, <2>5, <2>6, <2>7, <2>8, <2>9 DEF StatusComesTrue
<1> QED
  BY <1>2, <1>3

\* What a task does, it reports.
LEMMA TaskStatus ==
    ASSUME TypeOK, OneRun, StatusComesTrue, NEW r \in Runs, TaskStep(r) \/ Drained(r)
    PROVE  OneRun' /\ StatusComesTrue'
<1>1. UNCHANGED <<step, mine, handle, told, listeners>> /\ Stopping' = Stopping
  BY DEF TaskStep, Drained, Bind, BindFails, Close, callVars, Stopping
<1>2. PICK t \in Tasks, s \in {"serving", "draining", "ended"} :
           task[r][t] \notin {"none", "ended"} /\ SetTask(r, t, s)
  BY DEF TaskStep, Drained, Bind, BindFails, Close, Heard, Tasks, Listeners
<1>3. /\ ~Ended(r) /\ \A q \in Runs : q # r => task'[q] = task[q]
      /\ task'[r][t] = s /\ \A u \in Tasks : u # t => task'[r][u] = task[r][u]
  BY <1>2 DEF Ended, SetTask, TypeOK
<1>4. OneRun'
  BY <1>1, <1>3 DEF OneRun, Ended
<1>5. \A q \in Runs : Untold(q)' => Untold(q) /\ q = r
  BY <1>1, <1>3, OneUntold DEF Untold
<1>6. ~(handle = NoRun /\ Stopping = {})
  BY <1>3, NoneUp
<1>7. SUFFICES ASSUME Untold(r) PROVE r \notin told' /\ Coming' = Serving(r)'
  BY <1>1, <1>4, <1>5, <1>6 DEF StatusComesTrue
<1>8. r \notin told /\ Coming = Serving(r) /\ events \in Seq(Events)
  BY <1>7 DEF StatusComesTrue, TypeOK
<1>9. ASSUME NEW l \in Listeners, Bind(r, l) PROVE Coming' = Serving(r)'
  <2>1. [kind |-> "Listening", listener |-> l] \in Events
    BY DEF Events
  <2>2. Coming' = {k \in Listeners : k = l \/ k \in Coming}
    <3>1. \A k \in Listeners : /\ Raises([kind |-> "Listening", listener |-> l], k) <=> k = l
                               /\ ~Lowers([kind |-> "Listening", listener |-> l], k)
      BY DEF Raises, Lowers
    <3>2. Send([kind |-> "Listening", listener |-> l])
      BY <1>9 DEF Bind
    <3> QED
      BY <1>1, <1>8, <2>1, <3>1, <3>2, SendComing
  <2>3. Serving(r)' = {k \in Listeners : k = l \/ k \in Serving(r)}
    BY <1>9 DEF Bind, SetTask, Serving, TypeOK, Tasks
  <2> QED
    BY <1>8, <2>2, <2>3
<1>10. ASSUME NEW l \in Listeners, BindFails(r, l) PROVE Coming' = Serving(r)'
  <2>1. [kind |-> "BindFailed", listener |-> l] \in Events
    BY DEF Events
  <2>2. Coming' = {k \in Listeners : k # l /\ k \in Coming}
    <3>1. \A k \in Listeners : /\ ~Raises([kind |-> "BindFailed", listener |-> l], k)
                               /\ Lowers([kind |-> "BindFailed", listener |-> l], k) <=> k = l
      BY DEF Raises, Lowers
    <3>2. Send([kind |-> "BindFailed", listener |-> l])
      BY <1>10 DEF BindFails
    <3> QED
      BY <1>1, <1>8, <2>1, <3>1, <3>2, SendComing
  <2>3. Serving(r)' = {k \in Listeners : k # l /\ k \in Serving(r)}
    BY <1>10 DEF BindFails, SetTask, Serving, TypeOK, Tasks
  <2> QED
    BY <1>8, <2>2, <2>3
<1>11. ASSUME Drained(r) PROVE Coming' = Serving(r)'
  <2>1. Serving(r)' = Serving(r)
    BY <1>11 DEF Drained, SetTask, Serving, TypeOK, Tasks, Listeners
  <2>2. Coming' = Coming
    BY <1>1, <1>11, ComingKept DEF Drained
  <2> QED
    BY <1>8, <2>1, <2>2
<1>12. \A u \in Tasks : ~Close(r, u)
  BY <1>8 DEF Close
<1> QED
  BY <1>1, <1>8, <1>9, <1>10, <1>11, <1>12 DEF TaskStep

LEMMA StatusStep == TypeOK /\ StatusInv /\ [Next]_vars => StatusInv'
<1> SUFFICES ASSUME TypeOK, StatusInv, [Next]_vars, ~overlapped'
             PROVE  OneRun' /\ StatusComesTrue'
  BY SpawnedByDoneStep DEF StatusInv
<1>1. overlapped' = overlapped \/ \E c \in Calls : Spawn(c)
  BY DEF Next, Start, Stop, CallStep, Signal, Join, TaskStep, Bind, BindFails, Close,
         Drained, Forward, Connect, ConnStep, Subscribe, CheckShutdown, HangUp,
         ClientLeaves, vars
<1>2. ~overlapped
  BY <1>1 DEF Spawn, SpawnRun
<1>3. SpawnedByDone /\ OneRun /\ StatusComesTrue
  BY <1>2 DEF StatusInv
<1>4. ASSUME NEW c \in Calls, Start(c) \/ Stop(c) \/ CallStep(c)
      PROVE  OneRun' /\ StatusComesTrue'
  BY <1>3, <1>4, StartStopStatus, SignalJoinStatus, SpawnStatus DEF CallStep
<1>5. ASSUME NEW r \in Runs, TaskStep(r) \/ Drained(r)
      PROVE  OneRun' /\ StatusComesTrue'
  BY <1>3, <1>5, TaskStatus
<1>6. CASE \/ Forward
           \/ \E x \in Connections : Connect(x) \/ ConnStep(x) \/ ClientLeaves(x)
           \/ UNCHANGED vars
  <2>1. UNCHANGED <<callVars, handle, serverVars>> /\ Coming' = Coming
    BY <1>6, ForwardComing, ComingKept
    DEF Forward, Connect, ConnStep, Subscribe, CheckShutdown, HangUp, ClientLeaves, vars
  <2>2. Stopping' = Stopping
    BY <2>1 DEF Stopping, callVars
  <2>3. OneRun'
    BY <1>3, <2>1, <2>2 DEF OneRun, Ended, callVars, serverVars
  <2>4. StatusComesTrue'
    BY <1>3, <2>1, <2>2 DEF StatusComesTrue, Untold, Serving, callVars, serverVars
  <2> QED
    BY <2>3, <2>4
<1> QED
  BY <1>4, <1>5, <1>6 DEF Next

\* Once everything under way has ended, the status says which listeners are
\* bound, through any number of starts and stops, as long as none of the starts
\* spawned a run while another was being stopped.
THEOREM StatusTellsTheTruth == Spec => []StatusIsTrue
<1>1. Init => StatusInv
  <2> SUFFICES ASSUME Init PROVE StatusInv
    OBVIOUS
  <2>1. SpawnedByDone /\ Stopping = {} /\ handle = NoRun /\ \A r \in Runs : Ended(r)
    BY DEF Init, SpawnedByDone, Stopping, Ended, Runs, Tasks
  <2>2. \A r \in Runs : ~Untold(r)
    BY LifecycleAssumption DEF Init, Untold, Runs
  <2>3. Coming = {}
    <3>1. listeners = {} /\ Len(events) = 0
      BY DEF Init
    <3>2. 1 .. Len(events) = {}
      BY <3>1
    <3> QED
      BY <3>1, <3>2 DEF Coming
  <2> QED
    BY <2>1, <2>2, <2>3 DEF StatusInv, OneRun, StatusComesTrue
<1>2. TypeOK /\ StatusInv => StatusIsTrue
  <2> SUFFICES ASSUME TypeOK, StatusInv, Quiet, ~overlapped PROVE listeners = Up
    BY DEF StatusIsTrue
  <2>1. OneRun /\ StatusComesTrue /\ Stopping = {}
    BY DEF StatusInv, Quiet, Stopping
  <2>2. Coming = listeners
    <3>1. Len(events) = 0 /\ listeners \subseteq Listeners
      BY DEF Quiet, TypeOK
    <3>2. 1 .. Len(events) = {}
      BY <3>1
    <3> QED
      BY <3>1, <3>2 DEF Coming
  <2>3. CASE handle = NoRun
    <3>1. \A r \in Runs : Ended(r)
      BY <2>1, <2>3, NoneUp
    <3>2. Up = {}
      BY <3>1 DEF Up, Ended, Tasks
    <3> QED
      BY <2>1, <2>2, <2>3, <3>2 DEF StatusComesTrue
  <2>4. CASE handle # NoRun
    <3>1. handle \in Runs /\ Untold(handle)
      BY <2>4 DEF TypeOK, Untold
    <3>2. \A r \in Runs : r # handle => Ended(r)
      BY <2>1 DEF OneRun
    <3>3. Up = Serving(handle)
      BY <3>1, <3>2 DEF Up, Serving, Ended, Tasks
    <3> QED
      BY <2>1, <2>2, <3>1, <3>3 DEF StatusComesTrue
  <2> QED
    BY <2>3, <2>4
<1> QED
  BY <1>1, <1>2, TypeCorrect, StatusStep, PTL DEF Spec

-----------------------------------------------------------------------------
(* The app. *)

ShellType ==
    /\ launch \in {"starting", "reading", "assigning", "loading", "over"}
    /\ pump \in {"off", "idle", "reading", "assigning"}
    /\ view \in {"idle", "assigning"}
    /\ snapshot \in [Readers -> SUBSET Listeners]
    /\ shown \subseteq Listeners
    /\ nudges \in Nat
    /\ quit \in [running : SUBSET Racers, fired : BOOLEAN, resumed : Nat]
    /\ heard \in BOOLEAN
    /\ crossed \in BOOLEAN
    /\ pump = "off" => nudges = 0

\* The app makes two calls.  Only the launch starts a run, so that run is the
\* one there is to stop, and by then the launch has spawned all it will.
OneStart ==
    /\ \A c \in Calls \ {LaunchCall, QuitCall} : step[c] = "idle"
    /\ step[QuitCall] # "spawn"
    /\ op[LaunchCall] # "stop" /\ op[QuitCall] # "start"
    /\ handle \in {NoRun, LaunchCall}
    /\ handle = LaunchCall => step[LaunchCall] = "done"
    /\ mine[LaunchCall] = NoRun
    /\ mine[QuitCall] # NoRun => step[LaunchCall] = "done"
    /\ ~overlapped

\* The pump starts after the launch.  One read is under way at a time, and the
\* last is of the listeners there are, unless an event has come since, which
\* the pump has yet to take or is just acting on.
ReadsInv ==
    /\ launch # "over" => pump = "off"
    /\ heard => pump # "off"
    /\ ~crossed => \A r, s \in Reading : r = s
    /\ heard /\ ~crossed /\ nudges = 0 /\ pump # "reading" =>
         /\ \A r \in Reading : snapshot[r] = listeners
         /\ Reading = {} => shown = listeners

ShellInv == ShellType /\ OneStart /\ ReadsInv

-----------------------------------------------------------------------------

LEMMA ShellParts == ShellTypeOK <=> TypeOK /\ ShellType
BY DEF ShellTypeOK, ShellType

\* Whatever the shell does, the engine takes one of its steps or none.
LEMMA ShellRefines == [ShellNext]_allVars => [Next]_vars
<1> SUFFICES ASSUME [ShellNext]_allVars PROVE [Next]_vars
  OBVIOUS
<1>1. CASE EngineStep \/ ClientStep
  BY <1>1 DEF EngineStep, ClientStep, Next
<1>2. CASE LaunchStarts \/ QuitStops
  BY <1>2, ShellAssumption DEF LaunchStarts, QuitStops, Next
<1>3. CASE ForwardAndNudge
  BY <1>3 DEF ForwardAndNudge, Next
<1>4. CASE UNCHANGED vars
  BY <1>4
<1>5. UNCHANGED vars \/ EngineStep \/ ClientStep \/ LaunchStarts \/ QuitStops \/ ForwardAndNudge
  BY DEF ShellNext, LaunchStep, LaunchReads, LaunchRefreshes, PumpStarts, PumpStep, PumpTakes,
         PumpRefreshes, EventDropped, ViewRefreshes, QuitBegins, RacerEnds, Read, Assign, allVars
<1> QED
  BY <1>1, <1>2, <1>3, <1>4, <1>5

\* The engine the app drives is the one of EngineLifecycle: every theorem about
\* that holds here too.
THEOREM ShellRunsTheEngine == ShellSpec => Spec
<1>1. ShellInit => Init
  BY DEF ShellInit
<1> QED
  BY <1>1, ShellRefines, PTL DEF ShellSpec, Spec

-----------------------------------------------------------------------------

LEMMA ShellInitially == ShellInit => ShellInv
<1> SUFFICES ASSUME ShellInit PROVE ShellInv
  OBVIOUS
<1>1. ShellType
  BY DEF ShellInit, ShellType, NoQuit
<1>2. OneStart
  BY ShellAssumption, LifecycleAssumption DEF ShellInit, Init, OneStart
<1>3. ReadsInv
  BY DEF ShellInit, ReadsInv, Reading
<1> QED
  BY <1>1, <1>2, <1>3 DEF ShellInv

LEMMA ShellTypeStep ==
    ASSUME TypeOK, ShellType, ShellNext PROVE ShellType'
<1> USE DEF ShellType
<1>1. ASSUME NEW r \in Readers, Read(r) PROVE snapshot' \in [Readers -> SUBSET Listeners]
  BY <1>1 DEF Read, TypeOK
<1>2. ASSUME NEW r \in Readers, Read(r) PROVE crossed' \in BOOLEAN /\ heard' \in BOOLEAN
  BY <1>2 DEF Read
<1>3. ASSUME NEW r \in Readers, Assign(r)
      PROVE  /\ snapshot' \in [Readers -> SUBSET Listeners] /\ shown' \subseteq Listeners
             /\ UNCHANGED <<nudges, quit, heard, crossed>>
  BY <1>3 DEF Assign
<1>4. "launch" \in Readers /\ "pump" \in Readers /\ "view" \in Readers
  BY DEF Readers
<1>5. CASE EngineStep \/ ClientStep \/ LaunchStarts \/ QuitStops
  BY <1>5 DEF EngineStep, ClientStep, LaunchStarts, QuitStops, shellVars
<1>6. CASE LaunchReads \/ PumpStarts
  BY <1>6 DEF LaunchReads, PumpStarts, readVars
<1>11. CASE QuitBegins \/ \E r \in Racers : RacerEnds(r)
  <2>1. quit' \in [running : SUBSET Racers, fired : BOOLEAN, resumed : Nat]
    <3>1. CASE QuitBegins
      BY <3>1 DEF QuitBegins
    <3>2. ASSUME NEW r \in Racers, RacerEnds(r)
          PROVE  quit' \in [running : SUBSET Racers, fired : BOOLEAN, resumed : Nat]
      BY <3>2 DEF RacerEnds, Fires
    <3> QED
      BY <1>11, <3>1, <3>2
  <2> QED
    BY <1>11, <2>1 DEF QuitBegins, RacerEnds, readVars
<1>7. CASE ForwardAndNudge \/ PumpTakes \/ EventDropped
  <2>1. heard' \in BOOLEAN /\ UNCHANGED <<crossed, snapshot, shown, launch, view, quit>>
    BY <1>7 DEF ForwardAndNudge, PumpTakes, EventDropped, readVars
  <2>2. nudges' \in Nat /\ pump' \in {"off", "idle", "reading", "assigning"}
        /\ (pump' = "off" => nudges' = 0)
    BY <1>7 DEF ForwardAndNudge, Nudge, PumpTakes, EventDropped
  <2> QED
    BY <2>1, <2>2
<1>8. CASE LaunchRefreshes
  <2>1. CASE Read("launch") /\ launch' = "assigning" /\ UNCHANGED <<pump, view>>
    <3>1. UNCHANGED <<shown, nudges, quit>>
      BY <2>1 DEF Read
    <3> QED
      BY <1>1, <1>2, <1>4, <2>1, <3>1
  <2>2. CASE Assign("launch") /\ launch' = "loading" /\ UNCHANGED <<pump, view>>
    BY <1>3, <1>4, <2>2
  <2> QED
    BY <1>8, <2>1, <2>2 DEF LaunchRefreshes
<1>9. CASE PumpRefreshes
  <2>1. CASE Read("pump") /\ pump' = "assigning" /\ UNCHANGED <<launch, view>>
    <3>1. UNCHANGED <<shown, nudges, quit>>
      BY <2>1 DEF Read
    <3> QED
      BY <1>1, <1>2, <1>4, <2>1, <3>1
  <2>2. CASE Assign("pump") /\ pump' = "idle" /\ UNCHANGED <<launch, view>>
    BY <1>3, <1>4, <2>2
  <2> QED
    BY <1>9, <2>1, <2>2 DEF PumpRefreshes
<1>10. CASE ViewRefreshes
  <2>1. CASE Read("view") /\ view' = "assigning" /\ UNCHANGED <<launch, pump>>
    <3>1. UNCHANGED <<shown, nudges, quit>>
      BY <2>1 DEF Read
    <3> QED
      BY <1>1, <1>2, <1>4, <2>1, <3>1
  <2>2. CASE Assign("view") /\ view' = "idle" /\ UNCHANGED <<launch, pump>>
    BY <1>3, <1>4, <2>2
  <2> QED
    BY <1>10, <2>1, <2>2 DEF ViewRefreshes
<1> QED
  BY <1>5, <1>6, <1>7, <1>8, <1>9, <1>10, <1>11 DEF ShellNext, LaunchStep, PumpStep

\* The launch makes the one start, and the quit can only stop what it has made.
LEMMA OneStartStep ==
    ASSUME TypeOK, OneStart, [ShellNext]_allVars PROVE OneStart'
<1> USE ShellAssumption, LifecycleAssumption
<1>1. CASE LaunchStarts
  <2>1. /\ step[LaunchCall] = "idle" /\ handle = NoRun
        /\ step' = [step EXCEPT ![LaunchCall] = "spawn"]
        /\ op' = [op EXCEPT ![LaunchCall] = "start"]
        /\ UNCHANGED <<mine, handle, overlapped>>
    BY <1>1 DEF LaunchStarts, Start, Goto, OneStart
  <2>2. mine[QuitCall] = NoRun
    BY <2>1 DEF OneStart
  <2> QED
    BY <2>1, <2>2 DEF OneStart, TypeOK
<1>2. CASE QuitStops
  <2>1. /\ op' = [op EXCEPT ![QuitCall] = "stop"] /\ UNCHANGED overlapped
        /\ \/ handle = LaunchCall /\ TakeHandle(QuitCall)
           \/ step' = [step EXCEPT ![QuitCall] = "done"] /\ UNCHANGED <<mine, handle>>
    BY <1>2 DEF QuitStops, Stop, Goto, OneStart
  <2>2. CASE handle = LaunchCall /\ TakeHandle(QuitCall)
    BY <2>1, <2>2 DEF OneStart, TypeOK, TakeHandle, Goto
  <2>3. CASE step' = [step EXCEPT ![QuitCall] = "done"] /\ UNCHANGED <<mine, handle>>
    BY <2>1, <2>3 DEF OneStart, TypeOK
  <2> QED
    BY <2>1, <2>2, <2>3
<1>3. ASSUME NEW c \in Calls, CallStep(c) PROVE OneStart'
  <2>1. CASE Signal(c)
    <3>1. /\ step[c] = "signal" /\ step' = [step EXCEPT ![c] = "join"]
          /\ UNCHANGED <<op, mine, handle, overlapped>>
      BY <2>1 DEF Signal, Goto
    <3>2. c = QuitCall
      BY <3>1 DEF OneStart, TypeOK
    <3> QED
      BY <3>1, <3>2 DEF OneStart, TypeOK
  <2>2. CASE Join(c)
    <3>1. step[c] = "join" /\ mine' = [mine EXCEPT ![c] = NoRun]
          /\ UNCHANGED <<op, handle, overlapped>>
      BY <2>2 DEF Join
    <3>2. c = QuitCall /\ op[c] # "start"
      BY <3>1 DEF OneStart, TypeOK
    <3>3. step' = [step EXCEPT ![c] = "done"]
      BY <2>2, <3>2 DEF Join, Goto
    <3> QED
      BY <3>1, <3>2, <3>3 DEF OneStart, TypeOK
  <2>3. CASE Spawn(c)
    <3>1. step[c] = "spawn" /\ c = LaunchCall /\ step' = [step EXCEPT ![c] = "done"]
          /\ UNCHANGED <<op, mine>>
      BY <2>3 DEF Spawn, Goto, OneStart
    <3>2. handle = NoRun /\ \A d \in Calls : mine[d] = NoRun
      BY <3>1 DEF OneStart, TypeOK
    <3>3. Stopping = {}
      BY <3>2 DEF Stopping, TypeOK
    <3>4. handle' = LaunchCall /\ ~overlapped'
      BY <2>3, <3>1, <3>2, <3>3 DEF Spawn, SpawnRun, OneStart
    <3> QED
      BY <3>1, <3>2, <3>4 DEF OneStart, TypeOK
  <2> QED
    BY <1>3, <2>1, <2>2, <2>3 DEF CallStep
<1>4. CASE UNCHANGED <<callVars, handle, overlapped>>
  BY <1>4 DEF OneStart, callVars
<1>5. \/ LaunchStarts \/ QuitStops
      \/ \E c \in Calls : CallStep(c)
      \/ UNCHANGED <<callVars, handle, overlapped>>
  <2>1. ASSUME UNCHANGED vars PROVE UNCHANGED <<callVars, handle, overlapped>>
    BY <2>1 DEF vars
  <2>2. ASSUME NEW r \in Runs, TaskStep(r) \/ Drained(r)
        PROVE  UNCHANGED <<callVars, handle, overlapped>>
    BY <2>2 DEF TaskStep, Drained, Bind, BindFails, Close
  <2>3. ASSUME Forward \/ \E x \in Connections : ConnStep(x) \/ Connect(x) \/ ClientLeaves(x)
        PROVE  UNCHANGED <<callVars, handle, overlapped>>
    BY <2>3 DEF Forward, ConnStep, Subscribe, CheckShutdown, HangUp, Connect, ClientLeaves
  <2> QED
    BY <2>1, <2>2, <2>3
    DEF ShellNext, EngineStep, ClientStep, ForwardAndNudge, LaunchStep, LaunchReads,
        LaunchRefreshes, PumpStarts, PumpStep, PumpTakes, PumpRefreshes, EventDropped,
        ViewRefreshes, QuitBegins, RacerEnds, Read, Assign, allVars
<1> QED
  BY <1>1, <1>2, <1>3, <1>4, <1>5

\* A read that finds none under way is of the listeners as they are ...
LEMMA ReadStep ==
    ASSUME ShellType, ReadsInv, NEW r \in Readers, Read(r),
           Reading' = Reading \cup {r},
           UNCHANGED pump \/ (r = "pump" /\ launch = "over" /\ pump' = "assigning"),
           launch' # "over" => launch # "over",
           r = "pump" => pump' = "assigning"
    PROVE  ReadsInv'
<1>1. /\ snapshot'[r] = listeners /\ UNCHANGED <<listeners, nudges, shown>>
      /\ \A s \in Readers : s # r => snapshot'[s] = snapshot[s]
  BY DEF Read, ShellType, vars
<1>2. ~crossed' => ~crossed /\ Reading' = {r}
  BY DEF Read
<1>3. heard' => heard \/ r = "pump"
  BY DEF Read
<1> QED
  BY <1>1, <1>2, <1>3 DEF ReadsInv

\* ... and is then what is shown.
LEMMA AssignStep ==
    ASSUME ShellType, ReadsInv, NEW r \in Readers, Assign(r),
           r \in Reading, Reading' = Reading \ {r},
           UNCHANGED pump \/ (launch = "over" /\ pump = "assigning" /\ pump' = "idle"),
           launch' # "over" => launch # "over"
    PROVE  ReadsInv'
<1>1. shown' = snapshot[r] /\ UNCHANGED <<listeners, nudges, heard, crossed>>
  BY DEF Assign, vars
<1>2. ~crossed => Reading' = {}
  BY <1>1 DEF ReadsInv
<1> QED
  BY <1>1, <1>2 DEF ReadsInv

LEMMA ReadsInvStep ==
    ASSUME TypeOK, ShellType, ReadsInv, [ShellNext]_allVars PROVE ReadsInv'
<1>1. CASE UNCHANGED <<listeners, launch, pump, view, snapshot, shown, nudges, heard, crossed>>
  BY <1>1 DEF ReadsInv, Reading
<1>2. CASE \/ EngineStep \/ ClientStep \/ LaunchStarts \/ QuitBegins \/ QuitStops
           \/ (\E r \in Racers : RacerEnds(r)) \/ UNCHANGED allVars
  <2>1. ASSUME NEW c \in Calls, CallStep(c) \/ Start(c) \/ Stop(c) PROVE UNCHANGED listeners
    BY <2>1 DEF CallStep, Start, Stop, Signal, Join, Spawn
  <2>2. ASSUME NEW r \in Runs, TaskStep(r) \/ Drained(r) PROVE UNCHANGED listeners
    BY <2>2 DEF TaskStep, Drained, Bind, BindFails, Close
  <2>3. ASSUME NEW x \in Connections, ConnStep(x) \/ Connect(x) \/ ClientLeaves(x)
        PROVE  UNCHANGED listeners
    BY <2>3 DEF ConnStep, Subscribe, CheckShutdown, HangUp, Connect, ClientLeaves
  <2>4. UNCHANGED listeners
    BY <1>2, <2>1, <2>2, <2>3, ShellAssumption
    DEF EngineStep, ClientStep, LaunchStarts, QuitBegins, QuitStops, RacerEnds, allVars, vars
  <2>5. UNCHANGED <<launch, pump, view, snapshot, shown, nudges, heard, crossed>>
    BY <1>2 DEF EngineStep, ClientStep, LaunchStarts, QuitBegins, QuitStops, RacerEnds, allVars, shellVars,
                readVars
  <2> QED
    BY <1>1, <2>4, <2>5
<1>3. CASE LaunchReads \/ PumpStarts
  <2>1. UNCHANGED <<listeners, snapshot, shown, nudges, heard, crossed>> /\ Reading' = Reading
    <3>1. UNCHANGED <<listeners, snapshot, shown, nudges, heard, crossed, view>>
      BY <1>3 DEF LaunchReads, PumpStarts, readVars, vars
    <3>2. /\ launch # "assigning" /\ launch' # "assigning" /\ pump' # "assigning"
          /\ pump # "assigning"
      BY <1>3 DEF LaunchReads, PumpStarts, ReadsInv
    <3> QED
      BY <3>1, <3>2 DEF Reading
  <2>3. CASE LaunchReads
    BY <2>1, <2>3 DEF LaunchReads, ReadsInv
  <2>4. CASE PumpStarts
    <3>1. launch = "loading" /\ launch' = "over"
      BY <2>4 DEF PumpStarts
    <3>2. ~heard
      BY <3>1 DEF ReadsInv
    <3> QED
      BY <2>1, <3>1, <3>2 DEF ReadsInv
  <2> QED
    BY <1>3, <2>3, <2>4
<1>4. CASE ForwardAndNudge
  <2>1. UNCHANGED <<launch, pump, view, snapshot, shown, heard, crossed>> /\ Reading' = Reading
    BY <1>4 DEF ForwardAndNudge, readVars, Reading
  <2>2. pump # "off" => nudges' # 0
    BY <1>4 DEF ForwardAndNudge, Nudge, ShellType
  <2> QED
    BY <2>1, <2>2 DEF ReadsInv
<1>5. CASE PumpTakes \/ EventDropped
  <2>1. Reading' = Reading /\ UNCHANGED <<launch, crossed>> /\ pump' # "off" /\ pump # "off"
    BY <1>5 DEF PumpTakes, EventDropped, Reading, ShellType
  <2>2. (UNCHANGED heard /\ pump' = "reading") \/ heard' = FALSE
    BY <1>5 DEF PumpTakes, EventDropped
  <2> QED
    BY <2>1, <2>2 DEF ReadsInv
<1>6. CASE LaunchRefreshes
  <2>1. "launch" \in Readers
    BY DEF Readers
  <2>2. CASE launch = "reading" /\ Read("launch") /\ launch' = "assigning" /\ UNCHANGED <<pump, view>>
    <3>1. Reading' = Reading \cup {"launch"}
      BY <2>1, <2>2 DEF Reading
    <3> QED
      BY <2>1, <2>2, <3>1, ReadStep
  <2>3. CASE launch = "assigning" /\ Assign("launch") /\ launch' = "loading" /\ UNCHANGED <<pump, view>>
    <3>1. Reading' = Reading \ {"launch"} /\ "launch" \in Reading
      BY <2>1, <2>3 DEF Reading
    <3> QED
      BY <2>1, <2>3, <3>1, AssignStep
  <2> QED
    BY <1>6, <2>2, <2>3 DEF LaunchRefreshes
<1>7. CASE PumpRefreshes
  <2>1. "pump" \in Readers /\ (pump # "off" => launch = "over")
    BY DEF Readers, ReadsInv
  <2>2. CASE pump = "reading" /\ Read("pump") /\ pump' = "assigning" /\ UNCHANGED <<launch, view>>
    <3>1. Reading' = Reading \cup {"pump"}
      BY <2>1, <2>2 DEF Reading
    <3> QED
      BY <2>1, <2>2, <3>1, ReadStep
  <2>3. CASE pump = "assigning" /\ Assign("pump") /\ pump' = "idle" /\ UNCHANGED <<launch, view>>
    <3>1. Reading' = Reading \ {"pump"} /\ "pump" \in Reading
      BY <2>1, <2>3 DEF Reading
    <3> QED
      BY <2>1, <2>3, <3>1, AssignStep
  <2> QED
    BY <1>7, <2>2, <2>3 DEF PumpRefreshes
<1>8. CASE ViewRefreshes
  <2>1. "view" \in Readers
    BY DEF Readers
  <2>2. CASE view = "idle" /\ Read("view") /\ view' = "assigning" /\ UNCHANGED <<launch, pump>>
    <3>1. Reading' = Reading \cup {"view"}
      BY <2>1, <2>2 DEF Reading
    <3> QED
      BY <2>1, <2>2, <3>1, ReadStep
  <2>3. CASE view = "assigning" /\ Assign("view") /\ view' = "idle" /\ UNCHANGED <<launch, pump>>
    <3>1. Reading' = Reading \ {"view"} /\ "view" \in Reading
      BY <2>1, <2>3 DEF Reading
    <3> QED
      BY <2>1, <2>3, <3>1, AssignStep
  <2> QED
    BY <1>8, <2>2, <2>3 DEF ViewRefreshes
<1> QED
  BY <1>2, <1>3, <1>4, <1>5, <1>6, <1>7, <1>8 DEF ShellNext, LaunchStep, PumpStep

LEMMA ShellStep == TypeOK /\ ShellInv /\ [ShellNext]_allVars => ShellInv'
<1> SUFFICES ASSUME TypeOK, ShellInv, [ShellNext]_allVars PROVE ShellInv'
  OBVIOUS
<1>1. ShellType'
  <2>1. CASE ShellNext
    BY <2>1, ShellTypeStep DEF ShellInv
  <2>2. CASE UNCHANGED allVars
    BY <2>2 DEF ShellInv, ShellType, allVars, shellVars
  <2> QED
    BY <2>1, <2>2
<1>2. OneStart' /\ ReadsInv'
  BY OneStartStep, ReadsInvStep DEF ShellInv
<1> QED
  BY <1>1, <1>2 DEF ShellInv

\* Everything below holds whenever the app quits, however long the status takes
\* to read, and however many connections there are.
THEOREM ShellInvariant == ShellSpec => []ShellInv
<1>1. ShellSpec => []TypeOK
  BY ShellRunsTheEngine, TypeCorrect, PTL
<1> QED
  BY <1>1, ShellInitially, ShellStep, PTL DEF ShellSpec

\* The shell's state is well formed, and with it the engine's.
THEOREM ShellTypeCorrect == ShellSpec => []ShellTypeOK
<1>1. ShellInv => ShellType
  BY DEF ShellInv
<1>2. ShellSpec => []TypeOK
  BY ShellRunsTheEngine, TypeCorrect, PTL
<1> QED
  BY <1>1, <1>2, ShellInvariant, ShellParts, PTL

\* The app's one start is over before its stop has a run to take, so the
\* overlap that makes the engine's status lie does not arise from the app.
THEOREM AppNeverOverlaps == ShellSpec => []~overlapped
<1>1. ShellInv => ~overlapped
  BY DEF ShellInv, OneStart
<1> QED
  BY <1>1, ShellInvariant, PTL

\* What CoreEngine shows once everything has settled is which listeners are up,
\* provided the pump has missed no event since it last read the status and no
\* two reads ever crossed.
THEOREM ShownStatusIsTrue == ShellSpec => []ShownIsTrue
<1>1. ShellInv /\ StatusIsTrue => ShownIsTrue
  <2> SUFFICES ASSUME ShellInv, StatusIsTrue, Settled, heard, ~crossed PROVE shown = Up
    BY DEF ShownIsTrue
  <2>1. Reading = {}
    BY DEF Settled, Reading
  <2>2. shown = listeners
    BY <2>1 DEF ShellInv, ReadsInv, Settled
  <2>3. listeners = Up
    BY DEF ShellInv, OneStart, StatusIsTrue, Settled
  <2> QED
    BY <2>2, <2>3
<1>2. ShellSpec => []StatusIsTrue
  BY ShellRunsTheEngine, StatusTellsTheTruth, PTL
<1> QED
  BY <1>1, <1>2, ShellInvariant, PTL

=============================================================================
