--------------------------- MODULE RequestsProofs ---------------------------
(***************************************************************************)
(* Theorems about Requests for any calls, sites and process identifiers    *)
(* and any limits: type correctness, that no step one replaces an          *)
(* enrollment, that an enrollment is finished by the site that began it,   *)
(* and that consents are the person's.  They rest on the turnstiles, as    *)
(* those of OriginGate do: a call past its turnstile owns the one that     *)
(* the map has for its site or attempt, whatever the sweeps reclaim.       *)
(***************************************************************************)
EXTENDS Requests, TLAPS

\* The phases of a call that has passed its turnstile.
Behind == {"recheck", "dialog", "generate", "insert"}

\* A call knows its request, and each function has phases of its own.
CallInv == \A c \in Calls :
    /\ phase[c] # "idle" => request[c] \in Requested
    /\ phase[c] \in {"sweep", "sweepGates", "check", "disks", "generate", "insert"} =>
            request[c].fn = "step1"
    /\ phase[c] \in {"peek", "verify", "write", "sign", "remove"} => request[c].fn = "step2"
    /\ phase[c] \in {"toggle", "recorded"} => request[c].fn = "seed"
    /\ phase[c] \in {"gateFor", "queued", "recheck", "dialog"} => request[c].fn \in {"step1", "seed"}
    /\ phase[c] # "done" => reply[c] = "none"

\* A turnstile a call holds is the one in the map for its site or attempt.
HeldIsInMap == \A c \in Calls : gate[c] # NoCall =>
    /\ phase[c] \in Behind \cup {"queued"}
    /\ gates[Turnstile(c)] = gate[c]

\* A call that waits at a turnstile holds it, and one past it owns it.
BehindIsInside == \A c \in Calls :
    /\ phase[c] \in Behind \cup {"queued"} => gate[c] # NoCall
    /\ phase[c] \in Behind => owner[gate[c]] = c

TurnInv == HeldIsInMap /\ BehindIsInside

\* What a call found behind its turnstile still stands.
StillUnstarted == \A c \in Calls :
    request[c].fn = "step1" /\ phase[c] \in {"dialog", "generate", "insert"} => ~Pending(Attempt(c))
StillUnasked == \A c \in Calls :
    request[c].fn = "seed" /\ phase[c] = "dialog" => ~Recorded(request[c].site)

UndecidedInv == StillUnstarted /\ StillUnasked

\* Step one of this request has replied, and its key is k.
BegunBy(k, r) ==
    /\ k \in Calls
    /\ request[k] = [fn |-> "step1", site |-> r.site, guid |-> r.guid]
    /\ phase[k] = "done"
    /\ reply[k] = "ok"

\* Whatever a step two finds, keeps and writes was begun by its own site.
EnrollmentInv ==
    /\ \A a \in Attempts : Pending(a) => BegunBy(enrollments[a].key, [site |-> a[1], guid |-> a[2]])
    /\ \A c \in Calls :
        /\ phase[c] \in {"verify", "write", "sign"} => held[c] # NoCall
        /\ held[c] # NoCall => phase[c] \notin {"idle", "peek"} /\ BegunBy(held[c], request[c])
        /\ wrote[c] # NoCall => wrote[c] = held[c]

\* What may be on record of a site whose panels ended like this.
Backed(said) == {"none"} \cup said \cup {r \in {"deny"} : "closed" \in said}

\* What is on record, and what a site was given, a panel that ended in the
\* person's hands has left.
ConsentInv ==
    /\ \A s \in Sites : consents[s] \in Backed(answers[s])
    /\ \A c \in Calls : request[c].fn = "seed" /\ reply[c] = "ok" => "allow" \in answers[request[c].site]

RequestsInv == TypeOK /\ CallInv /\ TurnInv /\ UndecidedInv /\ EnrollmentInv /\ ConsentInv


-----------------------------------------------------------------------------

LEMMA RequestsInit == Init => RequestsInv
<1> SUFFICES ASSUME Init PROVE RequestsInv
  OBVIOUS
<1>1. TypeOK
  BY DEF Init, TypeOK, Phases
<1>2. CallInv /\ TurnInv
  BY DEF Init, CallInv, TurnInv, HeldIsInMap, BehindIsInside, Behind
<1>3. UndecidedInv
  BY DEF Init, UndecidedInv, StillUnstarted, StillUnasked
<1>4. EnrollmentInv
  BY DEF Init, EnrollmentInv, Pending
<1>5. ConsentInv
  BY DEF Init, ConsentInv, Backed
<1> QED
  BY <1>1, <1>2, <1>3, <1>4, <1>5 DEF RequestsInv

LEMMA EnrollmentTypes ==
    /\ NoEnrollment \notin Enrollment
    /\ NoRequest \notin Requested
    /\ \A r \in Requested : r.fn \in Functions /\ r.site \in Sites /\ r.guid \in Guids
    /\ \A r \in Requested : EnrollmentKey(r) \in Attempts
    /\ Attempts \cap Sites = {}
BY RequestsAssumption
   DEF NoEnrollment, Enrollment, NoRequest, Requested, Functions, EnrollmentKey, Attempts

LEMMA TurnstileType ==
    ASSUME CallInv, NEW c \in Calls, phase[c] # "idle"
    PROVE  /\ request[c] \in Requested
           /\ Attempt(c) \in Attempts
           /\ Turnstile(c) \in Turnstiles
BY EnrollmentTypes DEF CallInv, Attempt, Turnstile, Turnstiles

\* What the sweeps keep is what they found.
LEMMA Reclaiming ==
    ASSUME TypeOK, NEW ts
    PROVE  /\ Reclaimed(ts) \in [Turnstiles -> Calls \cup {NoCall}]
           /\ \A t \in Turnstiles : Reclaimed(ts)[t] \in {gates[t], NoCall}
           /\ \A t \in Turnstiles : InUse(t) => Reclaimed(ts)[t] = gates[t]
BY DEF TypeOK, Reclaimed

LEMMA Sweeping ==
    ASSUME TypeOK
    PROVE  /\ SweptEnrollments \in [Attempts -> Enrollment \cup {NoEnrollment}]
           /\ \A a \in Attempts : SweptEnrollments[a] \in {enrollments[a], NoEnrollment}
BY DEF TypeOK, SweptEnrollments

LEMMA TypeStep == TypeOK /\ CallInv /\ [Next]_vars => TypeOK'
<1> SUFFICES ASSUME TypeOK, CallInv, [Next]_vars PROVE TypeOK'
  OBVIOUS
<1> USE DEF TypeOK, siteVars, gateVars, history
<1>1. ASSUME NEW c \in Calls, Call(c) PROVE TypeOK'
  <2>1. PICK fn \in Functions, s \in Sites, g \in Guids :
            /\ request' = [request EXCEPT ![c] = [fn |-> fn, site |-> s, guid |-> g]]
            /\ Goto(c, CASE fn = "step1" -> "sweep" [] fn = "step2" -> "peek" [] fn = "seed" -> "toggle")
    BY <1>1 DEF Call
  <2>2. phase' \in [Calls -> Phases]
    BY <2>1 DEF Goto, Phases, Functions
  <2>3. request' \in [Calls -> Requested \cup {NoRequest}]
    BY <2>1 DEF Requested
  <2> QED
    BY <1>1, <2>2, <2>3 DEF Call
<1>2. ASSUME NEW c \in Calls, Step1(c) PROVE TypeOK'
  <2>1. CASE Insert(c)
    <3>1. Attempt(c) \in Attempts /\ [key |-> c, expired |-> FALSE] \in Enrollment
      BY <2>1, TurnstileType DEF Insert, Enrollment
    <3> QED
      BY <2>1, <3>1 DEF Insert, Goto, Return, Phases
  <2>2. CASE SweepEnrollments(c)
    BY <2>2, Sweeping DEF SweepEnrollments, GoOn, Goto, Phases
  <2>3. CASE SweepGates(c)
    <3>1. Reclaimed(Attempts) \in [Turnstiles -> Calls \cup {NoCall}]
      BY Reclaiming
    <3> QED
      BY <2>3, <3>1 DEF SweepGates, Goto, Phases
  <2>4. CASE CheckEnrollment(c) \/ ListDisks(c) \/ NewPfxAnswered(c) \/ GenerateKey(c)
    BY <2>4 DEF CheckEnrollment, ListDisks, NewPfxAnswered, GenerateKey, GoOn, Goto, Return, Phases
  <2> QED
    BY <1>2, <2>1, <2>2, <2>3, <2>4 DEF Step1
<1>3. ASSUME NEW c \in Calls, Step2(c) PROVE TypeOK'
  <2>1. ASSUME Peek(c) \/ RemoveEnrollment(c) PROVE Attempt(c) \in Attempts
    BY <2>1, TurnstileType DEF Peek, RemoveEnrollment
  <2>2. Pending(Attempt(c)) /\ Attempt(c) \in Attempts => enrollments[Attempt(c)].key \in Calls
    BY DEF Pending, Enrollment
  <2> QED
    BY <1>3, <2>1, <2>2 DEF Step2, Peek, Verify, WriteKey, Sign, RemoveEnrollment, GoOn, Goto, Return, Phases
<1>4. ASSUME NEW c \in Calls, Seed(c) PROVE TypeOK'
  BY <1>4 DEF Seed, CheckToggle, CheckConsent, SeedAnswered, AsRecorded, Record, GoOn, Goto, Return, Phases
<1>5. ASSUME NEW c \in Calls, GateFor(c) PROVE TypeOK'
  <2>1. Turnstile(c) \in Turnstiles
    BY <1>5, TurnstileType DEF GateFor
  <2> QED
    BY <1>5, <2>1, Reclaiming DEF GateFor, Goto, Phases
<1>6. ASSUME NEW c \in Calls, Lock(c) \/ Fails(c) PROVE TypeOK'
  BY <1>6 DEF Lock, Fails, Goto, Return, Phases
<1>7. ASSUME NEW a \in Attempts, Expire(a) PROVE TypeOK'
  <2>1. [enrollments[a] EXCEPT !.expired = TRUE] \in Enrollment
    BY <1>7 DEF Expire, Pending, Enrollment
  <2> QED
    BY <1>7, <2>1 DEF Expire
<1>8. CASE SweepTimer
  <2>1. /\ SweptEnrollments \in [Attempts -> Enrollment \cup {NoEnrollment}]
        /\ Reclaimed(Attempts) \in [Turnstiles -> Calls \cup {NoCall}]
    BY Reclaiming, Sweeping
  <2> QED
    BY <1>8, <2>1 DEF SweepTimer
<1>10. CASE SetAskBefore
  <2>1. askBefore' \in BOOLEAN
    BY <1>10 DEF SetAskBefore
  <2> QED
    BY <1>10, <2>1 DEF SetAskBefore
<1>9. CASE UNCHANGED vars
  BY <1>9 DEF vars
<1> QED
  BY <1>1, <1>2, <1>3, <1>4, <1>5, <1>6, <1>7, <1>8, <1>9, <1>10 DEF Next, CallStep

LEMMA CallStepInv == TypeOK /\ CallInv /\ [Next]_vars => CallInv'
<1> SUFFICES ASSUME TypeOK, CallInv, [Next]_vars PROVE CallInv'
  OBVIOUS
<1> USE DEF TypeOK, CallInv, siteVars, gateVars, history
<1>1. ASSUME NEW c \in Calls, Call(c) PROVE CallInv'
  <2>1. PICK fn \in Functions, s \in Sites, g \in Guids :
            /\ request' = [request EXCEPT ![c] = [fn |-> fn, site |-> s, guid |-> g]]
            /\ Goto(c, CASE fn = "step1" -> "sweep" [] fn = "step2" -> "peek" [] fn = "seed" -> "toggle")
    BY <1>1 DEF Call
  <2>2. \/ fn = "step1" /\ phase'[c] = "sweep"
        \/ fn = "step2" /\ phase'[c] = "peek"
        \/ fn = "seed" /\ phase'[c] = "toggle"
    BY <2>1 DEF Goto, Functions
  <2>3. request'[c] = [fn |-> fn, site |-> s, guid |-> g] /\ request'[c] \in Requested
    BY <2>1 DEF Requested
  <2>4. \A e \in Calls \ {c} : phase'[e] = phase[e] /\ request'[e] = request[e]
    BY <2>1 DEF Goto
  <2> QED
    BY <1>1, <2>2, <2>3, <2>4 DEF Call
<1>2. ASSUME NEW c \in Calls, Step1(c) PROVE CallInv'
  BY <1>2 DEF Step1, SweepEnrollments, SweepGates, CheckEnrollment, ListDisks, NewPfxAnswered,
              GenerateKey, Insert, GoOn, Goto, Return
<1>3. ASSUME NEW c \in Calls, Step2(c) PROVE CallInv'
  BY <1>3 DEF Step2, Peek, Verify, WriteKey, Sign, RemoveEnrollment, GoOn, Goto, Return
<1>4. ASSUME NEW c \in Calls, Seed(c) PROVE CallInv'
  BY <1>4 DEF Seed, CheckToggle, CheckConsent, SeedAnswered, GoOn, Goto, Return
<1>5. ASSUME NEW c \in Calls, GateFor(c) \/ Lock(c) \/ Fails(c) PROVE CallInv'
  BY <1>5 DEF GateFor, Lock, Fails, Goto, Return
<1>6. ASSUME NEW a \in Attempts, Expire(a) PROVE CallInv'
  BY <1>6 DEF Expire
<1>7. CASE SweepTimer \/ SetAskBefore \/ UNCHANGED vars
  BY <1>7 DEF SweepTimer, SetAskBefore, vars
<1> QED
  BY <1>1, <1>2, <1>3, <1>4, <1>5, <1>6, <1>7 DEF Next, CallStep

-----------------------------------------------------------------------------

\* Only a new call has another request, and so another turnstile.
LEMMA RequestsStand ==
    ASSUME TypeOK, CallInv, [Next]_vars, NEW c \in Calls, phase[c] # "idle"
    PROVE  request'[c] = request[c] /\ Attempt(c)' = Attempt(c) /\ Turnstile(c)' = Turnstile(c)
<1>1. request'[c] = request[c]
  <2>1. ASSUME NEW d \in Calls, Call(d) PROVE request'[c] = request[c]
    BY <2>1 DEF TypeOK, Call
  <2>2. ASSUME NEW d \in Calls, Step1(d) PROVE request' = request
    BY <2>2 DEF Step1, SweepEnrollments, SweepGates, CheckEnrollment, ListDisks, NewPfxAnswered,
                GenerateKey, Insert, GoOn, Return
  <2>3. ASSUME NEW d \in Calls, Step2(d) PROVE request' = request
    BY <2>3 DEF Step2, Peek, Verify, WriteKey, Sign, RemoveEnrollment, GoOn, Return
  <2>4. ASSUME NEW d \in Calls, Seed(d) PROVE request' = request
    BY <2>4 DEF Seed, CheckToggle, CheckConsent, SeedAnswered, GoOn, Return
  <2>5. ASSUME NEW d \in Calls, GateFor(d) \/ Lock(d) \/ Fails(d) PROVE request' = request
    BY <2>5 DEF GateFor, Lock, Fails, Return
  <2>6. ASSUME NEW a \in Attempts, Expire(a) PROVE request' = request
    BY <2>6 DEF Expire
  <2>7. CASE SweepTimer \/ SetAskBefore \/ UNCHANGED vars
    BY <2>7 DEF SweepTimer, SetAskBefore, vars
  <2> QED
    BY <2>1, <2>2, <2>3, <2>4, <2>5, <2>6, <2>7 DEF Next, CallStep
<1> QED
  BY <1>1 DEF Attempt, Turnstile, EnrollmentKey

\* A call that returns leaves the turnstiles of the others as they are.
LEMMA ReturnTurn ==
    ASSUME TypeOK, CallInv, TurnInv, [Next]_vars, NEW c \in Calls, NEW r, Return(c, r)
    PROVE  TurnInv'
<1>1. \A e \in Calls : e # c => phase'[e] = phase[e] /\ gate'[e] = gate[e]
  BY DEF Return, Goto, TypeOK
<1>2. phase'[c] = "done" /\ gate'[c] = NoCall /\ gates' = gates
  BY DEF Return, Goto, TypeOK
<1>3. \A e \in Calls : gate[e] # NoCall => Turnstile(e)' = Turnstile(e)
  BY RequestsStand DEF TurnInv, HeldIsInMap, Behind
<1>4. HeldIsInMap'
  BY <1>1, <1>2, <1>3 DEF TurnInv, HeldIsInMap
<1>5. \A e \in Calls : e # c /\ phase[e] \in Behind => owner'[gate[e]] = e
  BY RequestsAssumption DEF TurnInv, BehindIsInside, Return, TypeOK
<1>6. BehindIsInside'
  BY <1>1, <1>2, <1>5 DEF TurnInv, BehindIsInside, Behind
<1> QED
  BY <1>4, <1>6 DEF TurnInv

\* So does one that goes on, unless it has just left the dialog's door.
LEMMA GoOnTurn ==
    ASSUME TypeOK, CallInv, TurnInv, [Next]_vars, NEW c \in Calls, NEW p, GoOn(c, p),
           phase[c] # "idle",
           \/ phase[c] \in Behind /\ p \in Behind
           \/ phase[c] \notin Behind \cup {"queued"} /\ p \notin Behind \cup {"queued"}
    PROVE  TurnInv'
<1>1. \A e \in Calls : gate[e] # NoCall => Turnstile(e)' = Turnstile(e)
  BY RequestsStand DEF TurnInv, HeldIsInMap, Behind
<1>2. /\ \A e \in Calls : e # c => phase'[e] = phase[e]
      /\ phase'[c] = p /\ UNCHANGED <<gates, gate, owner>>
  BY DEF GoOn, Goto, gateVars, TypeOK
<1> QED
  BY <1>1, <1>2 DEF TurnInv, HeldIsInMap, BehindIsInside

\* What pruning and sweeping reclaim is held by nobody.
LEMMA ReclaimTurn ==
    ASSUME TypeOK, CallInv, TurnInv, [Next]_vars, NEW ts, gates' = Reclaimed(ts),
           UNCHANGED <<gate, owner>>,
           \A e \in Calls : phase'[e] \in Behind \cup {"queued"} => phase'[e] = phase[e],
           \A e \in Calls : phase[e] \in Behind \cup {"queued"} => phase'[e] = phase[e]
    PROVE  TurnInv'
<1>1. \A e \in Calls : gate[e] # NoCall => Turnstile(e)' = Turnstile(e) /\ Turnstile(e) \in Turnstiles
  BY RequestsStand, TurnstileType DEF TurnInv, HeldIsInMap, Behind
<1>2. \A e \in Calls : gate[e] # NoCall => InUse(Turnstile(e))
  BY DEF TurnInv, HeldIsInMap, InUse
<1>3. \A e \in Calls : gate[e] # NoCall => gates'[Turnstile(e)] = gate[e]
  BY <1>1, <1>2, Reclaiming DEF TurnInv, HeldIsInMap
<1> QED
  BY <1>1, <1>3 DEF TurnInv, HeldIsInMap, BehindIsInside

LEMMA GateForTurn ==
    ASSUME TypeOK, CallInv, TurnInv, [Next]_vars, NEW c \in Calls, GateFor(c)
    PROVE  TurnInv'
<1> DEFINE t == Turnstile(c)
           mine == IF gates[t] = NoCall THEN c ELSE gates[t]
<1>1. /\ phase[c] = "gateFor" /\ phase' = [phase EXCEPT ![c] = "queued"]
      /\ gate' = [gate EXCEPT ![c] = mine]
      /\ owner' = owner
      /\ \/ gates' = [gates EXCEPT ![t] = mine]
         \/ gates' = [Reclaimed(Sites) EXCEPT ![t] = mine]
  BY DEF GateFor, Goto
<1>2. t \in Turnstiles /\ Turnstile(c)' = t
  BY <1>1, TurnstileType, RequestsStand
<1>3. gates'[t] = mine /\ mine # NoCall
  BY <1>1, <1>2, Reclaiming, RequestsAssumption DEF TypeOK
<1>4. ASSUME NEW e \in Calls, e # c, gate[e] # NoCall
      PROVE  gates'[Turnstile(e)'] = gate[e]
  <2>1. /\ Turnstile(e)' = Turnstile(e) /\ Turnstile(e) \in Turnstiles
        /\ gates[Turnstile(e)] = gate[e]
    BY <1>4, RequestsStand, TurnstileType DEF TurnInv, HeldIsInMap, Behind
  <2>2. InUse(Turnstile(e))
    BY <2>1 DEF InUse
  <2>3. Reclaimed(Sites)[Turnstile(e)] = gate[e]
    BY <2>1, <2>2, Reclaiming
  <2>4. Turnstile(e) = t => gates'[Turnstile(e)] = gate[e]
    BY <1>3, <1>4, <2>1
  <2>5. Reclaimed(Sites) \in [Turnstiles -> Calls \cup {NoCall}]
    BY Reclaiming
  <2> HIDE DEF t, mine
  <2>6. Turnstile(e) # t => gates'[Turnstile(e)] = gate[e]
    BY <1>1, <2>1, <2>3, <2>5 DEF TypeOK
  <2> QED
    BY <2>1, <2>4, <2>6
<1> HIDE DEF t, mine
<1>5. HeldIsInMap'
  BY <1>1, <1>2, <1>3, <1>4 DEF TurnInv, HeldIsInMap, TypeOK
<1>6. BehindIsInside'
  BY <1>1, <1>3 DEF TurnInv, BehindIsInside, Behind, TypeOK
<1> QED
  BY <1>5, <1>6 DEF TurnInv

LEMMA TurnStep == TypeOK /\ CallInv /\ TurnInv /\ [Next]_vars => TurnInv'
<1> SUFFICES ASSUME TypeOK, CallInv, TurnInv, [Next]_vars PROVE TurnInv'
  OBVIOUS
<1>1. \A e \in Calls : gate[e] # NoCall => Turnstile(e)' = Turnstile(e)
  BY RequestsStand DEF TurnInv, HeldIsInMap, Behind
<1>2. ASSUME NEW c \in Calls, Call(c) PROVE TurnInv'
  <2>1. /\ phase[c] = "idle" /\ phase'[c] \in {"sweep", "peek", "toggle"}
        /\ \A e \in Calls : e # c => phase'[e] = phase[e]
        /\ UNCHANGED <<gates, gate, owner>>
    BY <1>2 DEF Call, Goto, Functions, gateVars, TypeOK
  <2> QED
    BY <1>1, <2>1 DEF TurnInv, HeldIsInMap, BehindIsInside, Behind
<1>3. ASSUME NEW c \in Calls, Step1(c) PROVE TurnInv'
  <2>1. CASE SweepGates(c)
    BY <2>1, ReclaimTurn DEF SweepGates, Goto, Behind, TypeOK
  <2>2. CASE SweepEnrollments(c) \/ ListDisks(c) \/ NewPfxAnswered(c) \/ GenerateKey(c)
    BY <2>2, GoOnTurn DEF SweepEnrollments, ListDisks, NewPfxAnswered, GenerateKey, Behind
  <2>3. CASE CheckEnrollment(c) \/ Insert(c)
    BY <2>3, GoOnTurn, ReturnTurn DEF CheckEnrollment, Insert, Behind
  <2> QED
    BY <1>3, <2>1, <2>2, <2>3 DEF Step1
<1>4. ASSUME NEW c \in Calls, Step2(c) PROVE TurnInv'
  <2>1. CASE Verify(c) \/ WriteKey(c) \/ Sign(c)
    BY <2>1, GoOnTurn DEF Verify, WriteKey, Sign, Behind
  <2>2. CASE Peek(c) /\ Goto(c, "verify")
    BY <1>1, <2>2 DEF Peek, Goto, gateVars, TurnInv, HeldIsInMap, BehindIsInside, Behind, TypeOK, Return
  <2>3. CASE (Peek(c) /\ ~Goto(c, "verify")) \/ RemoveEnrollment(c)
    BY <2>3, ReturnTurn DEF Peek, RemoveEnrollment
  <2> QED
    BY <1>4, <2>1, <2>2, <2>3 DEF Step2
<1>5. ASSUME NEW c \in Calls, Seed(c) PROVE TurnInv'
  <2>1. CASE CheckToggle(c)
    BY <2>1, GoOnTurn, ReturnTurn DEF CheckToggle, Behind
  <2>2. CASE CheckConsent(c)
    <3>1. \/ Return(c, AsRecorded(request[c].site))
          \/ phase[c] = "recorded" /\ GoOn(c, "gateFor")
          \/ phase[c] = "recheck" /\ GoOn(c, "dialog")
      BY <2>2 DEF CheckConsent
    <3> QED
      BY <3>1, GoOnTurn, ReturnTurn DEF Behind
  <2>3. CASE SeedAnswered(c)
    <3>1. \E r : Return(c, r)
      BY <2>3 DEF SeedAnswered
    <3> QED
      BY <3>1, ReturnTurn
  <2> QED
    BY <1>5, <2>1, <2>2, <2>3 DEF Seed
<1>6. ASSUME NEW c \in Calls, GateFor(c) PROVE TurnInv'
  BY <1>6, GateForTurn
<1>7. ASSUME NEW c \in Calls, Lock(c) PROVE TurnInv'
  <2>1. /\ phase[c] = "queued" /\ phase' = [phase EXCEPT ![c] = "recheck"]
        /\ owner[gate[c]] = NoCall /\ owner' = [owner EXCEPT ![gate[c]] = c]
        /\ UNCHANGED <<gates, gate>>
    BY <1>7 DEF Lock, Goto
  <2>2. gate[c] \in Calls
    BY <2>1 DEF TurnInv, BehindIsInside, TypeOK
  <2>3. HeldIsInMap'
    BY <1>1, <2>1 DEF TurnInv, HeldIsInMap, Behind, TypeOK
  <2>4. ASSUME NEW e \in Calls, e # c, phase[e] \in Behind PROVE owner'[gate[e]] = e
    <3>1. owner[gate[e]] = e /\ gate[e] # gate[c]
      BY <2>1, <2>4, RequestsAssumption DEF TurnInv, BehindIsInside
    <3> QED
      BY <2>1, <2>2, <2>4, <3>1, RequestsAssumption DEF TypeOK, TurnInv, BehindIsInside
  <2>5. BehindIsInside'
    BY <2>1, <2>2, <2>4 DEF TurnInv, BehindIsInside, Behind, TypeOK
  <2> QED
    BY <2>3, <2>5 DEF TurnInv
<1>8. ASSUME NEW c \in Calls, Fails(c) PROVE TurnInv'
  BY <1>8, ReturnTurn DEF Fails
<1>9. CASE SweepTimer
  <2>1. CASE gates' = Reclaimed(Attempts)
    BY <1>9, <2>1, ReclaimTurn DEF SweepTimer
  <2>2. CASE gates' = gates
    BY <1>1, <1>9, <2>2 DEF SweepTimer, TurnInv, HeldIsInMap, BehindIsInside
  <2> QED
    BY <1>9, <2>1, <2>2 DEF SweepTimer
<1>10. CASE (\E a \in Attempts : Expire(a)) \/ SetAskBefore \/ UNCHANGED vars
  BY <1>1, <1>10 DEF Expire, SetAskBefore, vars, gateVars, TurnInv, HeldIsInMap, BehindIsInside
<1> QED
  BY <1>2, <1>3, <1>4, <1>5, <1>6, <1>7, <1>8, <1>9, <1>10 DEF Next, CallStep

\* At most one call of a site or attempt is past its turnstile.
LEMMA OneBehind ==
    ASSUME TurnInv, NEW c \in Calls, NEW d \in Calls, phase[c] \in Behind, phase[d] \in Behind,
           Turnstile(c) = Turnstile(d)
    PROVE  c = d
BY DEF TurnInv, HeldIsInMap, BehindIsInside

-----------------------------------------------------------------------------

\* A call that has just looked behind its turnstile found nothing, and what
\* another call starts or records is another site's or attempt's.
LEMMA UndecidedStep ==
    TypeOK /\ CallInv /\ TurnInv /\ UndecidedInv /\ [Next]_vars => UndecidedInv'
<1> SUFFICES ASSUME TypeOK, CallInv, TurnInv, UndecidedInv, [Next]_vars PROVE UndecidedInv'
  OBVIOUS
<1> DEFINE Keeps(c) == /\ phase'[c] \in {"dialog", "generate", "insert"} =>
                             phase[c] \in {"dialog", "generate", "insert"}
                       /\ \A e \in Calls : e # c => phase'[e] = phase[e]
           Begins(c) == /\ phase[c] = "recheck"
                        /\ \A e \in Calls : e # c => phase'[e] = phase[e]
           NoneStarted == \A a \in Attempts : Pending(a)' => Pending(a)
           NoneRecorded == \A s \in Sites : Recorded(s)' => Recorded(s)
<1>1. ASSUME NEW e \in Calls, phase[e] # "idle"
      PROVE  /\ request'[e] = request[e]
             /\ Attempt(e)' = Attempt(e) /\ Attempt(e) \in Attempts
             /\ request[e].site \in Sites
  BY <1>1, RequestsStand, TurnstileType, EnrollmentTypes
<1>2. ASSUME NEW c \in Calls, Keeps(c), NoneStarted, NoneRecorded PROVE UndecidedInv'
  <2>1. ASSUME NEW e \in Calls, phase'[e] \in {"dialog", "generate", "insert"}
        PROVE  /\ phase[e] \in {"dialog", "generate", "insert"}
               /\ request'[e] = request[e] /\ Attempt(e)' = Attempt(e)
               /\ Attempt(e) \in Attempts /\ request[e].site \in Sites
               /\ request[e].fn = "seed" => phase[e] = "dialog"
    <3>1. phase[e] \in {"dialog", "generate", "insert"}
      BY <1>2, <2>1
    <3> QED
      BY <1>1, <3>1 DEF CallInv
  <2>2. ASSUME NEW e \in Calls, request'[e].fn = "step1", phase'[e] \in {"dialog", "generate", "insert"}
        PROVE  ~Pending(Attempt(e))'
    <3>1. ~Pending(Attempt(e)) /\ Attempt(e)' = Attempt(e) /\ Attempt(e) \in Attempts
      BY <2>1, <2>2 DEF UndecidedInv, StillUnstarted
    <3> QED
      BY <1>2, <3>1 DEF Pending
  <2>3. ASSUME NEW e \in Calls, request'[e].fn = "seed", phase'[e] = "dialog"
        PROVE  ~Recorded(request[e].site)'
    <3>1. ~Recorded(request[e].site) /\ request'[e] = request[e] /\ request[e].site \in Sites
      BY <2>1, <2>3 DEF UndecidedInv, StillUnasked
    <3> QED
      BY <1>2, <3>1 DEF Recorded
  <2> QED
    BY <2>2, <2>3 DEF UndecidedInv, StillUnstarted, StillUnasked
<1>3. ASSUME NEW c \in Calls, Call(c) PROVE UndecidedInv'
  <2>1. /\ phase'[c] \in {"sweep", "peek", "toggle"}
        /\ \A e \in Calls : e # c => phase'[e] = phase[e]
        /\ UNCHANGED <<enrollments, consents>>
    BY <1>3 DEF Call, Goto, Functions, siteVars, TypeOK
  <2> QED
    BY <1>2, <2>1 DEF Pending, Recorded
<1>4. ASSUME NEW c \in Calls, Step1(c) PROVE UndecidedInv'
  <2>1. CASE SweepEnrollments(c)
    BY <1>2, <2>1, Sweeping DEF SweepEnrollments, GoOn, Goto, Pending, Recorded, TypeOK
  <2>2. CASE SweepGates(c) \/ ListDisks(c) \/ NewPfxAnswered(c) \/ GenerateKey(c)
    BY <1>2, <2>2 DEF SweepGates, ListDisks, NewPfxAnswered, GenerateKey, GoOn, Goto, Pending, Recorded,
                      TypeOK, siteVars
  <2>3. CASE CheckEnrollment(c)
    <3>1. UNCHANGED <<enrollments, consents>> /\ request[c].fn = "step1"
      BY <2>3 DEF CheckEnrollment, siteVars
    <3>2. CASE phase[c] = "recheck" /\ ~Pending(Attempt(c)) /\ GoOn(c, "dialog")
      BY <1>1, <3>1, <3>2
         DEF GoOn, Goto, UndecidedInv, StillUnstarted, StillUnasked, Pending, Recorded, TypeOK
    <3>3. CASE Return(c, "exists") \/ GoOn(c, "disks")
      BY <1>2, <3>1, <3>3 DEF Return, GoOn, Goto, Pending, Recorded, TypeOK
    <3> QED
      BY <2>3, <3>2, <3>3 DEF CheckEnrollment
  <2>4. CASE Insert(c)
    <3>1. /\ phase[c] = "insert" /\ request[c].fn = "step1" /\ phase'[c] = "done"
          /\ \A e \in Calls : e # c => phase'[e] = phase[e]
          /\ \A a \in Attempts : a # Attempt(c) => enrollments'[a] = enrollments[a]
          /\ consents' = consents
      BY <2>4, <1>1 DEF Insert, Return, Goto, CallInv, TypeOK
    <3>2. ASSUME NEW e \in Calls, e # c, request[e].fn = "step1", phase[e] \in Behind
          PROVE  Attempt(e) # Attempt(c)
      BY <3>1, <3>2, OneBehind DEF Turnstile, Behind
    <3>3. StillUnstarted'
      BY <1>1, <3>1, <3>2 DEF UndecidedInv, StillUnstarted, Pending, Behind
    <3>4. StillUnasked'
      BY <1>1, <3>1 DEF UndecidedInv, StillUnasked, Recorded
    <3> QED
      BY <3>3, <3>4 DEF UndecidedInv
  <2> QED
    BY <1>4, <2>1, <2>2, <2>3, <2>4 DEF Step1
<1>5. ASSUME NEW c \in Calls, Step2(c) PROVE UndecidedInv'
  <2>1. Keeps(c) /\ consents' = consents
    BY <1>5 DEF Step2, Peek, Verify, WriteKey, Sign, RemoveEnrollment, GoOn, Goto, Return, siteVars, TypeOK
  <2>2. NoneStarted
    BY <1>5 DEF Step2, Peek, Verify, WriteKey, Sign, RemoveEnrollment, siteVars, Pending, TypeOK
  <2> QED
    BY <1>2, <2>1, <2>2 DEF Recorded
<1>6. ASSUME NEW c \in Calls, Seed(c) PROVE UndecidedInv'
  <2>1. CASE CheckToggle(c)
    BY <1>2, <2>1 DEF CheckToggle, GoOn, Goto, Return, siteVars, Pending, Recorded, TypeOK
  <2>2. CASE CheckConsent(c)
    <3>1. UNCHANGED <<enrollments, consents>> /\ request[c].fn = "seed"
      BY <2>2 DEF CheckConsent, siteVars
    <3>2. CASE phase[c] = "recheck" /\ ~Recorded(request[c].site) /\ GoOn(c, "dialog")
      BY <1>1, <3>1, <3>2
         DEF GoOn, Goto, UndecidedInv, StillUnstarted, StillUnasked, Pending, Recorded, TypeOK
    <3>3. CASE Return(c, AsRecorded(request[c].site)) \/ GoOn(c, "gateFor")
      BY <1>2, <3>1, <3>3 DEF Return, GoOn, Goto, Pending, Recorded, TypeOK
    <3> QED
      BY <2>2, <3>2, <3>3 DEF CheckConsent
  <2>3. CASE SeedAnswered(c)
    <3>1. /\ phase[c] = "dialog" /\ request[c].fn = "seed" /\ phase'[c] = "done"
          /\ \A e \in Calls : e # c => phase'[e] = phase[e]
          /\ \A s \in Sites : s # request[c].site => consents'[s] = consents[s]
          /\ enrollments' = enrollments
      BY <2>3 DEF SeedAnswered, Return, Goto, TypeOK
    <3>2. ASSUME NEW e \in Calls, e # c, request[e].fn = "seed", phase[e] \in Behind
          PROVE  request[e].site # request[c].site
      BY <3>1, <3>2, OneBehind DEF Turnstile, Behind
    <3>3. StillUnasked'
      BY <1>1, <3>1, <3>2 DEF UndecidedInv, StillUnasked, Recorded, Behind
    <3>4. StillUnstarted'
      BY <1>1, <3>1 DEF UndecidedInv, StillUnstarted, Pending
    <3> QED
      BY <3>3, <3>4 DEF UndecidedInv
  <2> QED
    BY <1>6, <2>1, <2>2, <2>3 DEF Seed
<1>7. ASSUME NEW c \in Calls, GateFor(c) \/ Lock(c) \/ Fails(c) PROVE UndecidedInv'
  BY <1>2, <1>7 DEF GateFor, Lock, Fails, Return, Goto, siteVars, Pending, Recorded, TypeOK
<1>8. ASSUME phase' = phase, NoneStarted, NoneRecorded PROVE UndecidedInv'
  BY <1>1, <1>8 DEF UndecidedInv, StillUnstarted, StillUnasked
<1>9. ASSUME NEW a \in Attempts, Expire(a) PROVE UndecidedInv'
  BY <1>8, <1>9 DEF Expire, Pending, Recorded, TypeOK
<1>10. CASE SweepTimer
  <2>1. NoneStarted
    BY <1>10, Sweeping DEF SweepTimer, Pending
  <2>2. NoneRecorded
    BY <1>10 DEF SweepTimer, Recorded
  <2> QED
    BY <1>8, <1>10, <2>1, <2>2 DEF SweepTimer
<1>11. CASE SetAskBefore \/ UNCHANGED vars
  BY <1>8, <1>11 DEF SetAskBefore, vars, siteVars, Pending, Recorded
<1> QED
  BY <1>3, <1>4, <1>5, <1>6, <1>7, <1>9, <1>10, <1>11 DEF Next, CallStep

-----------------------------------------------------------------------------

\* A call that has replied keeps its request, and its reply.
LEMMA DoneStands ==
    ASSUME TypeOK, CallInv, [Next]_vars, NEW k \in Calls, phase[k] = "done"
    PROVE  request'[k] = request[k] /\ phase'[k] = "done" /\ reply'[k] = reply[k]
<1>1. request'[k] = request[k]
  BY RequestsStand
<1> USE DEF TypeOK
<1>2. ASSUME NEW c \in Calls, Call(c) PROVE phase'[k] = phase[k] /\ reply'[k] = reply[k]
  BY <1>2 DEF Call, Goto
<1>3. ASSUME NEW c \in Calls, Step1(c) PROVE phase'[k] = phase[k] /\ reply'[k] = reply[k]
  BY <1>3 DEF Step1, SweepEnrollments, SweepGates, CheckEnrollment, ListDisks, NewPfxAnswered,
              GenerateKey, Insert, GoOn, Goto, Return
<1>4. ASSUME NEW c \in Calls, Step2(c) PROVE phase'[k] = phase[k] /\ reply'[k] = reply[k]
  BY <1>4 DEF Step2, Peek, Verify, WriteKey, Sign, RemoveEnrollment, GoOn, Goto, Return
<1>5. ASSUME NEW c \in Calls, Seed(c) PROVE phase'[k] = phase[k] /\ reply'[k] = reply[k]
  BY <1>5 DEF Seed, CheckToggle, CheckConsent, SeedAnswered, GoOn, Goto, Return
<1>6. ASSUME NEW c \in Calls, GateFor(c) \/ Lock(c) \/ Fails(c)
      PROVE  phase'[k] = phase[k] /\ reply'[k] = reply[k]
  BY <1>6 DEF GateFor, Lock, Fails, Goto, Return
<1>7. CASE (\E a \in Attempts : Expire(a)) \/ SweepTimer \/ SetAskBefore \/ UNCHANGED vars
  BY <1>7 DEF Expire, SweepTimer, SetAskBefore, vars
<1> QED
  BY <1>1, <1>2, <1>3, <1>4, <1>5, <1>6, <1>7 DEF Next, CallStep

LEMMA BegunStands ==
    ASSUME TypeOK, CallInv, [Next]_vars, NEW k, NEW r, BegunBy(k, r)
    PROVE  BegunBy(k, r)'
BY DoneStands DEF BegunBy

\* Of the enrollments only those of an Insert are new.
LEMMA EnrollmentsGo ==
    ASSUME TypeOK, CallInv, [Next]_vars, NEW a \in Attempts, Pending(a)'
    PROVE  \/ Pending(a) /\ enrollments'[a].key = enrollments[a].key
           \/ \E c \in Calls : Insert(c) /\ a = Attempt(c)
<1> DEFINE Stays == Pending(a) /\ enrollments'[a].key = enrollments[a].key
<1> USE DEF TypeOK, Pending
<1>1. ASSUME enrollments' = enrollments PROVE Stays
  BY <1>1
<1>2. ASSUME enrollments' = SweptEnrollments PROVE Stays
  BY <1>2, Sweeping
<1>3. ASSUME NEW c \in Calls, Call(c) \/ Seed(c) \/ GateFor(c) \/ Lock(c) \/ Fails(c) PROVE Stays
  BY <1>1, <1>3 DEF Call, Seed, CheckToggle, CheckConsent, SeedAnswered, GateFor, Lock, Fails, siteVars
<1>4. ASSUME NEW c \in Calls, Step1(c), ~(Insert(c) /\ a = Attempt(c)) PROVE Stays
  <2>1. CASE Insert(c) /\ a # Attempt(c)
    <3>1. enrollments'[a] = enrollments[a]
      BY <2>1 DEF Insert
    <3> QED
      BY <3>1
  <2>2. CASE ~Insert(c)
    BY <1>1, <1>2, <1>4, <2>2
       DEF Step1, SweepEnrollments, SweepGates, CheckEnrollment, ListDisks, NewPfxAnswered, GenerateKey,
           siteVars
  <2> QED
    BY <1>4, <2>1, <2>2
<1>5. ASSUME NEW c \in Calls, Step2(c) PROVE Stays
  <2>1. \/ enrollments' = enrollments
        \/ enrollments' = [enrollments EXCEPT ![Attempt(c)] = NoEnrollment]
    BY <1>5 DEF Step2, Peek, Verify, WriteKey, Sign, RemoveEnrollment, siteVars
  <2> QED
    BY <2>1
<1>6. ASSUME NEW b \in Attempts, Expire(b) PROVE Stays
  <2>1. enrollments[b] \in Enrollment /\ enrollments'[b] = [enrollments[b] EXCEPT !.expired = TRUE]
    BY <1>6 DEF Expire
  <2>2. enrollments'[b].key = enrollments[b].key
    BY <2>1 DEF Enrollment
  <2> QED
    BY <1>6, <2>2 DEF Expire
<1>7. CASE SweepTimer \/ SetAskBefore \/ UNCHANGED vars
  BY <1>1, <1>2, <1>7 DEF SweepTimer, SetAskBefore, vars, siteVars
<1> QED
  BY <1>3, <1>4, <1>5, <1>6, <1>7 DEF Next, CallStep

\* What a step two holds it peeked at, and what it wrote it held.
LEMMA HeldGoes ==
    ASSUME TypeOK, CallInv, [Next]_vars, NEW e \in Calls
    PROVE  /\ phase[e] \notin {"idle", "peek"} => phase'[e] \notin {"idle", "peek"}
           /\ \/ /\ held'[e] = held[e] /\ wrote'[e] = wrote[e]
                 /\ phase'[e] \in {"verify", "write", "sign"} => phase[e] \in {"verify", "write", "sign"}
              \/ /\ phase[e] = "peek" /\ phase'[e] = "verify" /\ wrote'[e] = wrote[e]
                 /\ Pending(Attempt(e)) /\ held'[e] = enrollments[Attempt(e)].key
              \/ /\ phase[e] = "write" /\ phase'[e] = "sign"
                 /\ held'[e] = held[e] /\ wrote'[e] = held[e]
<1> DEFINE Stays == /\ phase[e] \notin {"idle", "peek"} => phase'[e] \notin {"idle", "peek"}
                    /\ held'[e] = held[e] /\ wrote'[e] = wrote[e]
                    /\ phase'[e] \in {"verify", "write", "sign"} =>
                            phase[e] \in {"verify", "write", "sign"}
<1> USE DEF TypeOK, history
<1>1. ASSUME NEW c \in Calls, Call(c) PROVE Stays
  <2>1. phase[c] = "idle" /\ phase'[c] \in {"sweep", "peek", "toggle"} /\ UNCHANGED <<held, wrote>>
        /\ \A d \in Calls : d # c => phase'[d] = phase[d]
    BY <1>1 DEF Call, Goto, Functions
  <2> QED
    BY <2>1
<1>2. ASSUME NEW c \in Calls, Step1(c) PROVE Stays
  BY <1>2 DEF Step1, SweepEnrollments, SweepGates, CheckEnrollment, ListDisks, NewPfxAnswered,
              GenerateKey, Insert, GoOn, Goto, Return
<1>3. ASSUME NEW c \in Calls, Verify(c) \/ Sign(c) \/ RemoveEnrollment(c) PROVE Stays
  BY <1>3 DEF Verify, Sign, RemoveEnrollment, GoOn, Goto, Return
<1>4. ASSUME NEW c \in Calls, WriteKey(c) \/ Peek(c), e # c PROVE Stays
  BY <1>4 DEF WriteKey, Peek, GoOn, Goto, Return
<1>5. ASSUME WriteKey(e)
      PROVE  phase[e] = "write" /\ phase'[e] = "sign" /\ held'[e] = held[e] /\ wrote'[e] = held[e]
  BY <1>5 DEF WriteKey, GoOn, Goto
<1>6. ASSUME Peek(e)
      PROVE  \/ Stays
             \/ /\ phase[e] = "peek" /\ phase'[e] = "verify" /\ wrote'[e] = wrote[e]
                /\ Pending(Attempt(e)) /\ held'[e] = enrollments[Attempt(e)].key
  BY <1>6 DEF Peek, Goto, Return
<1>7. ASSUME NEW c \in Calls, Seed(c) PROVE Stays
  BY <1>7 DEF Seed, CheckToggle, CheckConsent, SeedAnswered, GoOn, Goto, Return
<1>8. ASSUME NEW c \in Calls, GateFor(c) \/ Lock(c) \/ Fails(c) PROVE Stays
  BY <1>8 DEF GateFor, Lock, Fails, Goto, Return
<1>9. ASSUME (\E a \in Attempts : Expire(a)) \/ SweepTimer \/ SetAskBefore \/ UNCHANGED vars PROVE Stays
  BY <1>9 DEF Expire, SweepTimer, SetAskBefore, vars
<1> HIDE DEF TypeOK, history
<1>10. ASSUME NEW c \in Calls, Step2(c) PROVE Stays \/ WriteKey(e) \/ Peek(e)
  BY <1>3, <1>4, <1>10 DEF Step2
<1>11. Stays \/ WriteKey(e) \/ Peek(e)
  BY <1>1, <1>2, <1>7, <1>8, <1>9, <1>10 DEF Next, CallStep
<1> QED
  BY <1>5, <1>6, <1>11 DEF Stays

LEMMA EnrollmentStep ==
    TypeOK /\ CallInv /\ EnrollmentInv /\ [Next]_vars => EnrollmentInv'
<1> SUFFICES ASSUME TypeOK, CallInv, EnrollmentInv, [Next]_vars PROVE EnrollmentInv'
  OBVIOUS
<1> DEFINE Id(a) == [site |-> a[1], guid |-> a[2]]
<1>1. ASSUME NEW a \in Attempts, Pending(a)' PROVE BegunBy(enrollments[a].key, Id(a))'
  <2>1. CASE Pending(a) /\ enrollments'[a].key = enrollments[a].key
    <3>1. BegunBy(enrollments[a].key, Id(a))
      BY <2>1 DEF EnrollmentInv
    <3>2. \A k, r : BegunBy(k, r) => BegunBy(k, r)'
      BY BegunStands
    <3>3. BegunBy(enrollments'[a].key, Id(a))
      BY <2>1, <3>1
    <3> QED
      BY <3>3, BegunStands DEF BegunBy
  <2>2. ASSUME NEW c \in Calls, Insert(c), a = Attempt(c) PROVE BegunBy(enrollments[a].key, Id(a))'
    <3>1. /\ phase[c] = "insert" /\ phase'[c] = "done" /\ reply'[c] = "ok"
          /\ enrollments'[a] = [key |-> c, expired |-> FALSE] /\ request'[c] = request[c]
      BY <2>2 DEF Insert, Return, Goto, TypeOK
    <3>2. request[c] \in Requested /\ request[c].fn = "step1" /\ a = <<request[c].site, request[c].guid>>
      BY <2>2, <3>1 DEF CallInv, Attempt, EnrollmentKey
    <3>3. request[c] = [fn |-> "step1", site |-> a[1], guid |-> a[2]]
      BY <3>2 DEF Requested
    <3> QED
      BY <3>1, <3>3 DEF BegunBy
  <2> QED
    BY <1>1, <2>1, <2>2, EnrollmentsGo
<1>2. ASSUME NEW e \in Calls
      PROVE  /\ phase'[e] \in {"verify", "write", "sign"} => held'[e] # NoCall
             /\ held'[e] # NoCall => phase'[e] \notin {"idle", "peek"} /\ BegunBy(held[e], request[e])'
             /\ wrote'[e] # NoCall => wrote'[e] = held'[e]
  <2>1. phase[e] # "idle" => request'[e] = request[e]
    BY RequestsStand
  <2>2. ASSUME held'[e] = held[e], held[e] # NoCall PROVE BegunBy(held[e], request[e])'
    <3>1. BegunBy(held[e], request[e]) /\ phase[e] # "idle"
      BY <2>2 DEF EnrollmentInv
    <3>2. BegunBy(held'[e], request'[e])
      BY <2>1, <2>2, <3>1
    <3> QED
      BY <3>2, DoneStands DEF BegunBy
  <2>3. ASSUME phase[e] = "peek", Pending(Attempt(e)), held'[e] = enrollments[Attempt(e)].key
        PROVE  held'[e] # NoCall /\ BegunBy(held[e], request[e])'
    <3>1. /\ Attempt(e) \in Attempts /\ request[e] \in Requested
          /\ Attempt(e) = <<request[e].site, request[e].guid>>
      BY <2>3, TurnstileType DEF Attempt, EnrollmentKey
    <3>2. BegunBy(held'[e], Id(Attempt(e)))
      BY <2>3, <3>1 DEF EnrollmentInv
    <3>3. BegunBy(held'[e], request[e])
      BY <3>1, <3>2 DEF BegunBy
    <3> QED
      BY <2>1, <2>3, <3>3, DoneStands, RequestsAssumption DEF BegunBy
  <2> QED
    BY <2>2, <2>3, HeldGoes DEF EnrollmentInv
<1> QED
  BY <1>1, <1>2 DEF EnrollmentInv

-----------------------------------------------------------------------------

\* Ends of panels are only added, and what is put on record one of them backs.
LEMMA AnswersGo ==
    ASSUME TypeOK, [Next]_vars, NEW s \in Sites
    PROVE  /\ answers[s] \subseteq answers'[s]
           /\ consents'[s] \in {consents[s]} \cup Backed(answers'[s])
<1> USE DEF TypeOK, siteVars, history
<1>1. ASSUME UNCHANGED <<consents, answers>>
      PROVE  answers[s] \subseteq answers'[s] /\ consents'[s] \in {consents[s]} \cup Backed(answers'[s])
  BY <1>1
<1>2. ASSUME NEW c \in Calls, Call(c) \/ GateFor(c) \/ Lock(c) \/ Fails(c)
      PROVE  UNCHANGED <<consents, answers>>
  BY <1>2 DEF Call, GateFor, Lock, Fails
<1>3. ASSUME NEW c \in Calls, Step1(c) PROVE UNCHANGED <<consents, answers>>
  BY <1>3 DEF Step1, SweepEnrollments, SweepGates, CheckEnrollment, ListDisks, NewPfxAnswered, GenerateKey,
              Insert
<1>4. ASSUME NEW c \in Calls, Step2(c) PROVE UNCHANGED <<consents, answers>>
  BY <1>4 DEF Step2, Peek, Verify, WriteKey, Sign, RemoveEnrollment
<1>5. ASSUME NEW c \in Calls, CheckToggle(c) \/ CheckConsent(c) PROVE UNCHANGED <<consents, answers>>
  BY <1>5 DEF CheckToggle, CheckConsent
<1>6. ASSUME NEW c \in Calls, SeedAnswered(c)
      PROVE  answers[s] \subseteq answers'[s] /\ consents'[s] \in {consents[s]} \cup Backed(answers'[s])
  <2>1. PICK outcome \in {"allow", "deny", "closed", "err"} :
            /\ consents' = [consents EXCEPT ![request[c].site] = IF Record(outcome) = "none"
                                                                 THEN @ ELSE Record(outcome)]
            /\ answers' = [answers EXCEPT ![request[c].site] = @ \cup ({outcome} \ {"err"})]
    BY <1>6 DEF SeedAnswered
  <2> QED
    BY <2>1 DEF Record, Backed
<1>7. ASSUME SweepTimer
      PROVE  answers[s] \subseteq answers'[s] /\ consents'[s] \in {consents[s]} \cup Backed(answers'[s])
  BY <1>7 DEF SweepTimer, Backed
<1>8. ASSUME (\E a \in Attempts : Expire(a)) \/ SetAskBefore \/ UNCHANGED vars
      PROVE  UNCHANGED <<consents, answers>>
  BY <1>8 DEF Expire, SetAskBefore, vars
<1> QED
  BY <1>1, <1>2, <1>3, <1>4, <1>5, <1>6, <1>7, <1>8 DEF Next, CallStep, Seed

\* A site is given numbers where its consent is on record or just given.
LEMMA SeedGoes ==
    ASSUME TypeOK, CallInv, ConsentInv, [Next]_vars, NEW e \in Calls,
           phase[e] # "done", phase[e] # "idle", request[e].fn = "seed", reply'[e] = "ok"
    PROVE  "allow" \in answers'[request[e].site]
<1>1. request[e].site \in Sites /\ reply[e] # "ok"
  BY EnrollmentTypes DEF CallInv
<1> DEFINE Same == reply'[e] = reply[e]
<1>2. ASSUME NEW c \in Calls, Call(c) \/ GateFor(c) \/ Lock(c) PROVE Same
  BY <1>2 DEF Call, GateFor, Lock
<1>3. ASSUME NEW c \in Calls, Fails(c) PROVE Same \/ reply'[e] = "failed"
  BY <1>3 DEF Fails, Return, TypeOK
<1>4. ASSUME NEW c \in Calls, Step1(c) PROVE Same \/ reply'[e] = "exists"
  BY <1>4 DEF Step1, SweepEnrollments, SweepGates, CheckEnrollment, ListDisks, NewPfxAnswered, GenerateKey,
              Insert, Return, GoOn, CallInv, TypeOK
<1>5. ASSUME NEW c \in Calls, Step2(c) PROVE Same \/ reply'[e] = "notFound"
  BY <1>5 DEF Step2, Peek, Verify, WriteKey, Sign, RemoveEnrollment, Return, GoOn, CallInv, TypeOK
<1>6. ASSUME NEW c \in Calls, CheckToggle(c) PROVE Same \/ reply'[e] = "okUnasked"
  BY <1>6 DEF CheckToggle, Return, GoOn, TypeOK
<1>7. ASSUME NEW c \in Calls, CheckConsent(c)
      PROVE  \/ Same \/ reply'[e] = "denied"
             \/ consents[request[e].site] = "allow"
  BY <1>7 DEF CheckConsent, AsRecorded, Return, GoOn, TypeOK
<1>8. ASSUME NEW c \in Calls, SeedAnswered(c)
      PROVE  Same \/ reply'[e] = "denied" \/ "allow" \in answers'[request[e].site]
  BY <1>1, <1>8 DEF SeedAnswered, Return, TypeOK
<1>9. ASSUME (\E a \in Attempts : Expire(a)) \/ SweepTimer \/ SetAskBefore \/ UNCHANGED vars PROVE Same
  BY <1>9 DEF Expire, SweepTimer, SetAskBefore, vars
<1>10. consents[request[e].site] = "allow" => "allow" \in answers'[request[e].site]
  BY <1>1, AnswersGo DEF ConsentInv, Backed
<1> QED
  BY <1>1, <1>2, <1>3, <1>4, <1>5, <1>6, <1>7, <1>8, <1>9, <1>10 DEF Next, CallStep, Seed

\* A call that is only now made has no reply yet.
LEMMA NewCallIsUnanswered ==
    ASSUME TypeOK, CallInv, [Next]_vars, NEW e \in Calls, phase[e] = "idle"
    PROVE  reply'[e] = reply[e]
<1> USE DEF TypeOK
<1>1. ASSUME NEW c \in Calls, Call(c) \/ GateFor(c) \/ Lock(c) PROVE reply' = reply
  BY <1>1 DEF Call, GateFor, Lock
<1>2. ASSUME NEW c \in Calls, e # c, NEW r, Return(c, r) PROVE reply'[e] = reply[e]
  BY <1>2 DEF Return
<1>3. ASSUME NEW c \in Calls, Step1(c) PROVE reply'[e] = reply[e]
  BY <1>2, <1>3 DEF Step1, SweepEnrollments, SweepGates, CheckEnrollment, ListDisks, NewPfxAnswered,
                    GenerateKey, Insert, GoOn
<1>4. ASSUME NEW c \in Calls, Step2(c) PROVE reply'[e] = reply[e]
  BY <1>2, <1>4 DEF Step2, Peek, Verify, WriteKey, Sign, RemoveEnrollment, GoOn
<1>5. ASSUME NEW c \in Calls, CheckToggle(c) \/ CheckConsent(c) \/ Fails(c) PROVE reply'[e] = reply[e]
  BY <1>2, <1>5 DEF CheckToggle, CheckConsent, Fails, GoOn
<1>6. ASSUME NEW c \in Calls, SeedAnswered(c) PROVE reply'[e] = reply[e]
  <2>1. phase[c] = "dialog" /\ \E r : Return(c, r)
    BY <1>6 DEF SeedAnswered
  <2> QED
    BY <1>2, <2>1
<1>7. ASSUME (\E a \in Attempts : Expire(a)) \/ SweepTimer \/ SetAskBefore \/ UNCHANGED vars
      PROVE  reply' = reply
  BY <1>7 DEF Expire, SweepTimer, SetAskBefore, vars
<1> QED
  BY <1>1, <1>3, <1>4, <1>5, <1>6, <1>7 DEF Next, CallStep, Seed

LEMMA ConsentStep == TypeOK /\ CallInv /\ ConsentInv /\ [Next]_vars => ConsentInv'
<1> SUFFICES ASSUME TypeOK, CallInv, ConsentInv, [Next]_vars PROVE ConsentInv'
  OBVIOUS
<1>1. ASSUME NEW s \in Sites PROVE consents'[s] \in Backed(answers'[s])
  BY <1>1, AnswersGo DEF ConsentInv, Backed
<1>2. ASSUME NEW e \in Calls, request'[e].fn = "seed", reply'[e] = "ok"
      PROVE  "allow" \in answers'[request'[e].site]
  <2>1. CASE phase[e] = "idle"
    <3>1. reply[e] = "none" /\ phase[e] # "done"
      BY <2>1 DEF CallInv
    <3> QED
      BY <1>2, <2>1, <3>1, NewCallIsUnanswered
  <2>2. CASE phase[e] = "done"
    <3>1. request'[e] = request[e] /\ reply'[e] = reply[e] /\ request[e].site \in Sites
      BY <2>2, DoneStands, EnrollmentTypes DEF CallInv
    <3>2. "allow" \in answers[request[e].site]
      BY <1>2, <3>1 DEF ConsentInv
    <3> QED
      BY <3>1, <3>2, AnswersGo
  <2>3. CASE phase[e] \notin {"idle", "done"}
    <3>1. request'[e] = request[e]
      BY <2>3, RequestsStand
    <3> QED
      BY <1>2, <2>3, <3>1, SeedGoes
  <2> QED
    BY <2>1, <2>2, <2>3
<1> QED
  BY <1>1, <1>2 DEF ConsentInv

-----------------------------------------------------------------------------

\* All of this holds in every reachable state, with any number of calls and
\* sites, whatever the limits and whenever the sweeps and the setting come.
THEOREM RequestsInvariant == Spec => []RequestsInv
<1>1. RequestsInv /\ [Next]_vars => RequestsInv'
  BY TypeStep, CallStepInv, TurnStep, UndecidedStep, EnrollmentStep, ConsentStep DEF RequestsInv
<1> QED
  BY <1>1, RequestsInit, PTL DEF Spec

\* The dispatcher's state stays well formed.
THEOREM TypeCorrect == Spec => []TypeOK
<1>1. RequestsInv => TypeOK
  BY DEF RequestsInv
<1> QED
  BY <1>1, RequestsInvariant, PTL

\* No step one replaces an enrollment another began for the same site and
\* identifier (enroll_pfx_step1's second look, behind its turnstile): the key
\* pair whose request a page was given is the one step two finds.
THEOREM NotReplaced == Spec => EnrollmentsAreNotReplaced
<1>1. RequestsInv /\ [Next]_vars =>
          [\A a \in Attempts : Pending(a) /\ Pending(a)' => enrollments'[a].key = enrollments[a].key]_vars
  <2> SUFFICES ASSUME RequestsInv, [Next]_vars, NEW a \in Attempts, Pending(a), Pending(a)'
               PROVE  enrollments'[a].key = enrollments[a].key
    OBVIOUS
  <2>1. ASSUME NEW c \in Calls, Insert(c) PROVE a # Attempt(c)
    BY <2>1 DEF Insert, RequestsInv, CallInv, UndecidedInv, StillUnstarted
  <2> QED
    BY <2>1, EnrollmentsGo DEF RequestsInv
<1> QED
  BY <1>1, RequestsInvariant, PTL DEF Spec, EnrollmentsAreNotReplaced

\* Step two writes only a key pair that a step one of its own site and
\* identifier generated, and whose reply was a success (enrollment_key).
THEOREM FinishedByItsOwn == Spec => []FinishedByItsOwnSite
<1>1. RequestsInv => FinishedByItsOwnSite
  <2> SUFFICES ASSUME RequestsInv, NEW c \in Calls, wrote[c] # NoCall
               PROVE  /\ request[wrote[c]] = [request[c] EXCEPT !.fn = "step1"]
                      /\ reply[wrote[c]] = "ok"
    BY DEF FinishedByItsOwnSite
  <2>1. BegunBy(wrote[c], request[c]) /\ request[c] \in Requested
    BY DEF RequestsInv, EnrollmentInv, CallInv
  <2>2. [request[c] EXCEPT !.fn = "step1"] = [fn |-> "step1", site |-> request[c].site, guid |-> request[c].guid]
    BY <2>1 DEF Requested
  <2> QED
    BY <2>1, <2>2 DEF BegunBy
<1> QED
  BY <1>1, RequestsInvariant, PTL

\* A site gets random numbers only by the answer the person gave about it or
\* with asking off, is refused for good only after a panel about it that they
\* refused or closed, and is not asked about while it is on record
\* (randseed.get): never through a dialog that timed out or another site's.
THEOREM SeedsAreAllowed == Spec => []SeedsGoToAllowedSites
<1>1. RequestsInv => SeedsGoToAllowedSites
  BY DEF RequestsInv, ConsentInv, Backed, UndecidedInv, StillUnasked, SeedsGoToAllowedSites, TypeOK
<1> QED
  BY <1>1, RequestsInvariant, PTL
==============================================================================
