-------------------------- MODULE OriginGateProofs --------------------------
(***************************************************************************)
(* Theorems about OriginGate for any calls, origins and domains, any       *)
(* MaxGates and any number of forgets and restarts: type correctness, that *)
(* at most one call per domain is past its turnstile, that nothing is      *)
(* asked twice or recorded unasked, and that the store and memory agree.   *)
(* They rest on one invariant of the turnstiles, that a call that holds an *)
(* Arc holds the one its domain has in the map, which is what the pruning  *)
(* of gate_for must not break, and one of the store: it differs from       *)
(* memory by exactly what is on its way into it or out of it.              *)
(***************************************************************************)
EXTENDS OriginGate, TLAPS

\* TypeOK without the history variables, in two parts: the calls with their
\* turnstiles, and what is kept about sites.
CallType ==
    /\ phase \in [Calls -> Phases]
    /\ origin \in [Calls -> Origins \cup {NullOrigin}]
    /\ developerMode \in [Calls -> BOOLEAN]
    /\ answer \in [Calls -> Answers \cup {"none"}]
    /\ reply \in [Calls -> {"none", "Allow", "Deny", "NoHeader", "Registered"}]
    /\ gates \in [Domains -> Gates \cup {NoCall}]
    /\ gate \in [Calls -> Gates \cup {NoCall}]
    /\ owner \in [Gates -> Calls \cup {NoCall}]

SiteType ==
    /\ verified \subseteq Domains
    /\ decisions \in [Origins -> Recorded \cup {"none"}]
    /\ cooling \subseteq Domains
    /\ \/ forget = NoForget
       \/ forget \in [step : {"decisions"}, domain : Domains]
       \/ forget \in [step : {"store"}, domain : Domains, removed : SUBSET Origins]
    /\ file \in [keys : SUBSET Domains, allowed : SUBSET Origins]
    /\ forgets \in 0 .. MaxForgets
    /\ restarts \in 0 .. MaxRestarts

\* The phases of a call that has passed its turnstile.
Behind == {"recheckKey", "recheckDecision", "cooldown", "lookup", "failing",
           "asking", "answered", "savingAllowed"}

\* A call being decided knows its origin.
OriginInv ==
    \A c \in Calls : phase[c] \notin {"idle", "done"} => origin[c] \in Origins

\* A turnstile a call holds is the one in the map for the call's domain.
HeldIsInMap ==
    \A c \in Calls : gate[c] # NoCall =>
        /\ phase[c] \notin {"idle", "done"}
        /\ gates[Site(c)] = gate[c]

\* A call that waits at a turnstile holds it, and one past it owns it.
BehindIsInside ==
    \A c \in Calls :
        /\ phase[c] = "queued" => gate[c] # NoCall
        /\ phase[c] \in Behind => Inside(c)

TurnInv == OriginInv /\ HeldIsInMap /\ BehindIsInside

\* What a call found behind its turnstile still stands.
StillUndecided ==
    \A c \in Calls :
        phase[c] \in {"cooldown", "lookup", "failing", "asking", "answered"} =>
            decisions[origin[c]] = "none"

StillNotCooling ==
    \A c \in Calls : phase[c] = "lookup" => Site(c) \notin cooling

UndecidedInv == StillUndecided /\ StillNotCooling

HistoryType ==
    /\ given \in [Origins -> SUBSET (Answers \cup {"none"})]
    /\ overlapped \in BOOLEAN

\* Where an answer is on its way to the record, the person has given it.
AnswerGiven ==
    \A c \in Calls :
        /\ phase[c] = "answered" => answer[c] \in given[origin[c]] \cup {"Err"}
        /\ phase[c] = "savingAllowed" => "AllowAlways" \in given[origin[c]]

StoredGiven == \A o \in file.allowed : "AllowAlways" \in given[o]

HistoryInv == HistoryType /\ AnswerGiven /\ StoredGiven /\ RecordsComeFromThePerson

\* What calls on their way to the store have put in memory already.
UnsavedKeys == {Site(c) : c \in {d \in Calls : phase[d] = "savingKey"}}

UnsavedAllowed == {origin[c] : c \in {d \in Calls : phase[d] = "savingAllowed"}}

\* What a forget_site under way has taken from memory and not yet from the store.
UnforgottenKeys == IF forget = NoForget THEN {} ELSE {forget.domain}

UnforgottenAllowed == IF forget.step = "store" THEN forget.removed ELSE {}

\* As long as no forget_site overlaps a save, memory is the file less what is
\* still to be forgotten and with what is still to be saved.
StoreInv ==
    ~overlapped =>
        /\ Saving = {} \/ forget = NoForget
        /\ verified = (file.keys \ UnforgottenKeys) \cup UnsavedKeys
        /\ AlwaysAllowed = (file.allowed \ UnforgottenAllowed) \cup UnsavedAllowed

GateInv ==
    CallType /\ SiteType /\ TurnInv /\ UndecidedInv /\ HistoryInv /\ StoreInv

-----------------------------------------------------------------------------

LEMMA TypeInit == Init => CallType /\ SiteType
BY GateAssumption
   DEF Init, CallType, SiteType, EmptyFile, NoForget, Phases, Answers, Gates,
       Recorded

\* A call that returns keeps the type of the calls and their turnstiles.
LEMMA ReturnType ==
    ASSUME CallType, NEW c \in Calls,
           NEW d \in {"Allow", "Deny", "NoHeader", "Registered"}, Return(c, d)
    PROVE  CallType'
BY GateAssumption DEF CallType, Return, Goto, Phases, Answers, Gates

\* Every step keeps the type of the calls and their turnstiles.
LEMMA CallTypeStep ==
    ASSUME CallType, SiteType, OriginInv, Step \/ Restart PROVE CallType'
<1> USE CallType, SiteType, OriginInv, GateAssumption
<1> USE DEF Gates, Goto, Site
<1>1. ASSUME NEW c \in Calls, StartNoHeader(c)
     PROVE  CallType'
  BY <1>1, ReturnType DEF StartNoHeader
<1>2. ASSUME NEW c \in Calls, CheckKey(c)
     PROVE  CallType'
  <2>1. CASE Return(c, "Allow")
    BY <2>1, ReturnType
  <2>2. CASE ~Return(c, "Allow")
    BY <1>2, <2>2 DEF CallType, Phases, Answers, CheckKey, gateVars
  <2> QED BY <2>1, <2>2
<1>3. ASSUME NEW c \in Calls, CheckDecision(c)
     PROVE  CallType'
  <2>1. CASE Return(c, Decision(origin[c]))
    BY <2>1, ReturnType DEF Decision
  <2>2. CASE ~Return(c, Decision(origin[c]))
    BY <1>3, <2>2 DEF CallType, Phases, Answers, CheckDecision, gateVars
  <2> QED BY <2>1, <2>2
<1>4. ASSUME NEW c \in Calls, GateFor(c)
     PROVE  CallType'
  BY <1>4 DEF CallType, Phases, Answers, GateFor, Kept, InMap, gateVars
<1>5. ASSUME NEW c \in Calls, Lock(c)
     PROVE  CallType'
  BY <1>5 DEF CallType, Phases, Answers, Lock, gateVars
<1>6. ASSUME NEW c \in Calls, Cooldown(c)
     PROVE  CallType'
  <2>1. CASE Return(c, "Deny")
    BY <2>1, ReturnType
  <2>2. CASE ~Return(c, "Deny")
    BY <1>6, <2>2 DEF CallType, Phases, Answers, Cooldown, Unverified, gateVars
  <2> QED BY <2>1, <2>2
<1>7. ASSUME NEW c \in Calls, Lookup(c)
     PROVE  CallType'
  BY <1>7 DEF CallType, Phases, Answers, Lookup, gateVars
<1>8. ASSUME NEW c \in Calls, RecordFailure(c)
     PROVE  CallType'
  <2>1. CASE Return(c, "Deny")
    BY <2>1, ReturnType
  <2>2. CASE ~Return(c, "Deny")
    BY <1>8, <2>2
       DEF CallType, Phases, Answers, RecordFailure, Unverified, gateVars
  <2> QED BY <2>1, <2>2
<1>9. ASSUME NEW c \in Calls, Settle(c)
     PROVE  CallType'
  <2>1. CASE (Return(c, "Allow") \/ Return(c, "Deny"))
    BY <2>1, ReturnType
  <2>2. CASE ~(Return(c, "Allow") \/ Return(c, "Deny"))
    BY <1>9, <2>2 DEF CallType, Phases, Answers, Settle, gateVars
  <2> QED BY <2>1, <2>2
<1>10. ASSUME NEW c \in Calls, SaveAllowed(c)
     PROVE  CallType'
  BY <1>10, ReturnType DEF SaveAllowed
<1>11. ASSUME NEW c \in Calls, SaveKey(c)
     PROVE  CallType'
  BY <1>11, ReturnType DEF SaveKey
<1>12. ASSUME NEW c \in Calls, NEW o \in Origins, NEW devMode \in BOOLEAN,
            Start(c, o, devMode)
     PROVE  CallType'
  BY <1>12 DEF CallType, Phases, Answers, Start, gateVars
<1>13. ASSUME NEW c \in Calls, NEW o \in Origins, Register(c, o)
     PROVE  CallType'
  BY <1>13 DEF CallType, Phases, Answers, Register, gateVars
<1>14. ASSUME NEW c \in Calls, NEW result \in Answers, DialogEnds(c, result)
     PROVE  CallType'
  BY <1>14 DEF CallType, Phases, Answers, DialogEnds, gateVars
<1>15. ASSUME NEW d \in Domains, ForgetKey(d)
     PROVE  CallType'
  BY <1>15 DEF CallType, Phases, Answers, ForgetKey, callVars, gateVars
<1>16. ASSUME NEW d \in Domains, CooldownEnds(d)
     PROVE  CallType'
  BY <1>16 DEF CallType, Phases, Answers, CooldownEnds, callVars, gateVars
<1>17. ASSUME ForgetDecisions
     PROVE  CallType'
  BY <1>17 DEF CallType, Phases, Answers, ForgetDecisions, callVars, gateVars
<1>18. ASSUME ForgetStored
     PROVE  CallType'
  BY <1>18 DEF CallType, Phases, Answers, ForgetStored, callVars, gateVars
<1>19. ASSUME NEW contents \in
                [keys : SUBSET Domains, allowed : SUBSET Origins],
            RestartFrom(contents)
     PROVE  CallType'
  BY <1>19 DEF CallType, Phases, Answers, RestartFrom, gateVars
<1>20. /\ file \in [keys : SUBSET Domains, allowed : SUBSET Origins]
       /\ EmptyFile \in [keys : SUBSET Domains, allowed : SUBSET Origins]
  BY DEF SiteType, EmptyFile
<1> QED
  BY <1>1, <1>2, <1>3, <1>4, <1>5, <1>6, <1>7, <1>8, <1>9, <1>10, <1>11,
     <1>12, <1>13, <1>14, <1>15, <1>16, <1>17, <1>18, <1>19, <1>20
  DEF Step, CallStep, Restart

\* Every step keeps the type of what is kept about sites.
LEMMA SiteTypeStep ==
    ASSUME CallType, SiteType, OriginInv, Step \/ Restart PROVE SiteType'
<1> USE CallType, SiteType, OriginInv, GateAssumption
<1> USE DEF Site, Recorded, NoForget, siteVars
<1>1. ASSUME NEW c \in Calls, StartNoHeader(c)
     PROVE  SiteType'
  BY <1>1 DEF SiteType, StartNoHeader
<1>2. ASSUME NEW c \in Calls, CheckKey(c)
     PROVE  SiteType'
  BY <1>2 DEF SiteType, CheckKey
<1>3. ASSUME NEW c \in Calls, CheckDecision(c)
     PROVE  SiteType'
  BY <1>3 DEF SiteType, CheckDecision
<1>4. ASSUME NEW c \in Calls, GateFor(c)
     PROVE  SiteType'
  BY <1>4 DEF SiteType, GateFor
<1>5. ASSUME NEW c \in Calls, Lock(c)
     PROVE  SiteType'
  BY <1>5 DEF SiteType, Lock
<1>6. ASSUME NEW c \in Calls, Cooldown(c)
     PROVE  SiteType'
  BY <1>6 DEF SiteType, Cooldown
<1>7. ASSUME NEW c \in Calls, Lookup(c)
     PROVE  SiteType'
  BY <1>7 DEF SiteType, Lookup, OriginInv, CallType
<1>8. ASSUME NEW c \in Calls, RecordFailure(c)
     PROVE  SiteType'
  BY <1>8 DEF SiteType, RecordFailure, OriginInv, CallType
<1>9. ASSUME NEW c \in Calls, Settle(c)
     PROVE  SiteType'
  BY <1>9 DEF SiteType, Settle, Record, Outcome, Answers, CallType
<1>10. ASSUME NEW c \in Calls, SaveAllowed(c)
     PROVE  SiteType'
  BY <1>10 DEF SiteType, SaveAllowed, OriginInv, CallType
<1>11. ASSUME NEW c \in Calls, SaveKey(c)
     PROVE  SiteType'
  BY <1>11 DEF SiteType, SaveKey, OriginInv, CallType
<1>12. ASSUME NEW c \in Calls, NEW o \in Origins, NEW devMode \in BOOLEAN,
            Start(c, o, devMode)
     PROVE  SiteType'
  BY <1>12 DEF SiteType, Start
<1>13. ASSUME NEW c \in Calls, NEW o \in Origins, Register(c, o)
     PROVE  SiteType'
  BY <1>13 DEF SiteType, Register
<1>14. ASSUME NEW c \in Calls, NEW result \in Answers, DialogEnds(c, result)
     PROVE  SiteType'
  BY <1>14 DEF SiteType, DialogEnds
<1>15. ASSUME NEW d \in Domains, ForgetKey(d)
     PROVE  SiteType'
  BY <1>15 DEF SiteType, ForgetKey
<1>16. ASSUME NEW d \in Domains, CooldownEnds(d)
     PROVE  SiteType'
  BY <1>16 DEF SiteType, CooldownEnds
<1>17. ASSUME ForgetDecisions
     PROVE  SiteType'
  BY <1>17 DEF SiteType, ForgetDecisions
<1>18. ASSUME ForgetStored
     PROVE  SiteType'
  BY <1>18 DEF SiteType, ForgetStored
<1>19. ASSUME NEW contents \in
                [keys : SUBSET Domains, allowed : SUBSET Origins],
            RestartFrom(contents)
     PROVE  SiteType'
  BY <1>19 DEF SiteType, RestartFrom
<1>20. /\ file \in [keys : SUBSET Domains, allowed : SUBSET Origins]
       /\ EmptyFile \in [keys : SUBSET Domains, allowed : SUBSET Origins]
  BY DEF SiteType, EmptyFile
<1> QED
  BY <1>1, <1>2, <1>3, <1>4, <1>5, <1>6, <1>7, <1>8, <1>9, <1>10, <1>11,
     <1>12, <1>13, <1>14, <1>15, <1>16, <1>17, <1>18, <1>19, <1>20
  DEF Step, CallStep, Restart

-----------------------------------------------------------------------------

LEMMA TurnInit == Init => TurnInv
BY GateAssumption DEF Init, TurnInv, OriginInv, HeldIsInMap, BehindIsInside, Behind

\* A call that returns leaves the turnstiles of the others as they are.
LEMMA ReturnTurn ==
    ASSUME CallType, TurnInv, NEW c \in Calls, NEW d, Return(c, d)
    PROVE  TurnInv'
BY GateAssumption
   DEF CallType, TurnInv, OriginInv, HeldIsInMap, BehindIsInside, Behind,
       Inside,
       Site, Return, Goto, Gates, Phases

\* Every step keeps the turnstiles in order.
LEMMA TurnStep ==
    ASSUME CallType, SiteType, TurnInv, Step \/ Restart PROVE TurnInv'
<1> USE CallType, TurnInv, GateAssumption
<1> USE DEF Gates, Goto, Site, Inside
<1>1. ASSUME NEW c \in Calls, StartNoHeader(c)
     PROVE  TurnInv'
  BY <1>1, ReturnTurn DEF StartNoHeader
<1>2. ASSUME NEW c \in Calls, CheckKey(c)
     PROVE  TurnInv'
  <2>1. CASE Return(c, "Allow")
    BY <2>1, ReturnTurn
  <2>2. CASE ~Return(c, "Allow")
    BY <1>2, <2>2
       DEF CallType, TurnInv, OriginInv, HeldIsInMap, BehindIsInside, Behind,
           Phases, CheckKey, gateVars
  <2> QED BY <2>1, <2>2
<1>3. ASSUME NEW c \in Calls, CheckDecision(c)
     PROVE  TurnInv'
  <2>1. CASE Return(c, Decision(origin[c]))
    BY <2>1, ReturnTurn DEF Decision
  <2>2. CASE ~Return(c, Decision(origin[c]))
    BY <1>3, <2>2
       DEF CallType, TurnInv, OriginInv, HeldIsInMap, BehindIsInside, Behind,
           Phases, CheckDecision, gateVars
  <2> QED BY <2>1, <2>2
<1>4. ASSUME NEW c \in Calls, GateFor(c)
     PROVE  TurnInv'
  <2>1. /\ phase[c] = "gateFor" /\ phase' = [phase EXCEPT ![c] = "queued"]
        /\ gate' = [gate EXCEPT ![c] = IF Site(c) \in InMap THEN gates[Site(c)] ELSE c]
        /\ origin' = origin /\ owner' = owner
    BY <1>4 DEF GateFor
  <2>2. gates'[Site(c)] = gate'[c] /\ gate'[c] # NoCall
    BY <1>4, <2>1 DEF GateFor, InMap, CallType, TurnInv, OriginInv
  \* What pruning drops is held by nobody.
  <2>3. ASSUME NEW e \in Calls, e # c, gate[e] # NoCall
        PROVE  gates'[Site(e)] = gates[Site(e)]
    <3>1. /\ Site(e) \in Domains /\ Site(c) \in Domains
          /\ gates[Site(e)] = gate[e]
      BY <1>4, <2>3 DEF GateFor, TurnInv, HeldIsInMap, OriginInv
    <3>2. Kept(Site(e)) = gates[Site(e)] /\ Site(e) \in InMap
      BY <2>3, <3>1 DEF Kept, InMap
    <3>3. CASE Site(e) = Site(c)
      BY <1>4, <3>1, <3>2, <3>3 DEF GateFor, CallType
    <3>4. CASE Site(e) # Site(c)
      BY <1>4, <3>1, <3>2, <3>4 DEF GateFor, CallType
    <3> QED BY <3>3, <3>4
  <2>4. OriginInv'
    BY <2>1 DEF TurnInv, OriginInv, CallType
  <2>5. HeldIsInMap'
    <3> SUFFICES ASSUME NEW e \in Calls, gate'[e] # NoCall
                 PROVE  /\ phase'[e] \notin {"idle", "done"}
                        /\ gates'[Site(e)] = gate'[e]
      BY <2>1 DEF HeldIsInMap
    <3>1. CASE e = c
      BY <2>1, <2>2, <3>1 DEF CallType
    <3>2. CASE e # c
      BY <2>1, <2>3, <3>2 DEF TurnInv, HeldIsInMap, CallType
    <3> QED BY <3>1, <3>2
  <2>6. BehindIsInside'
    BY <2>1, <2>2 DEF TurnInv, BehindIsInside, Behind, CallType
  <2> QED BY <2>4, <2>5, <2>6 DEF TurnInv
<1>5. ASSUME NEW c \in Calls, Lock(c)
     PROVE  TurnInv'
  BY <1>5
     DEF CallType, TurnInv, OriginInv, HeldIsInMap, BehindIsInside, Behind,
         Phases, Lock, gateVars
<1>6. ASSUME NEW c \in Calls, Cooldown(c)
     PROVE  TurnInv'
  <2>1. CASE Return(c, "Deny")
    BY <2>1, ReturnTurn
  <2>2. CASE ~Return(c, "Deny")
    BY <1>6, <2>2
       DEF CallType, TurnInv, OriginInv, HeldIsInMap, BehindIsInside, Behind,
           Phases, Cooldown, Unverified, gateVars
  <2> QED BY <2>1, <2>2
<1>7. ASSUME NEW c \in Calls, Lookup(c)
     PROVE  TurnInv'
  BY <1>7
     DEF CallType, TurnInv, OriginInv, HeldIsInMap, BehindIsInside, Behind,
         Phases, Lookup, gateVars
<1>8. ASSUME NEW c \in Calls, RecordFailure(c)
     PROVE  TurnInv'
  <2>1. CASE Return(c, "Deny")
    BY <2>1, ReturnTurn
  <2>2. CASE ~Return(c, "Deny")
    BY <1>8, <2>2
       DEF CallType, TurnInv, OriginInv, HeldIsInMap, BehindIsInside, Behind,
           Phases, RecordFailure, Unverified, gateVars
  <2> QED BY <2>1, <2>2
<1>9. ASSUME NEW c \in Calls, Settle(c)
     PROVE  TurnInv'
  <2>1. CASE (Return(c, "Allow") \/ Return(c, "Deny"))
    BY <2>1, ReturnTurn
  <2>2. CASE ~(Return(c, "Allow") \/ Return(c, "Deny"))
    BY <1>9, <2>2
       DEF CallType, TurnInv, OriginInv, HeldIsInMap, BehindIsInside, Behind,
           Phases, Settle, gateVars
  <2> QED BY <2>1, <2>2
<1>10. ASSUME NEW c \in Calls, SaveAllowed(c)
     PROVE  TurnInv'
  BY <1>10, ReturnTurn DEF SaveAllowed
<1>11. ASSUME NEW c \in Calls, SaveKey(c)
     PROVE  TurnInv'
  BY <1>11, ReturnTurn DEF SaveKey
<1>12. ASSUME NEW c \in Calls, NEW o \in Origins, NEW devMode \in BOOLEAN,
            Start(c, o, devMode)
     PROVE  TurnInv'
  BY <1>12
     DEF CallType, TurnInv, OriginInv, HeldIsInMap, BehindIsInside, Behind,
         Phases, Start, gateVars
<1>13. ASSUME NEW c \in Calls, NEW o \in Origins, Register(c, o)
     PROVE  TurnInv'
  BY <1>13
     DEF CallType, TurnInv, OriginInv, HeldIsInMap, BehindIsInside, Behind,
         Phases, Register, gateVars
<1>14. ASSUME NEW c \in Calls, NEW result \in Answers, DialogEnds(c, result)
     PROVE  TurnInv'
  BY <1>14
     DEF CallType, TurnInv, OriginInv, HeldIsInMap, BehindIsInside, Behind,
         Phases, DialogEnds, gateVars
<1>15. ASSUME NEW d \in Domains, ForgetKey(d)
     PROVE  TurnInv'
  BY <1>15
     DEF CallType, TurnInv, OriginInv, HeldIsInMap, BehindIsInside, Behind,
         Phases, ForgetKey, callVars, gateVars
<1>16. ASSUME NEW d \in Domains, CooldownEnds(d)
     PROVE  TurnInv'
  BY <1>16
     DEF CallType, TurnInv, OriginInv, HeldIsInMap, BehindIsInside, Behind,
         Phases, CooldownEnds, callVars, gateVars
<1>17. ASSUME ForgetDecisions
     PROVE  TurnInv'
  BY <1>17
     DEF CallType, TurnInv, OriginInv, HeldIsInMap, BehindIsInside, Behind,
         Phases, ForgetDecisions, callVars, gateVars
<1>18. ASSUME ForgetStored
     PROVE  TurnInv'
  BY <1>18
     DEF CallType, TurnInv, OriginInv, HeldIsInMap, BehindIsInside, Behind,
         Phases, ForgetStored, callVars, gateVars
<1>19. ASSUME NEW contents \in
                [keys : SUBSET Domains, allowed : SUBSET Origins],
            RestartFrom(contents)
     PROVE  TurnInv'
  BY <1>19
     DEF CallType, TurnInv, OriginInv, HeldIsInMap, BehindIsInside, Behind,
         Phases, RestartFrom, gateVars
<1>20. /\ file \in [keys : SUBSET Domains, allowed : SUBSET Origins]
       /\ EmptyFile \in [keys : SUBSET Domains, allowed : SUBSET Origins]
  BY DEF SiteType, EmptyFile
<1> QED
  BY <1>1, <1>2, <1>3, <1>4, <1>5, <1>6, <1>7, <1>8, <1>9, <1>10, <1>11,
     <1>12, <1>13, <1>14, <1>15, <1>16, <1>17, <1>18, <1>19, <1>20
  DEF Step, CallStep, Restart

-----------------------------------------------------------------------------

\* Two calls behind the turnstile of one domain are the same call.
LEMMA OneBehind ==
    ASSUME TurnInv, NEW c \in Calls, NEW d \in Calls, Inside(c), Inside(d),
           Site(c) = Site(d)
    PROVE  c = d
BY DEF TurnInv, HeldIsInMap, Inside

LEMMA UndecidedInit == Init => UndecidedInv
BY DEF Init, UndecidedInv, StillUndecided, StillNotCooling

LEMMA ReturnUndecided ==
    ASSUME CallType, UndecidedInv, NEW c \in Calls, NEW d, Return(c, d),
           UNCHANGED decisions, cooling' \subseteq cooling
    PROVE  UndecidedInv'
BY DEF CallType, UndecidedInv, StillUndecided, StillNotCooling, Site, Return, Goto,
       Phases

\* What a call found when it had passed its turnstile, the others leave alone.
LEMMA UndecidedStep ==
    ASSUME CallType, SiteType, TurnInv, UndecidedInv, Step \/ Restart
    PROVE  UndecidedInv'
<1> USE CallType, SiteType, TurnInv, UndecidedInv, GateAssumption
<1> USE DEF Goto, Site
<1>1. ASSUME NEW c \in Calls, StartNoHeader(c)
     PROVE  UndecidedInv'
  BY <1>1, ReturnUndecided DEF StartNoHeader, siteVars
<1>2. ASSUME NEW c \in Calls, CheckKey(c)
     PROVE  UndecidedInv'
  <2>1. CASE Return(c, "Allow")
    BY <1>2, <2>1, ReturnUndecided DEF CheckKey, siteVars
  <2>2. CASE ~Return(c, "Allow")
    BY <1>2, <2>2
       DEF CallType, UndecidedInv, StillUndecided, StillNotCooling, Phases,
           CheckKey, gateVars, siteVars
  <2> QED BY <2>1, <2>2
<1>3. ASSUME NEW c \in Calls, CheckDecision(c)
     PROVE  UndecidedInv'
  <2>1. CASE Return(c, Decision(origin[c]))
    BY <1>3, <2>1, ReturnUndecided DEF CheckDecision, siteVars
  <2>2. CASE ~Return(c, Decision(origin[c]))
    BY <1>3, <2>2
       DEF CallType, UndecidedInv, StillUndecided, StillNotCooling, Phases,
           CheckDecision, gateVars, siteVars
  <2> QED BY <2>1, <2>2
<1>4. ASSUME NEW c \in Calls, GateFor(c)
     PROVE  UndecidedInv'
  BY <1>4
     DEF CallType, UndecidedInv, StillUndecided, StillNotCooling, Phases,
         GateFor, Kept, InMap, gateVars, siteVars
<1>5. ASSUME NEW c \in Calls, Lock(c)
     PROVE  UndecidedInv'
  BY <1>5
     DEF CallType, UndecidedInv, StillUndecided, StillNotCooling, Phases,
         Lock, gateVars, siteVars
<1>6. ASSUME NEW c \in Calls, Cooldown(c)
     PROVE  UndecidedInv'
  <2>1. CASE Return(c, "Deny")
    BY <1>6, <2>1, ReturnUndecided DEF Cooldown, siteVars
  <2>2. CASE ~Return(c, "Deny")
    BY <1>6, <2>2
       DEF CallType, UndecidedInv, StillUndecided, StillNotCooling, Phases,
           Cooldown, Unverified, gateVars, siteVars
  <2> QED BY <2>1, <2>2
<1>7. ASSUME NEW c \in Calls, Lookup(c)
     PROVE  UndecidedInv'
  BY <1>7
     DEF CallType, UndecidedInv, StillUndecided, StillNotCooling, Phases,
         Lookup, gateVars, siteVars
<1>8. ASSUME NEW c \in Calls, RecordFailure(c)
     PROVE  UndecidedInv'
  <2>1. cooling' = cooling \cup {Site(c)} /\ phase[c] = "failing"
    BY <1>8 DEF RecordFailure
  <2>2. Inside(c) /\ \A e \in Calls : phase[e] = "lookup" => Inside(e)
    BY <2>1 DEF TurnInv, BehindIsInside, Behind
  <2>3. \A e \in Calls : phase[e] = "lookup" => Site(e) # Site(c)
    BY <2>1, <2>2, OneBehind
  <2>4. CASE Return(c, "Deny")
    BY <1>8, <2>1, <2>3, <2>4
       DEF CallType, UndecidedInv, StillUndecided, StillNotCooling, Phases,
           RecordFailure, Return, siteVars
  <2>5. CASE ~Return(c, "Deny")
    BY <1>8, <2>1, <2>3, <2>5
       DEF CallType, UndecidedInv, StillUndecided, StillNotCooling, Phases,
           RecordFailure, Unverified, gateVars, siteVars
  <2> QED BY <2>4, <2>5
<1>9. ASSUME NEW c \in Calls, Settle(c)
     PROVE  UndecidedInv'
  <2>1. phase[c] = "answered"
    BY <1>9 DEF Settle
  <2>2. \A e \in Calls :
          phase[e] \in {"cooldown", "lookup", "failing", "asking", "answered"} =>
              Inside(e)
    BY DEF TurnInv, BehindIsInside, Behind
  <2>3. Inside(c)
    BY <2>1 DEF TurnInv, BehindIsInside, Behind
  <2>4. \A e \in Calls :
          e # c /\ phase[e] \in {"cooldown", "lookup", "failing", "asking", "answered"} =>
              origin[e] # origin[c]
    BY <2>1, <2>2, <2>3, OneBehind
  <2>5. \A e \in Calls : origin[e] # origin[c] => decisions'[origin[e]] = decisions[origin[e]]
    BY <1>9 DEF Settle, Record, SiteType
  <2>6. CASE Return(c, "Allow") \/ Return(c, "Deny")
    BY <1>9, <2>1, <2>4, <2>5, <2>6
       DEF CallType, UndecidedInv, StillUndecided, StillNotCooling, Phases,
           Settle, Return
  <2>7. CASE ~(Return(c, "Allow") \/ Return(c, "Deny"))
    BY <1>9, <2>1, <2>4, <2>5, <2>7
       DEF CallType, UndecidedInv, StillUndecided, StillNotCooling, Phases,
           Settle, gateVars
  <2> QED BY <2>6, <2>7
<1>10. ASSUME NEW c \in Calls, SaveAllowed(c)
     PROVE  UndecidedInv'
  BY <1>10, ReturnUndecided DEF SaveAllowed, siteVars
<1>11. ASSUME NEW c \in Calls, SaveKey(c)
     PROVE  UndecidedInv'
  BY <1>11, ReturnUndecided DEF SaveKey, siteVars
<1>12. ASSUME NEW c \in Calls, NEW o \in Origins, NEW devMode \in BOOLEAN,
            Start(c, o, devMode)
     PROVE  UndecidedInv'
  BY <1>12
     DEF CallType, UndecidedInv, StillUndecided, StillNotCooling, Phases,
         Start, gateVars, siteVars
<1>13. ASSUME NEW c \in Calls, NEW o \in Origins, Register(c, o)
     PROVE  UndecidedInv'
  BY <1>13
     DEF CallType, UndecidedInv, StillUndecided, StillNotCooling, Phases,
         Register, gateVars, siteVars
<1>14. ASSUME NEW c \in Calls, NEW result \in Answers, DialogEnds(c, result)
     PROVE  UndecidedInv'
  BY <1>14
     DEF CallType, UndecidedInv, StillUndecided, StillNotCooling, Phases,
         DialogEnds, gateVars, siteVars
<1>15. ASSUME NEW d \in Domains, ForgetKey(d)
     PROVE  UndecidedInv'
  BY <1>15
     DEF CallType, UndecidedInv, StillUndecided, StillNotCooling, Phases,
         ForgetKey, callVars, gateVars, siteVars
<1>16. ASSUME NEW d \in Domains, CooldownEnds(d)
     PROVE  UndecidedInv'
  BY <1>16
     DEF CallType, UndecidedInv, StillUndecided, StillNotCooling, Phases,
         CooldownEnds, callVars, gateVars, siteVars
<1>17. ASSUME ForgetDecisions
     PROVE  UndecidedInv'
  BY <1>17
     DEF CallType, UndecidedInv, StillUndecided, StillNotCooling, TurnInv,
         OriginInv, SiteType, Phases,
         ForgetDecisions, callVars, gateVars, siteVars
<1>18. ASSUME ForgetStored
     PROVE  UndecidedInv'
  BY <1>18
     DEF CallType, UndecidedInv, StillUndecided, StillNotCooling, Phases,
         ForgetStored, callVars, gateVars, siteVars
<1>19. ASSUME NEW contents \in
                [keys : SUBSET Domains, allowed : SUBSET Origins],
            RestartFrom(contents)
     PROVE  UndecidedInv'
  BY <1>19
     DEF CallType, UndecidedInv, StillUndecided, StillNotCooling, TurnInv,
         OriginInv, SiteType, Phases,
         RestartFrom, gateVars, siteVars
<1>20. /\ file \in [keys : SUBSET Domains, allowed : SUBSET Origins]
       /\ EmptyFile \in [keys : SUBSET Domains, allowed : SUBSET Origins]
  BY DEF SiteType, EmptyFile
<1> QED
  BY <1>1, <1>2, <1>3, <1>4, <1>5, <1>6, <1>7, <1>8, <1>9, <1>10, <1>11,
     <1>12, <1>13, <1>14, <1>15, <1>16, <1>17, <1>18, <1>19, <1>20
  DEF Step, CallStep, Restart

-----------------------------------------------------------------------------

LEMMA HistoryInit == Init => HistoryInv
<1> SUFFICES ASSUME Init PROVE HistoryInv
  OBVIOUS
<1>1. HistoryType
  BY DEF Init, HistoryType
<1>2. AnswerGiven
  BY DEF Init, AnswerGiven
<1>3. StoredGiven
  BY DEF Init, StoredGiven, EmptyFile
<1>4. RecordsComeFromThePerson
  BY DEF Init, RecordsComeFromThePerson, EmptyFile
<1> QED
  BY <1>1, <1>2, <1>3, <1>4 DEF HistoryInv

\* What the person has said stays said, and a dialog's answer is among it.
LEMMA GivenGrows ==
    ASSUME CallType, HistoryType, CallType', given' = Given
    PROVE  /\ given' \in [Origins -> SUBSET (Answers \cup {"none"})]
           /\ \A o \in Origins : given[o] \subseteq given'[o]
<1>1. \A c \in Calls : answer'[c] \in Answers \cup {"none"}
  BY DEF CallType
<1>2. \A o \in Origins : Answered(o) \subseteq Answers \cup {"none"}
  BY <1>1 DEF Answered
<1> QED
  BY <1>2 DEF Given, HistoryType

\* Calls that are settling an answer keep it, and no record is added.
KeepsAnswers ==
    \A e \in Calls : phase'[e] \in {"answered", "savingAllowed"} =>
        /\ phase'[e] = phase[e]
        /\ answer'[e] = answer[e]
        /\ origin'[e] = origin[e]

AddsNoRecord ==
    /\ file'.allowed \subseteq file.allowed
    /\ \A o \in Origins : decisions'[o] \in {"none", decisions[o]}

\* The three actions that bring an answer nearer to the record.
Answering ==
    \E c \in Calls :
        \/ \E result \in Answers : DialogEnds(c, result)
        \/ Settle(c)
        \/ SaveAllowed(c)

LEMMA OthersKeepHistory ==
    ASSUME CallType, SiteType, OriginInv, Step, ~Answering
    PROVE  KeepsAnswers /\ AddsNoRecord
<1> USE CallType, SiteType, OriginInv, GateAssumption DEF Goto, Site
<1>1. ASSUME NEW c \in Calls, StartNoHeader(c)
     PROVE  KeepsAnswers /\ AddsNoRecord
  BY <1>1 DEF KeepsAnswers, AddsNoRecord, CallType, SiteType, Phases, Return,
       StartNoHeader, callVars, gateVars, siteVars
<1>2. ASSUME NEW c \in Calls, CheckKey(c)
     PROVE  KeepsAnswers /\ AddsNoRecord
  BY <1>2 DEF KeepsAnswers, AddsNoRecord, CallType, SiteType, Phases, Return,
       CheckKey, callVars, gateVars, siteVars
<1>3. ASSUME NEW c \in Calls, CheckDecision(c)
     PROVE  KeepsAnswers /\ AddsNoRecord
  BY <1>3 DEF KeepsAnswers, AddsNoRecord, CallType, SiteType, Phases, Return,
       CheckDecision, callVars, gateVars, siteVars
<1>4. ASSUME NEW c \in Calls, GateFor(c)
     PROVE  KeepsAnswers /\ AddsNoRecord
  BY <1>4 DEF KeepsAnswers, AddsNoRecord, CallType, SiteType, Phases,
       GateFor, Kept, InMap, callVars, gateVars, siteVars
<1>5. ASSUME NEW c \in Calls, Lock(c)
     PROVE  KeepsAnswers /\ AddsNoRecord
  BY <1>5 DEF KeepsAnswers, AddsNoRecord, CallType, SiteType, Phases,
       Lock, callVars, gateVars, siteVars
<1>6. ASSUME NEW c \in Calls, Cooldown(c)
     PROVE  KeepsAnswers /\ AddsNoRecord
  BY <1>6 DEF KeepsAnswers, AddsNoRecord, CallType, SiteType, Phases, Return,
       Cooldown, Unverified, callVars, gateVars, siteVars
<1>7. ASSUME NEW c \in Calls, Lookup(c)
     PROVE  KeepsAnswers /\ AddsNoRecord
  BY <1>7 DEF KeepsAnswers, AddsNoRecord, CallType, SiteType, Phases,
       Lookup, callVars, gateVars, siteVars
<1>8. ASSUME NEW c \in Calls, RecordFailure(c)
     PROVE  KeepsAnswers /\ AddsNoRecord
  BY <1>8 DEF KeepsAnswers, AddsNoRecord, CallType, SiteType, Phases, Return,
       RecordFailure, Unverified, callVars, gateVars, siteVars
<1>9. ASSUME NEW c \in Calls, SaveKey(c)
     PROVE  KeepsAnswers /\ AddsNoRecord
  BY <1>9 DEF KeepsAnswers, AddsNoRecord, CallType, SiteType, Phases, Return,
       SaveKey, callVars, gateVars, siteVars
<1>10. ASSUME NEW c \in Calls, NEW o \in Origins, NEW devMode \in BOOLEAN,
            Start(c, o, devMode)
     PROVE  KeepsAnswers /\ AddsNoRecord
  BY <1>10 DEF KeepsAnswers, AddsNoRecord, CallType, SiteType, Phases,
       Start, callVars, gateVars, siteVars
<1>11. ASSUME NEW c \in Calls, NEW o \in Origins, Register(c, o)
     PROVE  KeepsAnswers /\ AddsNoRecord
  BY <1>11 DEF KeepsAnswers, AddsNoRecord, CallType, SiteType, Phases,
       Register, callVars, gateVars, siteVars
<1>12. ASSUME NEW d \in Domains, ForgetKey(d)
     PROVE  KeepsAnswers /\ AddsNoRecord
  BY <1>12 DEF KeepsAnswers, AddsNoRecord, CallType, SiteType, Phases,
       ForgetKey, callVars, gateVars, siteVars
<1>13. ASSUME NEW d \in Domains, CooldownEnds(d)
     PROVE  KeepsAnswers /\ AddsNoRecord
  BY <1>13 DEF KeepsAnswers, AddsNoRecord, CallType, SiteType, Phases,
       CooldownEnds, callVars, gateVars, siteVars
<1>14. ASSUME ForgetDecisions
     PROVE  KeepsAnswers /\ AddsNoRecord
  BY <1>14 DEF KeepsAnswers, AddsNoRecord, CallType, SiteType, Phases,
       ForgetDecisions, callVars, gateVars, siteVars
<1>15. ASSUME ForgetStored
     PROVE  KeepsAnswers /\ AddsNoRecord
  BY <1>15 DEF KeepsAnswers, AddsNoRecord, CallType, SiteType, Phases,
       ForgetStored, callVars, gateVars, siteVars
<1> QED
  BY <1>1, <1>2, <1>3, <1>4, <1>5, <1>6, <1>7, <1>8, <1>9, <1>10, <1>11,
     <1>12, <1>13, <1>14, <1>15
  DEF Step, CallStep, Answering

\* Nothing a step does loses the history behind a record.
LEMMA HistoryStep ==
    ASSUME CallType, SiteType, OriginInv, HistoryInv, CallType', Step,
           given' = Given, overlapped' \in BOOLEAN
    PROVE  HistoryInv'
<1> USE CallType, SiteType, OriginInv, GateAssumption
<1>1. HistoryType' /\ \A o \in Origins : given[o] \subseteq given'[o]
  BY GivenGrows DEF HistoryInv, HistoryType
<1>2. /\ HistoryType /\ AnswerGiven /\ StoredGiven /\ RecordsComeFromThePerson
      /\ \A e \in Calls : phase[e] \in {"answered", "savingAllowed", "asking"} =>
             origin[e] \in Origins
  BY DEF HistoryInv, OriginInv
<1>3. KeepsAnswers => AnswerGiven'
  BY <1>1, <1>2 DEF KeepsAnswers, AnswerGiven
<1>4. AddsNoRecord => StoredGiven' /\ RecordsComeFromThePerson'
  BY <1>1, <1>2 DEF AddsNoRecord, StoredGiven, RecordsComeFromThePerson, SiteType
<1>5. CASE ~Answering
  BY <1>1, <1>3, <1>4, <1>5, OthersKeepHistory DEF HistoryInv
<1>6. ASSUME NEW c \in Calls, NEW result \in Answers, DialogEnds(c, result)
      PROVE  HistoryInv'
  <2>1. /\ phase[c] = "asking" /\ phase'[c] = "answered" /\ answer'[c] = result
        /\ \A e \in Calls : e # c => phase'[e] = phase[e] /\ answer'[e] = answer[e]
        /\ origin' = origin /\ UNCHANGED <<file, decisions>>
    BY <1>6 DEF DialogEnds, Goto, CallType, siteVars
  <2>2. result \in given'[origin[c]] \cup {"Err"}
    BY <1>2, <2>1 DEF Given, Answered
  <2>3. AnswerGiven'
    BY <1>1, <1>2, <2>1, <2>2 DEF AnswerGiven
  <2>4. AddsNoRecord
    BY <2>1 DEF AddsNoRecord
  <2> QED
    BY <1>1, <1>4, <2>3, <2>4 DEF HistoryInv
<1>7. ASSUME NEW c \in Calls, Settle(c)
      PROVE  HistoryInv'
  <2>1. /\ phase[c] = "answered" /\ origin[c] \in Origins
        /\ file' = file /\ decisions' = Record(c)
        /\ \A e \in Calls : e # c => /\ phase'[e] = phase[e]
                                     /\ answer'[e] = answer[e]
                                     /\ origin'[e] = origin[e]
    BY <1>2, <1>7 DEF Settle, Return, Goto, CallType
  <2>2. \/ phase'[c] = "done"
        \/ /\ phase'[c] = "savingAllowed" /\ origin'[c] = origin[c]
           /\ answer[c] = "AllowAlways"
    BY <1>7 DEF Settle, Return, Goto, CallType
  <2>3. answer[c] \in given[origin[c]] \cup {"Err"}
    BY <1>2, <2>1 DEF AnswerGiven
  <2>4. AnswerGiven'
    BY <1>1, <1>2, <2>1, <2>2, <2>3 DEF AnswerGiven
  <2>5. StoredGiven'
    BY <1>1, <1>2, <2>1 DEF StoredGiven, SiteType
  <2>6. RecordsComeFromThePerson'
    BY <1>1, <1>2, <2>1, <2>3 DEF RecordsComeFromThePerson, Record, Outcome, SiteType, Answers
  <2> QED
    BY <1>1, <2>4, <2>5, <2>6 DEF HistoryInv
<1>8. ASSUME NEW c \in Calls, SaveAllowed(c)
      PROVE  HistoryInv'
  <2>1. /\ phase[c] = "savingAllowed" /\ origin[c] \in Origins
        /\ file'.allowed = file.allowed \cup {origin[c]} /\ decisions' = decisions
    BY <1>2, <1>8 DEF SaveAllowed, SiteType, siteVars
  <2>2. KeepsAnswers
    BY <1>8 DEF SaveAllowed, Return, Goto, KeepsAnswers, CallType
  <2>3. StoredGiven'
    BY <1>1, <1>2, <2>1 DEF StoredGiven, AnswerGiven, SiteType
  <2>4. RecordsComeFromThePerson'
    BY <1>1, <1>2, <2>1, <2>3 DEF RecordsComeFromThePerson, StoredGiven
  <2> QED
    BY <1>1, <1>3, <2>2, <2>3, <2>4 DEF HistoryInv
<1> QED
  BY <1>5, <1>6, <1>7, <1>8 DEF Answering

-----------------------------------------------------------------------------

LEMMA StoreInit == Init => StoreInv
<1> SUFFICES ASSUME Init PROVE StoreInv
  OBVIOUS
<1>1. /\ Saving = {} /\ UnsavedKeys = {} /\ UnsavedAllowed = {}
      /\ UnforgottenAllowed = {} /\ AlwaysAllowed = {}
  BY DEF Init, Saving, UnsavedKeys, UnsavedAllowed, UnforgottenAllowed, NoForget,
         AlwaysAllowed
<1>2. verified = {} /\ file.keys = {} /\ file.allowed = {}
  BY DEF Init, EmptyFile
<1> QED
  BY <1>1, <1>2 DEF StoreInv

\* The calls on their way to the store stay the same ones.
KeepsSavers ==
    \A e \in Calls :
        phase[e] \in {"savingKey", "savingAllowed"}
            \/ phase'[e] \in {"savingKey", "savingAllowed"}
        => phase'[e] = phase[e] /\ origin'[e] = origin[e]

LEMMA SaversKept ==
    ASSUME KeepsSavers
    PROVE  Saving' = Saving /\ UnsavedKeys' = UnsavedKeys /\ UnsavedAllowed' = UnsavedAllowed
<1>1. Saving' = Saving
  BY DEF KeepsSavers, Saving
<1>2. UnsavedKeys' = UnsavedKeys
  BY DEF KeepsSavers, UnsavedKeys, Site
<1>3. UnsavedAllowed' = UnsavedAllowed
  BY DEF KeepsSavers, UnsavedAllowed
<1> QED
  BY <1>1, <1>2, <1>3

\* The eight actions that change memory or the file, or send a call to the store.
Storing ==
    \/ \E c \in Calls :
          \/ Lookup(c) /\ phase'[c] = "savingKey"
          \/ Settle(c)
          \/ SaveAllowed(c)
          \/ SaveKey(c)
          \/ \E o \in Origins : Register(c, o)
    \/ \E d \in Domains : ForgetKey(d)
    \/ ForgetDecisions
    \/ ForgetStored

LEMMA ReturnKeepsSavers ==
    ASSUME CallType, NEW c \in Calls, NEW d, Return(c, d),
           phase[c] \notin {"savingKey", "savingAllowed"}
    PROVE  KeepsSavers
BY DEF CallType, Return, Goto, KeepsSavers

\* Every other step leaves the store, memory and the savers alone.
LEMMA OthersKeepStore ==
    ASSUME CallType, Step, ~Storing
    PROVE  KeepsSavers /\ UNCHANGED <<verified, decisions, forget, file>>
<1> DEFINE Frame == KeepsSavers /\ UNCHANGED <<verified, decisions, forget, file>>
<1> USE CallType DEF Goto
<1>1. ASSUME NEW c \in Calls, StartNoHeader(c) PROVE Frame
  BY <1>1, ReturnKeepsSavers DEF StartNoHeader, siteVars
<1>2. ASSUME NEW c \in Calls, CheckKey(c) PROVE Frame
  BY <1>2, ReturnKeepsSavers DEF CheckKey, KeepsSavers, CallType, siteVars
<1>3. ASSUME NEW c \in Calls, CheckDecision(c) PROVE Frame
  BY <1>3, ReturnKeepsSavers DEF CheckDecision, KeepsSavers, CallType, siteVars
<1>4. ASSUME NEW c \in Calls, GateFor(c) PROVE Frame
  BY <1>4 DEF GateFor, KeepsSavers, CallType, siteVars
<1>5. ASSUME NEW c \in Calls, Lock(c) PROVE Frame
  BY <1>5 DEF Lock, KeepsSavers, CallType, siteVars
<1>6. ASSUME NEW c \in Calls, Cooldown(c) PROVE Frame
  BY <1>6, ReturnKeepsSavers DEF Cooldown, Unverified, KeepsSavers, CallType, siteVars
<1>7. ASSUME NEW c \in Calls, Lookup(c) PROVE Frame
  BY <1>7 DEF Storing, Lookup, KeepsSavers, CallType
<1>8. ASSUME NEW c \in Calls, RecordFailure(c) PROVE Frame
  BY <1>8, ReturnKeepsSavers DEF RecordFailure, Unverified, KeepsSavers, CallType, siteVars
<1>9. ASSUME NEW c \in Calls, NEW o \in Origins, NEW devMode \in BOOLEAN,
             Start(c, o, devMode)
      PROVE  Frame
  BY <1>9 DEF Start, KeepsSavers, CallType, siteVars
<1>10. ASSUME NEW c \in Calls, NEW result \in Answers, DialogEnds(c, result)
       PROVE  Frame
  BY <1>10 DEF DialogEnds, KeepsSavers, CallType, siteVars
<1>11. ASSUME NEW d \in Domains, CooldownEnds(d) PROVE Frame
  BY <1>11 DEF CooldownEnds, KeepsSavers, callVars, siteVars
<1> QED
  BY <1>1, <1>2, <1>3, <1>4, <1>5, <1>6, <1>7, <1>8, <1>9, <1>10, <1>11
  DEF Step, CallStep, Storing

\* A call that puts the key of site in memory and goes on to save it.
LEMMA KeyGoesToStore ==
    ASSUME CallType, StoreInv, NEW c \in Calls, NEW site,
           phase[c] \notin {"savingKey", "savingAllowed"},
           Goto(c, "savingKey"), Site(c)' = site,
           \A e \in Calls : e # c => origin'[e] = origin[e],
           verified' = verified \cup {site}, UNCHANGED <<decisions, forget, file>>,
           overlapped' = (overlapped \/ Overlap')
    PROVE  StoreInv'
<1> SUFFICES ASSUME ~overlapped' PROVE StoreInv'
  BY DEF StoreInv
<1>1. c \in Saving' /\ ~overlapped
  BY DEF Saving, Goto, CallType
<1>2. forget' = NoForget /\ forget = NoForget
  BY <1>1 DEF Overlap
<1>3. UnsavedKeys' = UnsavedKeys \cup {site}
  BY DEF UnsavedKeys, Goto, CallType, Site
<1>4. UnsavedAllowed' = UnsavedAllowed
  BY DEF UnsavedAllowed, Goto, CallType
<1>5. AlwaysAllowed' = AlwaysAllowed
  BY DEF AlwaysAllowed
<1>6. UnforgottenKeys' = {} /\ UnforgottenKeys = {}
  BY <1>2 DEF UnforgottenKeys
<1>7. UnforgottenAllowed' = UnforgottenAllowed
  BY DEF UnforgottenAllowed
<1> QED
  BY <1>1, <1>2, <1>3, <1>4, <1>5, <1>6, <1>7 DEF StoreInv

\* The person's answer: only Allow always changes what the store should hold.
LEMMA SettleStore ==
    ASSUME CallType, SiteType, TurnInv, UndecidedInv, StoreInv,
           NEW c \in Calls, Settle(c), overlapped' = (overlapped \/ Overlap')
    PROVE  StoreInv'
<1> SUFFICES ASSUME ~overlapped' PROVE StoreInv'
  BY DEF StoreInv
<1>1. /\ phase[c] = "answered" /\ origin[c] \in Origins /\ decisions[origin[c]] = "none"
      /\ decisions' = Record(c) /\ UNCHANGED <<verified, forget, file>> /\ ~overlapped
  BY DEF Settle, TurnInv, OriginInv, UndecidedInv, StillUndecided
<1>2. UnforgottenKeys' = UnforgottenKeys /\ UnforgottenAllowed' = UnforgottenAllowed
  BY <1>1 DEF UnforgottenKeys, UnforgottenAllowed
<1>3. CASE answer[c] = "AllowAlways"
  <2>1. Goto(c, "savingAllowed") /\ UNCHANGED origin
    BY <1>3 DEF Settle
  <2>2. c \in Saving' /\ forget' = NoForget
    BY <2>1 DEF Saving, Goto, CallType, Overlap
  <2>3. UnsavedKeys' = UnsavedKeys
    BY <1>1, <2>1 DEF UnsavedKeys, Goto, CallType, Site
  <2>4. UnsavedAllowed' = UnsavedAllowed \cup {origin[c]}
    BY <2>1 DEF UnsavedAllowed, Goto, CallType
  <2>5. AlwaysAllowed' = AlwaysAllowed \cup {origin[c]}
    BY <1>1, <1>3 DEF AlwaysAllowed, Record, Outcome, SiteType
  <2> QED
    BY <1>1, <1>2, <2>2, <2>3, <2>4, <2>5 DEF StoreInv
<1>4. CASE answer[c] # "AllowAlways"
  <2>1. Return(c, "Allow") \/ Return(c, "Deny")
    BY <1>4 DEF Settle
  <2>2. KeepsSavers
    BY <1>1, <2>1, ReturnKeepsSavers
  <2>3. AlwaysAllowed' = AlwaysAllowed
    BY <1>1, <1>4 DEF AlwaysAllowed, Record, Outcome, SiteType
  <2> QED
    BY <1>1, <1>2, <2>2, <2>3, SaversKept DEF StoreInv
<1> QED
  BY <1>3, <1>4

\* A save adds to the file what it no longer has to.
LEMMA SaveAllowedStore ==
    ASSUME CallType, SiteType, StoreInv, NEW c \in Calls, SaveAllowed(c),
           overlapped' = (overlapped \/ Overlap')
    PROVE  StoreInv'
<1> SUFFICES ASSUME ~overlapped' PROVE StoreInv'
  BY DEF StoreInv
<1>1. /\ phase[c] = "savingAllowed" /\ Return(c, "Allow") /\ ~overlapped
      /\ UNCHANGED <<verified, decisions, forget>>
      /\ file'.keys = file.keys /\ file'.allowed = file.allowed \cup {origin[c]}
  BY DEF SaveAllowed, SiteType, siteVars
<1>2. c \in Saving /\ forget = NoForget
  BY <1>1 DEF Saving, StoreInv
<1>3. UnsavedKeys' = UnsavedKeys
  BY <1>1 DEF UnsavedKeys, Return, Goto, CallType, Site
<1>4. UnsavedAllowed = UnsavedAllowed' \cup {origin[c]}
                       \/ UnsavedAllowed = UnsavedAllowed'
  BY <1>1 DEF UnsavedAllowed, Return, Goto, CallType
<1>5. origin[c] \in UnsavedAllowed
  BY <1>1 DEF UnsavedAllowed
<1>6. /\ AlwaysAllowed' = AlwaysAllowed
      /\ UnforgottenKeys' = UnforgottenKeys
      /\ UnforgottenAllowed' = {} /\ UnforgottenAllowed = {}
  BY <1>1, <1>2 DEF AlwaysAllowed, UnforgottenKeys, UnforgottenAllowed, NoForget
<1> QED
  BY <1>1, <1>2, <1>3, <1>4, <1>5, <1>6 DEF StoreInv

LEMMA SaveKeyStore ==
    ASSUME CallType, SiteType, StoreInv, NEW c \in Calls, SaveKey(c),
           overlapped' = (overlapped \/ Overlap')
    PROVE  StoreInv'
<1> SUFFICES ASSUME ~overlapped' PROVE StoreInv'
  BY DEF StoreInv
<1>1. /\ phase[c] = "savingKey" /\ ~overlapped
      /\ UNCHANGED <<verified, decisions, forget>>
      /\ file'.keys = file.keys \cup {Site(c)} /\ file'.allowed = file.allowed
  BY DEF SaveKey, SiteType, siteVars
<1>2. /\ phase'[c] = "done"
      /\ \A e \in Calls : e # c => phase'[e] = phase[e] /\ origin'[e] = origin[e]
  BY DEF SaveKey, Return, Goto, CallType
<1>3. c \in Saving /\ forget = NoForget
  BY <1>1 DEF Saving, StoreInv
<1>4. UnsavedAllowed' = UnsavedAllowed
  BY <1>1, <1>2 DEF UnsavedAllowed
<1>5. UnsavedKeys = UnsavedKeys' \cup {Site(c)}
  BY <1>1, <1>2 DEF UnsavedKeys, Site
<1>6. /\ AlwaysAllowed' = AlwaysAllowed
      /\ UnforgottenKeys' = {} /\ UnforgottenKeys = {}
      /\ UnforgottenAllowed' = UnforgottenAllowed
  BY <1>1, <1>3 DEF AlwaysAllowed, UnforgottenKeys, UnforgottenAllowed
<1> QED
  BY <1>1, <1>3, <1>4, <1>5, <1>6 DEF StoreInv

\* forget_site, step by step: with no save under way, memory runs ahead of the
\* file by exactly what ForgetStored then takes out of it.
LEMMA ForgetStore ==
    ASSUME CallType, SiteType, StoreInv, overlapped' = (overlapped \/ Overlap'),
           (\E d \in Domains : ForgetKey(d)) \/ ForgetDecisions \/ ForgetStored
    PROVE  StoreInv'
<1> SUFFICES ASSUME ~overlapped' PROVE StoreInv'
  BY DEF StoreInv
<1>1. UNCHANGED <<phase, origin>> /\ ~overlapped
  BY DEF ForgetKey, ForgetDecisions, ForgetStored, callVars
<1>2. Saving' = Saving /\ UnsavedKeys' = UnsavedKeys /\ UnsavedAllowed' = UnsavedAllowed
  BY <1>1, SaversKept DEF KeepsSavers
<1>3. (Saving = {} => UnsavedKeys = {} /\ UnsavedAllowed = {})
  BY DEF Saving, UnsavedKeys, UnsavedAllowed
<1>4. ASSUME NEW d \in Domains, ForgetKey(d) PROVE StoreInv'
  <2>1. /\ forget = NoForget /\ forget'.step = "decisions" /\ forget'.domain = d
        /\ verified' = verified \ {d} /\ UNCHANGED <<decisions, file>>
    BY <1>4 DEF ForgetKey
  <2>2. forget' # NoForget
    BY <2>1 DEF NoForget
  <2>3. Saving = {}
    BY <1>2, <2>2 DEF Overlap
  <2>4. /\ UnforgottenKeys = {} /\ UnforgottenKeys' = {d}
        /\ UnforgottenAllowed = {} /\ UnforgottenAllowed' = {}
    BY <2>1, <2>2 DEF UnforgottenKeys, UnforgottenAllowed, NoForget
  <2>5. AlwaysAllowed' = AlwaysAllowed
    BY <2>1 DEF AlwaysAllowed
  <2> QED
    BY <1>1, <1>2, <1>3, <2>1, <2>3, <2>4, <2>5 DEF StoreInv
<1>5. CASE ForgetDecisions
  <2> DEFINE removed == {o \in Origins : DomainOf[o] = forget.domain
                                         /\ decisions[o] # "none"}
  <2>1. /\ forget.step = "decisions" /\ forget'.step = "store"
        /\ forget'.domain = forget.domain /\ forget'.removed = removed
        /\ decisions' = [o \in Origins |-> IF o \in removed THEN "none" ELSE decisions[o]]
        /\ UNCHANGED <<verified, file>>
    BY <1>5 DEF ForgetDecisions
  <2>2. forget # NoForget /\ forget' # NoForget
    BY <2>1 DEF NoForget
  <2>3. Saving = {}
    BY <1>1, <2>2 DEF StoreInv
  <2>4. /\ UnforgottenKeys' = UnforgottenKeys
        /\ UnforgottenAllowed = {} /\ UnforgottenAllowed' = removed
    BY <2>1, <2>2 DEF UnforgottenKeys, UnforgottenAllowed
  <2>5. AlwaysAllowed' = AlwaysAllowed \ removed
    BY <2>1 DEF AlwaysAllowed
  <2> QED
    BY <1>1, <1>2, <1>3, <2>1, <2>3, <2>4, <2>5 DEF StoreInv
<1>6. CASE ForgetStored
  <2>1. /\ forget.step = "store" /\ forget' = NoForget
        /\ file'.keys = file.keys \ {forget.domain}
        /\ file'.allowed = file.allowed \ forget.removed
        /\ UNCHANGED <<verified, decisions>>
    BY <1>6 DEF ForgetStored, siteVars
  <2>2. forget # NoForget
    BY <2>1 DEF NoForget
  <2>3. Saving = {}
    BY <1>1, <2>2 DEF StoreInv
  <2>4. /\ UnforgottenKeys = {forget.domain} /\ UnforgottenKeys' = {}
        /\ UnforgottenAllowed = forget.removed /\ UnforgottenAllowed' = {}
    BY <2>1, <2>2 DEF UnforgottenKeys, UnforgottenAllowed, NoForget
  <2>5. AlwaysAllowed' = AlwaysAllowed
    BY <2>1 DEF AlwaysAllowed
  <2> QED
    BY <1>1, <1>2, <1>3, <2>1, <2>3, <2>4, <2>5 DEF StoreInv
<1> QED
  BY <1>4, <1>5, <1>6

\* What is on record and what is in the store differ by no more than what is
\* under way.
LEMMA StoreStep ==
    ASSUME CallType, SiteType, TurnInv, UndecidedInv, StoreInv, Step,
           overlapped' = (overlapped \/ Overlap')
    PROVE  StoreInv'
<1>1. CASE ~Storing
  <2>1. KeepsSavers /\ UNCHANGED <<verified, decisions, forget, file>>
    BY <1>1, OthersKeepStore
  <2>2. /\ AlwaysAllowed' = AlwaysAllowed /\ UnforgottenKeys' = UnforgottenKeys
        /\ UnforgottenAllowed' = UnforgottenAllowed
    BY <2>1 DEF AlwaysAllowed, UnforgottenKeys, UnforgottenAllowed
  <2> QED
    BY <2>1, <2>2, SaversKept DEF StoreInv
<1>2. ASSUME NEW c \in Calls, Lookup(c), phase'[c] = "savingKey"
      PROVE  StoreInv'
  <2>1. /\ phase[c] = "lookup" /\ verified' = verified \cup {Site(c)}
        /\ Goto(c, "savingKey") /\ UNCHANGED <<origin, decisions, forget, file>>
    BY <1>2 DEF Lookup, Goto, CallType
  <2>2. Site(c)' = Site(c)
    BY <2>1 DEF Site
  <2> QED
    BY <2>1, <2>2, KeyGoesToStore
<1>3. ASSUME NEW c \in Calls, NEW o \in Origins, Register(c, o)
      PROVE  StoreInv'
  <2>1. /\ phase[c] = "idle" /\ verified' = verified \cup {DomainOf[o]}
        /\ Goto(c, "savingKey") /\ origin' = [origin EXCEPT ![c] = o]
        /\ UNCHANGED <<decisions, forget, file>>
    BY <1>3 DEF Register
  <2>2. /\ Site(c)' = DomainOf[o]
        /\ \A e \in Calls : e # c => origin'[e] = origin[e]
    BY <2>1 DEF Site, CallType
  <2> QED
    BY <2>1, <2>2, KeyGoesToStore
<1> QED
  BY <1>1, <1>2, <1>3, SettleStore, SaveAllowedStore, SaveKeyStore, ForgetStore
  DEF Storing

\* After a restart memory is what the file holds, whole or, after a write cut
\* short, empty.
LEMMA RestartStore ==
    ASSUME CallType, SiteType, Restart PROVE StoreInv'
<1>1. PICK contents \in [keys : SUBSET Domains, allowed : SUBSET Origins] :
          RestartFrom(contents)
  BY DEF Restart, SiteType, EmptyFile
<1>2. /\ file' = contents /\ verified' = contents.keys /\ forget' = NoForget
      /\ \A c \in Calls : phase'[c] \in {"idle", "done"}
  BY <1>1 DEF RestartFrom
<1>3. AlwaysAllowed' = contents.allowed
  BY <1>1 DEF RestartFrom, AlwaysAllowed
<1>4. UnsavedKeys' = {} /\ UnsavedAllowed' = {}
  BY <1>2 DEF UnsavedKeys, UnsavedAllowed
<1>5. UnforgottenKeys' = {} /\ UnforgottenAllowed' = {}
  BY <1>2 DEF UnforgottenKeys, UnforgottenAllowed, NoForget
<1> QED
  BY <1>2, <1>3, <1>4, <1>5 DEF StoreInv

-----------------------------------------------------------------------------

\* No step leaves the invariant, whatever it does to the history variables.
LEMMA GateNext == GateInv /\ [Next]_allVars => GateInv'
<1> SUFFICES ASSUME GateInv, [Next]_allVars PROVE GateInv'
  OBVIOUS
<1> USE DEF GateInv
<1>1. OriginInv
  BY DEF TurnInv
<1>2. CASE Step /\ given' = Given /\ overlapped' = (overlapped \/ Overlap')
  <2>1. overlapped' \in BOOLEAN
    BY <1>2 DEF HistoryInv, HistoryType
  <2> QED
    BY <1>1, <1>2, <2>1, CallTypeStep, SiteTypeStep, TurnStep, UndecidedStep, HistoryStep,
       StoreStep
<1>3. CASE Restart /\ UNCHANGED given /\ overlapped' = FALSE
  <2>1. CallType' /\ SiteType' /\ TurnInv' /\ UndecidedInv'
    BY <1>1, <1>3, CallTypeStep, SiteTypeStep, TurnStep, UndecidedStep
  <2>2. \E contents \in {file, EmptyFile} : RestartFrom(contents)
    BY <1>3 DEF Restart
  <2>3. PICK contents \in {file, EmptyFile} : RestartFrom(contents)
    BY <2>2
  <2>4. \A o \in contents.allowed : "AllowAlways" \in given'[o]
    BY <1>3, <2>3 DEF HistoryInv, StoredGiven, EmptyFile
  <2>5. StoredGiven' /\ RecordsComeFromThePerson'
    BY <2>3, <2>4 DEF RestartFrom, StoredGiven, RecordsComeFromThePerson
  <2>6. AnswerGiven'
    BY <2>3 DEF RestartFrom, AnswerGiven, CallType
  <2>7. HistoryType'
    BY <1>3 DEF HistoryInv, HistoryType
  <2>8. StoreInv'
    BY <1>3, RestartStore
  <2> QED
    BY <2>1, <2>5, <2>6, <2>7, <2>8 DEF HistoryInv
<1>4. CASE UNCHANGED allVars
  BY <1>4
     DEF allVars, vars, callVars, gateVars, siteVars, CallType, SiteType,
         TurnInv,
         OriginInv, HeldIsInMap, BehindIsInside, Inside, Site, UndecidedInv,
         StillUndecided, StillNotCooling, HistoryInv, HistoryType, AnswerGiven,
         StoredGiven, RecordsComeFromThePerson, StoreInv, Saving, UnsavedKeys,
         UnsavedAllowed, UnforgottenKeys, UnforgottenAllowed, AlwaysAllowed
<1> QED
  BY <1>2, <1>3, <1>4 DEF Next

\* Everything below holds in every reachable state, with any number of calls,
\* origins and domains, however few turnstiles gate_for keeps.
THEOREM GateInvariant == Spec => []GateInv
<1>1. Init => GateInv
  BY TypeInit, TurnInit, UndecidedInit, HistoryInit, StoreInit DEF GateInv
<1> QED
  BY <1>1, GateNext, PTL DEF Spec

\* ApikeyService's state stays well formed.
THEOREM TypeCorrect == Spec => []TypeOK
<1>1. GateInv => TypeOK
  BY DEF GateInv, CallType, SiteType, HistoryInv, HistoryType, TypeOK
<1> QED
  BY <1>1, GateInvariant, PTL

\* Pruning the turnstiles never lets two calls for one domain past theirs
\* (gate_for): a turnstile that is held is not dropped, so it stays the one
\* every later call for its domain queues at.
THEOREM OneTurnPerSite == Spec => []OneAtATimePerSite
<1>1. GateInv => OneAtATimePerSite
  BY OneBehind DEF GateInv, OneAtATimePerSite
<1> QED
  BY <1>1, GateInvariant, PTL

\* What decide read before its awaits still holds after them: no second lookup
\* within the cooldown, no second dialog for an origin already answered.
THEOREM AskedOnce == Spec => []NothingAskedTwice
<1>1. GateInv => NothingAskedTwice
  BY DEF GateInv, UndecidedInv, StillUndecided, StillNotCooling, NothingAskedTwice
<1> QED
  BY <1>1, GateInvariant, PTL

\* An origin is allowed, in memory or in sites.json, by the very answer the
\* person gave about it, and refused for good after a panel about it that the
\* person refused or closed: no dialog that timed out, was never shown, or was
\* about another origin leaves a record, whatever runs beside it.  (That a
\* closed panel leaves one is the code's; see OnlyChosenRefusalsStay.)
THEOREM NothingElseIsRecorded == Spec => []RecordsComeFromThePerson
<1>1. GateInv => RecordsComeFromThePerson
  BY DEF GateInv, HistoryInv
<1> QED
  BY <1>1, GateInvariant, PTL

\* With nothing under way, and no forget_site having overlapped a save since the
\* start, sites.json is what ApikeyService has in memory: a restart loses
\* nothing that lasts and revives nothing.
THEOREM StoreAndMemoryAgree == Spec => []StoreMatchesMemory
<1>1. GateInv => StoreMatchesMemory
  <2> SUFFICES ASSUME GateInv, Quiet, ~overlapped
               PROVE  file.keys = verified /\ file.allowed = AlwaysAllowed
    BY DEF StoreMatchesMemory
  <2>1. /\ verified = (file.keys \ UnforgottenKeys) \cup UnsavedKeys
        /\ AlwaysAllowed = (file.allowed \ UnforgottenAllowed) \cup UnsavedAllowed
    BY DEF GateInv, StoreInv
  <2>2. UnsavedKeys = {} /\ UnsavedAllowed = {}
    BY DEF Quiet, Saving, UnsavedKeys, UnsavedAllowed
  <2>3. UnforgottenKeys = {} /\ UnforgottenAllowed = {}
    BY DEF Quiet, UnforgottenKeys, UnforgottenAllowed, NoForget
  <2> QED
    BY <2>1, <2>2, <2>3
<1> QED
  BY <1>1, GateInvariant, PTL

=============================================================================
