----------------------------- MODULE OriginGate -----------------------------
(***************************************************************************)
(* openimzo_rpc::origin::ApikeyService: which sites may call, decided for  *)
(* concurrent calls from a cache of verified keys, the person's recorded   *)
(* answers, a lookup at the vendor and a permission dialog, and kept in    *)
(* sites.json (SitesStore) across restarts; with the apikey function that  *)
(* registers a domain and the window's forget_site.                        *)
(*                                                                         *)
(* Each step is one critical section of a lock or one await of the code.   *)
(* Whether a key verifies, and what the vendor's server answers, is left   *)
(* to chance; the dialog is UiBroker's, here only what it returns.         *)
(***************************************************************************)
EXTENDS Naturals, FiniteSets

CONSTANTS
    Calls,        \* RPC calls, each made once
    NoCall,       \* not a call
    Origins,      \* Origin headers with a host
    NullOrigin,   \* a missing, file:// or unparseable header
    Domains,      \* hosts
    DomainOf,     \* host_of, a function from Origins to Domains
    MaxGates,     \* MAX_GATES
    MaxForgets,   \* bound: how often the person forgets a site
    MaxRestarts   \* bound: how often the app is restarted

ASSUME GateAssumption ==
    /\ NoCall \notin Calls
    /\ NullOrigin \notin Origins
    /\ DomainOf \in [Origins -> Domains]
    /\ MaxGates \in Nat
    /\ MaxForgets \in Nat
    /\ MaxRestarts \in Nat

VARIABLES
    phase,          \* where each call is
    origin,         \* the origin each call came from
    developerMode,  \* decide's argument: as the dispatcher read it for the call
    answer,         \* how the call's permission dialog ended
    reply,          \* the call's OriginDecision ("Registered" for apikey)
    given,          \* history: what the person has answered about each origin
    verified,       \* ApikeyService.verified, its domains
    decisions,      \* ApikeyService.decisions
    cooling,        \* ApikeyService.lookup_failed, the entries not expired
    gates,          \* ApikeyService.gates: the turnstile of each domain
    gate,           \* the turnstile each call holds an Arc of
    owner,          \* the call inside each turnstile
    forget,         \* the forget_site under way
    file,           \* sites.json
    forgets,
    restarts,
    overlapped      \* history: since the last start, did a forget_site and a
                    \* save run at the same time?

callVars == <<phase, origin, developerMode, answer, reply>>
gateVars == <<gates, gate, owner>>
siteVars == <<verified, decisions>>
vars == <<callVars, gateVars, siteVars, cooling, forget, file, forgets, restarts>>

allVars == <<vars, given, overlapped>>

\* A turnstile is named by the call that created it.
Gates == Calls

Phases == {"idle", "checkKey", "checkDecision", "gateFor", "queued",
           "recheckKey", "recheckDecision", "cooldown", "lookup", "failing",
           "asking", "answered", "savingAllowed", "savingKey", "done"}

\* "Closed": the panel was closed, by the person or by quitting, and nothing
\* was chosen; "Err": timed out, busy or no user interface.
Answers == {"AllowAlways", "AllowOnce", "Deny", "Closed", "Err"}

Recorded == {"AllowAlways", "AllowOnce", "Deny"}

NoForget == [step |-> "idle"]

EmptyFile == [keys |-> {}, allowed |-> {}]

TypeOK ==
    /\ phase \in [Calls -> Phases]
    /\ origin \in [Calls -> Origins \cup {NullOrigin}]
    /\ developerMode \in [Calls -> BOOLEAN]
    /\ answer \in [Calls -> Answers \cup {"none"}]
    /\ reply \in [Calls -> {"none", "Allow", "Deny", "NoHeader", "Registered"}]
    /\ verified \subseteq Domains
    /\ decisions \in [Origins -> Recorded \cup {"none"}]
    /\ cooling \subseteq Domains
    /\ gates \in [Domains -> Gates \cup {NoCall}]
    /\ gate \in [Calls -> Gates \cup {NoCall}]
    /\ owner \in [Gates -> Calls \cup {NoCall}]
    /\ \/ forget = NoForget
       \/ forget \in [step : {"decisions"}, domain : Domains]
       \/ forget \in [step : {"store"}, domain : Domains, removed : SUBSET Origins]
    /\ file \in [keys : SUBSET Domains, allowed : SUBSET Origins]
    /\ given \in [Origins -> SUBSET (Answers \cup {"none"})]
    /\ forgets \in 0 .. MaxForgets
    /\ restarts \in 0 .. MaxRestarts
    /\ overlapped \in BOOLEAN

Init ==
    /\ phase = [c \in Calls |-> "idle"]
    /\ origin = [c \in Calls |-> NullOrigin]
    /\ developerMode = [c \in Calls |-> FALSE]
    /\ answer = [c \in Calls |-> "none"]
    /\ reply = [c \in Calls |-> "none"]
    /\ verified = {}
    /\ decisions = [o \in Origins |-> "none"]
    /\ cooling = {}
    /\ gates = [d \in Domains |-> NoCall]
    /\ gate = [c \in Calls |-> NoCall]
    /\ owner = [g \in Gates |-> NoCall]
    /\ forget = NoForget
    /\ file = EmptyFile
    /\ given = [o \in Origins |-> {}]
    /\ forgets = 0
    /\ restarts = 0
    /\ overlapped = FALSE

Site(c) == DomainOf[origin[c]]

Goto(c, p) == phase' = [phase EXCEPT ![c] = p]

\* Mutant: the guard is leaked.
Return_KeepsGuard(c, decision) ==
    /\ Goto(c, "done")
    /\ origin' = [origin EXCEPT ![c] = NullOrigin]
    /\ developerMode' = [developerMode EXCEPT ![c] = FALSE]
    /\ answer' = [answer EXCEPT ![c] = "none"]
    /\ reply' = [reply EXCEPT ![c] = decision]
    /\ gate' = [gate EXCEPT ![c] = NoCall]
    /\ UNCHANGED <<gates, owner>>

\* decide returns: its arguments go, its guard and its Arc of the turnstile drop.
Return(c, decision) ==
    /\ Goto(c, "done")
    /\ origin' = [origin EXCEPT ![c] = NullOrigin]
    /\ developerMode' = [developerMode EXCEPT ![c] = FALSE]
    /\ answer' = [answer EXCEPT ![c] = "none"]
    /\ reply' = [reply EXCEPT ![c] = decision]
    /\ owner' = [g \in Gates |-> IF owner[g] = c THEN NoCall ELSE owner[g]]
    /\ gate' = [gate EXCEPT ![c] = NoCall]
    /\ UNCHANGED gates

Decision(o) == IF decisions[o] = "Deny" THEN "Deny" ELSE "Allow"

-----------------------------------------------------------------------------
(* decide, called by Dispatcher::call_inner for every gated function. *)

\* A missing, file:// or unreadable origin is refused outright.
StartNoHeader(c) ==
    /\ phase[c] = "idle"
    /\ Return(c, "NoHeader")
    /\ UNCHANGED <<siteVars, cooling, forget, file, forgets, restarts>>

\* The dispatcher reads developer_mode before it awaits decide, and not again.
Start(c, o, devMode) ==
    /\ phase[c] = "idle"
    /\ Goto(c, "checkKey")
    /\ origin' = [origin EXCEPT ![c] = o]
    /\ developerMode' = [developerMode EXCEPT ![c] = devMode]
    /\ UNCHANGED <<answer, reply, gateVars, siteVars, cooling, forget, file,
                   forgets, restarts>>

\* is_registered, before and again behind the turnstile.
CheckKey(c) ==
    /\ phase[c] \in {"checkKey", "recheckKey"}
    /\ \/ /\ Site(c) \in verified
          /\ Return(c, "Allow")
       \/ /\ Site(c) \notin verified
          /\ Goto(c, IF phase[c] = "checkKey" THEN "checkDecision" ELSE "recheckDecision")
          /\ UNCHANGED <<origin, developerMode, answer, reply, gateVars>>
    /\ UNCHANGED <<siteVars, cooling, forget, file, forgets, restarts>>

\* Mutant: what was settled while the call waited is not looked at again.
CheckDecision_OnlyOnce(c) ==
    /\ phase[c] \in {"checkDecision", "recheckDecision"}
    /\ \/ /\ phase[c] = "checkDecision"
          /\ decisions[origin[c]] # "none"
          /\ Return(c, Decision(origin[c]))
       \/ /\ phase[c] = "recheckDecision" \/ decisions[origin[c]] = "none"
          /\ Goto(c, IF phase[c] = "checkDecision" THEN "gateFor" ELSE "cooldown")
          /\ UNCHANGED <<origin, developerMode, answer, reply, gateVars>>
    /\ UNCHANGED <<siteVars, cooling, forget, file, forgets, restarts>>

\* recorded, before and again behind the turnstile.
CheckDecision(c) ==
    /\ phase[c] \in {"checkDecision", "recheckDecision"}
    /\ \/ /\ decisions[origin[c]] # "none"
          /\ Return(c, Decision(origin[c]))
       \/ /\ decisions[origin[c]] = "none"
          /\ Goto(c, IF phase[c] = "checkDecision" THEN "gateFor" ELSE "cooldown")
          /\ UNCHANGED <<origin, developerMode, answer, reply, gateVars>>
    /\ UNCHANGED <<siteVars, cooling, forget, file, forgets, restarts>>

\* What retain leaves of a domain's turnstile: one a call still holds.
Kept(d) == IF \E c \in Calls : gate[c] = gates[d] THEN gates[d] ELSE NoCall

InMap == {d \in Domains : gates[d] # NoCall}

\* Mutant: a call finds no turnstile but its own.
GateFor_Fresh(c) ==
    /\ phase[c] = "gateFor"
    /\ gates' = [gates EXCEPT ![Site(c)] = c]
    /\ gate' = [gate EXCEPT ![c] = c]
    /\ Goto(c, "queued")
    /\ UNCHANGED <<origin, developerMode, answer, reply, owner, siteVars, cooling,
                   forget, file, forgets, restarts>>

\* gate_for: beyond MAX_GATES, turnstiles nobody holds are dropped first.
GateFor(c) ==
    LET kept == IF Cardinality(InMap) > MaxGates /\ Site(c) \notin InMap
                THEN [d \in Domains |-> Kept(d)]
                ELSE gates
        mine == IF Site(c) \in InMap THEN gates[Site(c)] ELSE c
    IN  /\ phase[c] = "gateFor"
        /\ gates' = [kept EXCEPT ![Site(c)] = mine]
        /\ gate' = [gate EXCEPT ![c] = mine]
        /\ Goto(c, "queued")
        /\ UNCHANGED <<origin, developerMode, answer, reply, owner, siteVars, cooling,
                       forget, file, forgets, restarts>>

Lock(c) ==
    /\ phase[c] = "queued"
    /\ owner[gate[c]] = NoCall
    /\ owner' = [owner EXCEPT ![gate[c]] = c]
    /\ Goto(c, "recheckKey")
    /\ UNCHANGED <<origin, developerMode, answer, reply, gates, gate, siteVars, cooling,
                   forget, file, forgets, restarts>>

\* Not verified: refused unless developer mode was on, else the person is asked.
Unverified(c) ==
    \/ /\ developerMode[c]
       /\ Goto(c, "asking")
       /\ UNCHANGED <<origin, developerMode, answer, reply, gateVars>>
    \/ /\ ~developerMode[c]
       /\ Return(c, "Deny")

\* lookup_recently_failed.
Cooldown(c) ==
    /\ phase[c] = "cooldown"
    /\ \/ /\ Site(c) \in cooling
          /\ Unverified(c)
       \/ /\ Site(c) \notin cooling
          /\ Goto(c, "lookup")
          /\ UNCHANGED <<origin, developerMode, answer, reply, gateVars>>
    /\ UNCHANGED <<siteVars, cooling, forget, file, forgets, restarts>>

\* The vendor answers with a key that verifies: register inserts it, or the
\* lookup fails or times out.
Lookup(c) ==
    /\ phase[c] = "lookup"
    /\ \/ /\ verified' = verified \cup {Site(c)}
          /\ Goto(c, "savingKey")
       \/ /\ Goto(c, "failing")
          /\ UNCHANGED verified
    /\ UNCHANGED <<origin, developerMode, answer, reply, gateVars, decisions, cooling,
                   forget, file, forgets, restarts>>

\* record_lookup_failure.
RecordFailure(c) ==
    /\ phase[c] = "failing"
    /\ cooling' = cooling \cup {Site(c)}
    /\ Unverified(c)
    /\ UNCHANGED <<siteVars, forget, file, forgets, restarts>>

\* ask_permission returns.
DialogEnds(c, result) ==
    /\ phase[c] = "asking"
    /\ answer' = [answer EXCEPT ![c] = result]
    /\ Goto(c, "answered")
    /\ UNCHANGED <<origin, developerMode, reply, gateVars, siteVars, cooling, forget,
                   file, forgets, restarts>>

\* Mutant: a dialog that never reached the person counts as a refusal too.
Outcome_ErrDenies(c) ==
    IF answer[c] \in {"Closed", "Err"} THEN "Deny" ELSE answer[c]

\* What a dialog leaves on record.  The permission panel's cancellation value
\* is .deny, so a closed panel reaches decide as the answer Deny.
Outcome(c) ==
    IF answer[c] = "Closed" THEN "Deny"
    ELSE IF answer[c] = "Err" THEN "none" ELSE answer[c]

\* Mutant: an answer is recorded for every origin of the site.
Record_ForWholeSite(c) ==
    [o \in Origins |-> IF Outcome(c) # "none" /\ DomainOf[o] = Site(c)
                       THEN Outcome(c) ELSE decisions[o]]

\* allow or deny writes the answer under the origin's full header.
Record(c) ==
    IF Outcome(c) = "none" THEN decisions
    ELSE [decisions EXCEPT ![origin[c]] = Outcome(c)]

\* allow and deny; only "Allow always" goes on to the store.
Settle(c) ==
    /\ phase[c] = "answered"
    /\ decisions' = Record(c)
    /\ \/ /\ answer[c] = "AllowAlways"
          /\ Goto(c, "savingAllowed")
          /\ UNCHANGED <<origin, developerMode, answer, reply, gateVars>>
       \/ /\ answer[c] = "AllowOnce"
          /\ Return(c, "Allow")
       \/ /\ answer[c] \in {"Deny", "Closed", "Err"}
          /\ Return(c, "Deny")
    /\ UNCHANGED <<verified, cooling, forget, file, forgets, restarts>>

\* SitesStore::save_allowed.
SaveAllowed(c) ==
    /\ phase[c] = "savingAllowed"
    /\ file' = [file EXCEPT !.allowed = @ \cup {origin[c]}]
    /\ Return(c, "Allow")
    /\ UNCHANGED <<siteVars, cooling, forget, forgets, restarts>>

\* Mutant: a key the vendor vouched for is kept in memory only.
SaveKey_Forgets(c) ==
    /\ phase[c] = "savingKey"
    /\ Return(c, IF gate[c] # NoCall THEN "Allow" ELSE "Registered")
    /\ UNCHANGED <<siteVars, cooling, forget, file, forgets, restarts>>

\* SitesStore::save_key, at the end of register.
SaveKey(c) ==
    /\ phase[c] = "savingKey"
    /\ file' = [file EXCEPT !.keys = @ \cup {Site(c)}]
    /\ Return(c, IF gate[c] # NoCall THEN "Allow" ELSE "Registered")
    /\ UNCHANGED <<siteVars, cooling, forget, forgets, restarts>>

-----------------------------------------------------------------------------
(* The apikey function, the window, the clock and the process. *)

\* apikey with a key that verifies: register inserts it and goes on to save.
Register(c, o) ==
    /\ phase[c] = "idle"
    /\ origin' = [origin EXCEPT ![c] = o]
    /\ verified' = verified \cup {DomainOf[o]}
    /\ Goto(c, "savingKey")
    /\ UNCHANGED <<developerMode, answer, reply, gateVars, decisions, cooling, forget,
                   file, forgets, restarts>>

Saving == {c \in Calls : phase[c] \in {"savingAllowed", "savingKey"}}

\* forget_site, first the verified key ...
ForgetKey(d) ==
    /\ forget = NoForget
    /\ forgets < MaxForgets
    /\ verified' = verified \ {d}
    /\ forget' = [step |-> "decisions", domain |-> d]
    /\ forgets' = forgets + 1
    /\ UNCHANGED <<callVars, gateVars, decisions, cooling, file, restarts>>

\* ... then every answer recorded for the domain ...
ForgetDecisions ==
    LET removed == {o \in Origins : DomainOf[o] = forget.domain /\ decisions[o] # "none"}
    IN  /\ forget.step = "decisions"
        /\ decisions' = [o \in Origins |-> IF o \in removed THEN "none" ELSE decisions[o]]
        /\ forget' = [step |-> "store", domain |-> forget.domain, removed |-> removed]
        /\ UNCHANGED <<callVars, gateVars, verified, cooling, file,
                       forgets, restarts>>

\* ... then SitesStore::forget.
ForgetStored ==
    /\ forget.step = "store"
    /\ file' = [keys |-> file.keys \ {forget.domain},
                allowed |-> file.allowed \ forget.removed]
    /\ forget' = NoForget
    /\ UNCHANGED <<callVars, gateVars, siteVars, cooling, forgets, restarts>>

\* LOOKUP_RETRY_AFTER has passed.
CooldownEnds(d) ==
    /\ d \in cooling
    /\ cooling' = cooling \ {d}
    /\ UNCHANGED <<callVars, gateVars, siteVars, forget, file,
                   forgets, restarts>>

\* The app ends, at any moment, and starts again from contents: ApikeyService
\* has what the store holds and nothing else.
RestartFrom(contents) ==
    /\ restarts < MaxRestarts
    /\ restarts' = restarts + 1
    /\ file' = contents
    /\ verified' = contents.keys
    /\ decisions' = [o \in Origins |->
                        IF o \in contents.allowed THEN "AllowAlways" ELSE "none"]
    /\ phase' = [c \in Calls |-> IF phase[c] = "idle" THEN "idle" ELSE "done"]
    /\ cooling' = {}
    /\ gates' = [d \in Domains |-> NoCall]
    /\ gate' = [c \in Calls |-> NoCall]
    /\ owner' = [g \in Gates |-> NoCall]
    /\ forget' = NoForget
    /\ origin' = [c \in Calls |-> NullOrigin]
    /\ developerMode' = [c \in Calls |-> FALSE]
    /\ answer' = [c \in Calls |-> "none"]
    /\ UNCHANGED <<reply, forgets>>

\* sites.json is rewritten in place: a crash in the middle of a write leaves a
\* file that does not parse, and the store starts empty.
Restart ==
    \/ RestartFrom(file)
    \/ /\ Saving # {} \/ forget.step = "store"
       /\ RestartFrom(EmptyFile)

CallStep(c) ==
    \/ CheckKey(c)
    \/ CheckDecision(c)
    \/ GateFor(c)
    \/ Lock(c)
    \/ Cooldown(c)
    \/ Lookup(c)
    \/ RecordFailure(c)
    \/ \E result \in Answers : DialogEnds(c, result)
    \/ Settle(c)
    \/ SaveAllowed(c)
    \/ SaveKey(c)

Step ==
    \/ \E c \in Calls :
          \/ StartNoHeader(c)
          \/ \E o \in Origins :
                Register(c, o) \/ \E devMode \in BOOLEAN : Start(c, o, devMode)
          \/ CallStep(c)
    \/ \E d \in Domains : ForgetKey(d) \/ CooldownEnds(d)
    \/ ForgetDecisions
    \/ ForgetStored

Overlap == forget # NoForget /\ Saving # {}

\* What the person has just answered about o.
Answered(o) == {answer'[c] : c \in {d \in Calls : /\ phase[d] = "asking"
                                                  /\ phase'[d] = "answered"
                                                  /\ origin[d] = o}}

Given == [o \in Origins |-> given[o] \cup (Answered(o) \ {"Err"})]

Next ==
    \/ Step /\ given' = Given /\ overlapped' = (overlapped \/ Overlap')
    \/ Restart /\ UNCHANGED given /\ overlapped' = FALSE

Spec == Init /\ [][Next]_allVars

\* A call that has begun goes on: the runtime polls it, the vendor's answer is
\* waited for at most LOOKUP_TIMEOUT, and the broker always returns
\* (UiBroker!EveryCallReturns).
FairSpec == Spec /\ \A c \in Calls : WF_vars(CallStep(c))

-----------------------------------------------------------------------------

Inside(c) == gate[c] # NoCall /\ owner[gate[c]] = c

\* However turnstiles are pruned, one call at a time per domain is past its
\* turnstile (comment on ApikeyService.gates).
OneAtATimePerSite ==
    \A c, d \in Calls : Inside(c) /\ Inside(d) /\ Site(c) = Site(d) => c = d

\* A site the person has answered is not asked about again, and a lookup that
\* failed is not repeated within LOOKUP_RETRY_AFTER, although both checks are
\* made before the awaits they protect (doc of decide).
NothingAskedTwice ==
    \A c \in Calls :
        /\ phase[c] \in {"lookup", "asking"} => decisions[origin[c]] = "none"
        /\ phase[c] = "lookup" => Site(c) \notin cooling

\* A site is allowed, in memory or in sites.json and so after a restart too,
\* only by the answer the person gave about that very origin, and refused for
\* good only after a panel about that origin that did not time out: what other
\* calls, other origins of the site and dialogs nobody saw (comment in decide
\* on the Err branch) bring about is never on record.
RecordsComeFromThePerson ==
    \A o \in Origins :
        /\ decisions[o] \in {"AllowAlways", "AllowOnce"} => decisions[o] \in given[o]
        /\ decisions[o] = "Deny" => given[o] \cap {"Deny", "Closed"} # {}
        /\ o \in file.allowed => "AllowAlways" \in given[o]

\* "Any other way this returns Deny without the person having actually been
\* asked and said so - the dialog cancelled, ... - refuses this one call without
\* recording anything" (doc of decide).
OnlyChosenRefusalsStay ==
    \A o \in Origins : decisions[o] = "Deny" => "Deny" \in given[o]

Quiet == Saving = {} /\ forget = NoForget

AlwaysAllowed == {o \in Origins : decisions[o] = "AllowAlways"}

\* With no save or forget under way, sites.json holds what memory holds: a
\* restart loses nothing that lasts and revives nothing, as long as no
\* forget_site ran at the same time as a save.
StoreMatchesMemory ==
    Quiet /\ ~overlapped => file.keys = verified /\ file.allowed = AlwaysAllowed

\* Doc of forget_site: a forgotten site is "removed from the store as well, so
\* it does not come back on the next start".
ForgottenStaysForgotten ==
    Quiet => file.keys \subseteq verified /\ file.allowed \subseteq AlwaysAllowed

\* Every call that has begun is decided, whatever site it waits behind.
EveryCallIsDecided ==
    \A c \in Calls : phase[c] # "idle" ~> phase[c] = "done"

=============================================================================
