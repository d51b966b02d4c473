------------------------------ MODULE Requests ------------------------------
(***************************************************************************)
(* The requests the dispatcher runs that ask the person and remember:      *)
(* pki.enroll_pfx_step1 and _step2, and randseed.get, with the sweeps and  *)
(* the setting that change what they remember.                             *)
(*                                                                         *)
(* A call is one request.  Its phases are the stretches between two awaits *)
(* or two locks.  A key pair is named by the step one that generated it,   *)
(* and so is a turnstile by the call that made it.  What only step two's   *)
(* arguments decide (certificates that do not fit) is left to chance; its  *)
(* write is one step here and KeyFile's concern.  seed_from, answers and   *)
(* wrote record history for the properties.                                *)
(***************************************************************************)
EXTENDS Naturals, FiniteSets

CONSTANTS
    Calls,
    NoCall,
    Sites,
    Guids,          \* the process identifiers pages choose
    MaxGates,       \* randseed's MAX_GATES
    MaxOriginState  \* MAX_ORIGIN_STATE

ASSUME RequestsAssumption ==
    /\ NoCall \notin Calls
    /\ Sites \cap (Sites \X Guids) = {}
    /\ MaxGates \in Nat
    /\ MaxOriginState \in Nat

Attempts == Sites \X Guids
Turnstiles == Attempts \cup Sites   \* enrollment_gates and randseed_gates
Functions == {"step1", "step2", "seed"}
NoRequest == [fn |-> "none"]
NoEnrollment == [key |-> NoCall]

VARIABLES
    request, phase, reply,      \* per call
    held,                       \* per step two: the enrollment it peeked at
    enrollments, consents,
    askBefore,                  \* ask_before_randseed
    gates, gate, owner,         \* the maps of turnstiles; per call, the one it holds; who is inside
    answers,                    \* per site: how the seed panels the person saw to the end ended
    wrote                       \* per step two: the key it wrote to a file

gateVars == <<gates, gate, owner>>
siteVars == <<enrollments, consents, askBefore>>
history == <<answers, wrote>>
vars == <<request, phase, reply, held, siteVars, gateVars, history>>

Enrollment == [key : Calls, expired : BOOLEAN]

Init ==
    /\ request = [c \in Calls |-> NoRequest]
    /\ phase = [c \in Calls |-> "idle"]
    /\ reply = [c \in Calls |-> "none"]
    /\ held = [c \in Calls |-> NoCall]
    /\ enrollments = [a \in Attempts |-> NoEnrollment]
    /\ consents = [s \in Sites |-> "none"]
    /\ askBefore = TRUE
    /\ gates = [t \in Turnstiles |-> NoCall]
    /\ gate = [c \in Calls |-> NoCall]
    /\ owner = [c \in Calls |-> NoCall]
    /\ answers = [s \in Sites |-> {}]
    /\ wrote = [c \in Calls |-> NoCall]

\* Mutant: whoever knows the process identifier owns the enrollment.
EnrollmentKey_GuidOnly(r) == <<CHOOSE s \in Sites : TRUE, r.guid>>

\* An enrollment is owned by the site that started it.
EnrollmentKey(r) == <<r.site, r.guid>>

Attempt(c) == EnrollmentKey(request[c])
Turnstile(c) == IF request[c].fn = "seed" THEN request[c].site ELSE Attempt(c)
Pending(a) == enrollments[a] # NoEnrollment

Goto(c, p) == phase' = [phase EXCEPT ![c] = p]

\* A call returns; the guard of its turnstile and its Arc are dropped.
Return(c, r) ==
    /\ Goto(c, "done")
    /\ reply' = [reply EXCEPT ![c] = r]
    /\ gate' = [gate EXCEPT ![c] = NoCall]
    /\ owner' = [g \in Calls |-> IF owner[g] = c THEN NoCall ELSE owner[g]]
    /\ UNCHANGED <<request, held, gates>>

GoOn(c, p) == Goto(c, p) /\ UNCHANGED <<request, reply, held, gateVars>>

---------------------------------------------------------------------------
(* The dispatcher *)

\* Past the arity check and the origin gate, which may refuse the call.
Call(c) ==
    /\ phase[c] = "idle"
    /\ \E fn \in Functions, s \in Sites, g \in Guids :
         /\ request' = [request EXCEPT ![c] = [fn |-> fn, site |-> s, guid |-> g]]
         /\ Goto(c, CASE fn = "step1" -> "sweep" [] fn = "step2" -> "peek" [] fn = "seed" -> "toggle")
    /\ UNCHANGED <<reply, held, gateVars, siteVars, history>>

Fails(c) ==
    /\ phase[c] \in {"disks", "dialog", "generate", "verify", "write", "sign"}
    /\ Return(c, "failed")
    /\ UNCHANGED <<siteVars, history>>

---------------------------------------------------------------------------
(* Turnstiles *)

\* Mutant: a call that waits for a turnstile does not keep it.
InUse_IfLocked(t) == \E c \in Calls : owner[gates[t]] = c

\* strong_count > 1: a call has a clone of the map's Arc.
InUse(t) == \E c \in Calls : gate[c] = gates[t]

Reclaimed(ts) == [t \in Turnstiles |-> IF t \in ts /\ gates[t] # NoCall /\ ~InUse(t) THEN NoCall ELSE gates[t]]

\* randseed's gate_for reclaims beyond MAX_GATES; pki's are swept.
GateFor(c) ==
    LET t == Turnstile(c)
        seedGates == {s \in Sites : gates[s] # NoCall}
        kept == IF request[c].fn = "seed" /\ Cardinality(seedGates) > MaxGates /\ gates[t] = NoCall
                THEN Reclaimed(Sites) ELSE gates
        mine == IF gates[t] = NoCall THEN c ELSE gates[t]
    IN  /\ phase[c] = "gateFor"
        /\ gates' = [kept EXCEPT ![t] = mine]
        /\ gate' = [gate EXCEPT ![c] = mine]
        /\ Goto(c, "queued")
        /\ UNCHANGED <<request, reply, held, owner, siteVars, history>>

Lock(c) ==
    /\ phase[c] = "queued"
    /\ owner[gate[c]] = NoCall
    /\ owner' = [owner EXCEPT ![gate[c]] = c]
    /\ Goto(c, "recheck")
    /\ UNCHANGED <<request, reply, held, gates, gate, siteVars, history>>

---------------------------------------------------------------------------
(* enroll_pfx_step1 *)

SweptEnrollments == [a \in Attempts |->
    IF Pending(a) /\ enrollments[a].expired THEN NoEnrollment ELSE enrollments[a]]

SweepEnrollments(c) ==
    /\ phase[c] = "sweep"
    /\ enrollments' = SweptEnrollments
    /\ GoOn(c, "sweepGates")
    /\ UNCHANGED <<consents, askBefore, history>>

SweepGates(c) ==
    /\ phase[c] = "sweepGates"
    /\ gates' = Reclaimed(Attempts)
    /\ Goto(c, "check")
    /\ UNCHANGED <<request, reply, held, gate, owner, siteVars, history>>

\* Before the turnstile, and again behind it.
CheckEnrollment(c) ==
    /\ request[c].fn = "step1"
    /\ \/ phase[c] \in {"check", "recheck"} /\ Pending(Attempt(c)) /\ Return(c, "exists")
       \/ phase[c] = "check" /\ ~Pending(Attempt(c)) /\ GoOn(c, "disks")
       \/ phase[c] = "recheck" /\ ~Pending(Attempt(c)) /\ GoOn(c, "dialog")
    /\ UNCHANGED <<siteVars, history>>

ListDisks(c) ==
    /\ phase[c] = "disks"
    /\ GoOn(c, "gateFor")
    /\ UNCHANGED <<siteVars, history>>

NewPfxAnswered(c) ==
    /\ request[c].fn = "step1"
    /\ phase[c] = "dialog"
    /\ GoOn(c, "generate")
    /\ UNCHANGED <<siteVars, history>>

\* Through another dialog for an old algorithm, whose cancelling keeps the
\* algorithm; then the CSR and the temporary chain are signed.
GenerateKey(c) ==
    /\ phase[c] = "generate"
    /\ GoOn(c, "insert")
    /\ UNCHANGED <<siteVars, history>>

Insert(c) ==
    /\ phase[c] = "insert"
    /\ enrollments' = [enrollments EXCEPT ![Attempt(c)] = [key |-> c, expired |-> FALSE]]
    /\ Return(c, "ok")
    /\ UNCHANGED <<consents, askBefore, history>>

---------------------------------------------------------------------------
(* enroll_pfx_step2 *)

Peek(c) == LET a == Attempt(c) IN
    /\ phase[c] = "peek"
    /\ \/ /\ Pending(a) /\ ~enrollments[a].expired
          /\ held' = [held EXCEPT ![c] = enrollments[a].key]
          /\ Goto(c, "verify")
          /\ UNCHANGED <<request, reply, gateVars, enrollments>>
       \/ /\ Pending(a) => enrollments[a].expired
          /\ enrollments' = [enrollments EXCEPT ![a] = NoEnrollment]
          /\ Return(c, "notFound")
    /\ UNCHANGED <<consents, askBefore, history>>

Verify(c) ==
    /\ phase[c] = "verify"
    /\ GoOn(c, "write")
    /\ UNCHANGED <<siteVars, history>>

WriteKey(c) ==
    /\ phase[c] = "write"
    /\ wrote' = [wrote EXCEPT ![c] = held[c]]
    /\ GoOn(c, "sign")
    /\ UNCHANGED <<siteVars, answers>>

Sign(c) ==
    /\ phase[c] = "sign"
    /\ GoOn(c, "remove")
    /\ UNCHANGED <<siteVars, history>>

\* By the attempt's key, whichever enrollment is there now.
RemoveEnrollment(c) ==
    /\ phase[c] = "remove"
    /\ enrollments' = [enrollments EXCEPT ![Attempt(c)] = NoEnrollment]
    /\ Return(c, "ok")
    /\ UNCHANGED <<consents, askBefore, history>>

---------------------------------------------------------------------------
(* randseed.get *)

CheckToggle(c) ==
    /\ phase[c] = "toggle"
    /\ \/ ~askBefore /\ Return(c, "okUnasked")
       \/ askBefore /\ GoOn(c, "recorded")
    /\ UNCHANGED <<siteVars, history>>

Recorded(s) == consents[s] # "none"
AsRecorded(s) == IF consents[s] = "allow" THEN "ok" ELSE "denied"

CheckConsent(c) == LET s == request[c].site IN
    /\ request[c].fn = "seed"
    /\ \/ phase[c] \in {"recorded", "recheck"} /\ Recorded(s) /\ Return(c, AsRecorded(s))
       \/ phase[c] = "recorded" /\ ~Recorded(s) /\ GoOn(c, "gateFor")
       \/ phase[c] = "recheck" /\ ~Recorded(s) /\ GoOn(c, "dialog")
    /\ UNCHANGED <<siteVars, history>>

\* Mutant: a dialog nobody answered counts as a refusal.
Record_ErrDenies(outcome) == IF outcome = "err" THEN "deny" ELSE outcome

\* What an outcome of the dialog leaves on record.  The panel's cancellation
\* value is false, so one that was closed reaches consent as Deny.
Record(outcome) ==
    IF outcome = "closed" THEN "deny" ELSE IF outcome = "err" THEN "none" ELSE outcome

\* "closed": the panel was closed, by the person or by quitting, and nothing
\* was chosen; "err": timed out, busy or no user interface.
SeedAnswered(c) == \E outcome \in {"allow", "deny", "closed", "err"} : LET s == request[c].site IN
    /\ request[c].fn = "seed"
    /\ phase[c] = "dialog"
    /\ consents' = [consents EXCEPT ![s] = IF Record(outcome) = "none" THEN @ ELSE Record(outcome)]
    /\ answers' = [answers EXCEPT ![s] = @ \cup ({outcome} \ {"err"})]
    /\ Return(c, IF outcome = "allow" THEN "ok" ELSE "denied")
    /\ UNCHANGED <<enrollments, askBefore, wrote>>

---------------------------------------------------------------------------
(* What runs beside the calls *)

\* ENROLLMENT_TTL passes.
Expire(a) ==
    /\ Pending(a)
    /\ ~enrollments[a].expired
    /\ enrollments' = [enrollments EXCEPT ![a].expired = TRUE]
    /\ UNCHANGED <<request, phase, reply, held, consents, askBefore, gateVars, history>>

\* Dispatcher::sweep, on the server's timer; each map under its own lock.
SweepTimer ==
    /\ \/ enrollments' = SweptEnrollments /\ UNCHANGED <<gates, consents>>
       \/ gates' = Reclaimed(Attempts) /\ UNCHANGED <<enrollments, consents>>
       \/ /\ Cardinality({s \in Sites : Recorded(s)}) > MaxOriginState
          /\ consents' = [s \in Sites |-> "none"]
          /\ UNCHANGED <<enrollments, gates>>
    /\ UNCHANGED <<request, phase, reply, held, askBefore, gate, owner, history>>

SetAskBefore ==
    /\ askBefore' = ~askBefore
    /\ UNCHANGED <<request, phase, reply, held, enrollments, consents, gateVars, history>>

Step1(c) ==
    \/ SweepEnrollments(c) \/ SweepGates(c) \/ CheckEnrollment(c) \/ ListDisks(c)
    \/ NewPfxAnswered(c) \/ GenerateKey(c) \/ Insert(c)
Step2(c) == Peek(c) \/ Verify(c) \/ WriteKey(c) \/ Sign(c) \/ RemoveEnrollment(c)
Seed(c) == CheckToggle(c) \/ CheckConsent(c) \/ SeedAnswered(c)
CallStep(c) == Step1(c) \/ Step2(c) \/ Seed(c) \/ GateFor(c) \/ Lock(c) \/ Fails(c)

Next ==
    \/ \E c \in Calls : Call(c) \/ CallStep(c)
    \/ \E a \in Attempts : Expire(a)
    \/ SweepTimer
    \/ SetAskBefore

Spec == Init /\ [][Next]_vars

---------------------------------------------------------------------------
(* Properties *)

Phases == {"idle", "sweep", "sweepGates", "check", "disks", "gateFor", "queued", "recheck",
           "dialog", "generate", "insert", "peek", "verify", "write", "sign", "remove",
           "toggle", "recorded", "done"}
Requested == [fn : Functions, site : Sites, guid : Guids]

TypeOK ==
    /\ request \in [Calls -> Requested \cup {NoRequest}]
    /\ phase \in [Calls -> Phases]
    /\ reply \in [Calls -> {"none", "ok", "okUnasked", "denied", "exists", "notFound", "failed"}]
    /\ held \in [Calls -> Calls \cup {NoCall}]
    /\ enrollments \in [Attempts -> Enrollment \cup {NoEnrollment}]
    /\ consents \in [Sites -> {"none", "allow", "deny"}]
    /\ askBefore \in BOOLEAN
    /\ gates \in [Turnstiles -> Calls \cup {NoCall}]
    /\ gate \in [Calls -> Calls \cup {NoCall}]
    /\ owner \in [Calls -> Calls \cup {NoCall}]
    /\ answers \in [Sites -> SUBSET {"allow", "deny", "closed"}]
    /\ wrote \in [Calls -> Calls \cup {NoCall}]

\* No step one replaces an enrollment that another one's reply has named
\* (enroll_pfx_step1: "the second silently overwrites the first's entry").
EnrollmentsAreNotReplaced == [][
    \A a \in Attempts : Pending(a) /\ Pending(a)' => enrollments'[a].key = enrollments[a].key]_vars

\* A key written by a step two was generated for the same site and process,
\* by a step one that has replied (Ctx::enrollments).
FinishedByItsOwnSite == \A c \in Calls : wrote[c] # NoCall =>
    LET k == wrote[c] IN
        /\ request[k] = [request[c] EXCEPT !.fn = "step1"]
        /\ reply[k] = "ok"

\* A seed is handed out only to a site the person allowed, or while asking was
\* off; a site is on record as allowed only by that answer, and as refused only
\* after a panel about it that was refused or closed, so never because of a
\* dialog that timed out or of another site's; a site on record is not asked
\* about (consent).
SeedsGoToAllowedSites ==
    /\ \A s \in Sites :
         /\ consents[s] = "allow" => "allow" \in answers[s]
         /\ consents[s] = "deny" => answers[s] \cap {"deny", "closed"} # {}
    /\ \A c \in Calls : request[c].fn = "seed" =>
         /\ phase[c] = "dialog" => ~Recorded(request[c].site)
         /\ reply[c] = "ok" => "allow" \in answers[request[c].site]

=============================================================================
