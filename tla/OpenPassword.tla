---------------------------- MODULE OpenPassword ----------------------------
(***************************************************************************)
(* openimzo_rpc::plugins::keystore::open_with_password and its callers: a  *)
(* page's call on a session opens the session's key file with a remembered *)
(* password or with one the person types.                                  *)
(*                                                                         *)
(* A call is a slot in which one RPC call after another runs: "use" is     *)
(* stored_key_and_chain (create_pkcs7, create_pkcs10_from_key,             *)
(* get_certificate_chain), "verify" is verify_password and "change" is     *)
(* change_password, in pfx and in ytks alike.  Its steps are the regions   *)
(* between two awaits or two locks: everything it read before one may be   *)
(* out of date after it.  A dialog always comes to an end, because the     *)
(* broker (UiBroker) times it out.                                         *)
(***************************************************************************)
EXTENDS Sessions

CONSTANTS
    Calls,
    MaxAttempts  \* dialogs before open_with_password gives up: 3

ASSUME OpenAssumption == MaxAttempts \in Nat \ {0}

VARIABLES
    remember,  \* Ctx::remember_passwords
    secret,    \* the password that opens each file now
    opened,    \* history: every password that has ever opened each file
    call       \* the state of each call

vars == <<now, entries, issued, remember, secret, opened, call>>

Kinds == {"use", "verify", "change"}

Phases == {"idle", "looking", "trying", "refusing", "asking",
           "opening", "remembering", "replacing", "writing", "removing"}

\* may is may_remember; attempts counts the wrong passwords typed; password
\* and ttl are the one in hand and how long it may be kept.
CallState == [phase : Phases,
              change : BOOLEAN,
              id : Ids \cup {None},
              file : Files \cup {None},
              may : BOOLEAN,
              attempts : 0 .. MaxAttempts - 1,
              password : Passwords \cup {None},
              ttl : {RememberedTtl, TransientTtl}]

\* A call with no password in hand and none refused.
Fresh(phase, change, id, file, may) ==
    [phase |-> phase, change |-> change, id |-> id, file |-> file, may |-> may,
     attempts |-> 0, password |-> None, ttl |-> TransientTtl]

\* A slot between two calls.
AtRest == Fresh("idle", FALSE, None, None, FALSE)

TypeOK ==
    /\ StoreTypeOK
    /\ remember \in BOOLEAN
    /\ secret \in [Files -> Passwords]
    /\ opened \in [Files -> SUBSET Passwords]
    /\ call \in [Calls -> CallState]

Init ==
    /\ StoreInit
    /\ remember = TRUE
    /\ secret \in [Files -> Passwords]
    /\ opened = [file \in Files |-> {secret[file]}]
    /\ call = [c \in Calls |-> AtRest]

-----------------------------------------------------------------------------

In(c, phase) == call[c].phase = phase

Becomes(c, state) == call' = [call EXCEPT ![c] = state]

Goes(c, phase) == Becomes(c, [call[c] EXCEPT !.phase = phase])

\* Whether by success or by an error, the call answers its page.
Returns(c) == Becomes(c, AtRest)

\* The file is open: only change_password has more to do.
HasOpened(c) ==
    IF call[c].change
    THEN Becomes(c, Fresh("replacing", TRUE, call[c].id, call[c].file, FALSE))
    ELSE Returns(c)

\* The next dialog of a call that has had so many wrong passwords.
Asks(c, attempts) ==
    Becomes(c, [call[c] EXCEPT !.phase = "asking", !.password = None,
                               !.ttl = TransientTtl, !.attempts = attempts])

OnlyCall == UNCHANGED <<now, entries, issued, remember, secret, opened>>
OnlyStore == UNCHANGED <<now, issued, remember, secret, opened>>

\* load_key: the file is there, its aliases were read without a password.
LoadKey(id, file) ==
    /\ id \notin issued
    /\ issued' = issued \cup {id}
    /\ \E kept \in Survivors : entries' = AfterPut(id, file, kept)
    /\ UNCHANGED <<now, remember, secret, opened, call>>

\* unload_key: require_keystore_type, then remove.  Both leave no expired
\* entry of that id, so the two locks are one step.
UnloadKey(id) ==
    /\ id \in issued
    /\ entries' = AfterRemove(id)
    /\ OnlyStore /\ UNCHANGED call

\* sessions.get at the head of the handler; a dead id is answered at once.
\* open_with_password then reads the setting, which commutes with the
\* look-up and is part of this step; `force` skips both it and the cache.
Begin(c, kind, id) ==
    /\ In(c, "idle")
    /\ id \in issued
    /\ entries' = AfterLookup(id)
    /\ IF Live(id)
       THEN Becomes(c, Fresh(IF kind = "verify" THEN "asking" ELSE "looking",
                             kind = "change", id, entries[id].file,
                             kind # "verify" /\ remember))
       ELSE UNCHANGED call
    /\ OnlyStore

LookForCached(c) ==
    /\ In(c, "looking")
    /\ entries' = AfterCachedPassword(call[c].id)
    /\ IF Remembered(call[c].id) = None THEN Asks(c, 0)
       ELSE Becomes(c, [call[c] EXCEPT !.phase = "trying",
                                       !.password = Remembered(call[c].id)])
    /\ OnlyStore

Opens(c) == secret[call[c].file] = call[c].password

TryCached(c) ==
    /\ In(c, "trying")
    /\ IF Opens(c) THEN HasOpened(c)
       ELSE Becomes(c, [call[c] EXCEPT !.phase = "refusing", !.password = None])
    /\ OnlyCall

\* OpenError::Other: the file has gone, or is not what it was.
ReadFails(c) ==
    /\ In(c, "trying") \/ In(c, "opening")
    /\ Returns(c)
    /\ OnlyCall

ExpireCached(c) ==
    /\ In(c, "refusing")
    /\ entries' = AfterExpirePassword(call[c].id)
    /\ Asks(c, 0)
    /\ OnlyStore

\* The person types a password, and ticks the checkbox or not; without
\* allow_remember there is no checkbox.
Answer(c, password, ticked) ==
    /\ In(c, "asking")
    /\ ticked => call[c].may
    /\ Becomes(c, [call[c] EXCEPT
                       !.phase = "opening", !.password = password,
                       !.ttl = IF ticked THEN RememberedTtl ELSE TransientTtl])
    /\ OnlyCall

\* The person cancels, or the dialog times out; in change_password this is
\* also a pair of new passwords that differ.
Cancel(c) ==
    /\ In(c, "asking") \/ In(c, "replacing")
    /\ Returns(c)
    /\ OnlyCall

\* Mutant: the password is kept whether or not it opened the file.
OpenTyped_Unchecked(c) ==
    /\ In(c, "opening")
    /\ IF call[c].may THEN Goes(c, "remembering") ELSE HasOpened(c)
    /\ OnlyCall

OpenTyped(c) ==
    /\ In(c, "opening")
    /\ Opens(c)
    /\ IF call[c].may THEN Goes(c, "remembering") ELSE HasOpened(c)
    /\ OnlyCall

\* Mutant: the person is asked until the password is right.
WrongTyped_Forever(c) ==
    /\ In(c, "opening")
    /\ ~Opens(c)
    /\ Asks(c, call[c].attempts)
    /\ OnlyCall

WrongTyped(c) ==
    /\ In(c, "opening")
    /\ ~Opens(c)
    /\ IF call[c].attempts + 1 = MaxAttempts THEN Returns(c)
       ELSE Asks(c, call[c].attempts + 1)
    /\ OnlyCall

Remember(c) ==
    /\ In(c, "remembering")
    /\ entries' = AfterRememberPassword(call[c].id, call[c].password, call[c].ttl)
    /\ HasOpened(c)
    /\ OnlyStore

\* change_password: the new password, typed twice.
Replace(c, password) ==
    /\ In(c, "replacing")
    /\ Becomes(c, [call[c] EXCEPT !.phase = "writing", !.password = password])
    /\ OnlyCall

\* overwrite_key_file, which replaces the whole file or fails.
Overwrites(file, password) ==
    /\ secret' = [secret EXCEPT ![file] = password]
    /\ opened' = [opened EXCEPT ![file] = @ \cup {password}]
    /\ UNCHANGED <<now, entries, issued, remember>>

Write(c) ==
    /\ In(c, "writing")
    /\ Overwrites(call[c].file, call[c].password)
    /\ Becomes(c, [call[c] EXCEPT !.phase = "removing", !.password = None])

WriteFails(c) ==
    /\ In(c, "writing")
    /\ Returns(c)
    /\ OnlyCall

Remove(c) ==
    /\ In(c, "removing")
    /\ entries' = AfterRemove(call[c].id)
    /\ Returns(c)
    /\ OnlyStore

\* Settings: the toggle (apply_settings) and "clear the password cache".
SetRemember(on) ==
    /\ remember' = on
    /\ UNCHANGED <<now, entries, issued, secret, opened, call>>

ClearPasswordCache ==
    /\ entries' = AfterClearAll
    /\ OnlyStore /\ UNCHANGED call

\* The app's own change of password writes a file and looks at no session.
ChangePassword(file, password) ==
    /\ Overwrites(file, password)
    /\ UNCHANGED call

\* The server's timer.
Sweep ==
    /\ entries' = AfterSweep
    /\ OnlyStore /\ UNCHANGED call

Tick ==
    /\ now < MaxTime
    /\ now' = now + 1
    /\ UNCHANGED <<entries, issued, remember, secret, opened, call>>

-----------------------------------------------------------------------------

\* What a call does once it has begun, down to its answer.
CallStep(c) ==
    \/ LookForCached(c) \/ TryCached(c) \/ ReadFails(c)
    \/ ExpireCached(c)
    \/ \E p \in Passwords, ticked \in BOOLEAN : Answer(c, p, ticked)
    \/ Cancel(c) \/ OpenTyped(c) \/ WrongTyped(c) \/ Remember(c)
    \/ \E p \in Passwords : Replace(c, p)
    \/ Write(c) \/ WriteFails(c) \/ Remove(c)

Next ==
    \/ \E id \in Ids : UnloadKey(id) \/ \E file \in Files : LoadKey(id, file)
    \/ \E c \in Calls : CallStep(c)
    \/ \E c \in Calls, kind \in Kinds, id \in Ids : Begin(c, kind, id)
    \/ \E on \in BOOLEAN : SetRemember(on)
    \/ \E file \in Files, p \in Passwords : ChangePassword(file, p)
    \/ ClearPasswordCache
    \/ Sweep
    \/ Tick

Spec == Init /\ [][Next]_vars

\* The runtime polls every call, the broker ends every dialog, and the
\* server's ticker goes on while the server runs.
FairSpec ==
    /\ Spec
    /\ \A c \in Calls : WF_vars(CallStep(c))
    /\ WF_vars(Sweep)

-----------------------------------------------------------------------------

(***************************************************************************)
(* A session that has expired, was evicted, unloaded, or was removed with  *)
(* its old password never comes back to life, although a call that found   *)
(* it alive may still be waiting for the person and then remembers a       *)
(* password for it (session.rs, live_entry and remember_password).         *)
(***************************************************************************)
EndedStaysEnded == [][\A id \in issued : ~Live(id) => ~Live(id)']_vars

(***************************************************************************)
(* A remembered password is one that has opened the very file its session  *)
(* stands for, whatever changed the file or the map while the call that    *)
(* remembers it was waiting (keystore.rs, open_with_password).             *)
(***************************************************************************)
KeptOpenedItsFile ==
    \A id \in DOMAIN entries :
        entries[id].password # None =>
            entries[id].password \in opened[entries[id].file]

\* This step gives session id a password, or a later deadline for it.
Keeps(id) ==
    /\ id \in DOMAIN entries'
    /\ entries'[id].password # None
    /\ id \in DOMAIN entries =>
          \/ entries[id].password # entries'[id].password
          \/ entries[id].passwordExpires < entries'[id].passwordExpires

(***************************************************************************)
(* Only a password the person has just typed, in a call that was allowed   *)
(* to remember it, is kept, and for no longer than the person chose: using *)
(* a remembered password never prolongs it, and verify_password leaves     *)
(* nothing behind (keystore.rs, open_with_password's `force`).             *)
(***************************************************************************)
KeptByLeave ==
    [][\A id \in Ids : Keeps(id) =>
         \E c \in Calls :
             /\ In(c, "remembering") /\ call'[c].phase # "remembering"
             /\ call[c].id = id /\ call[c].may
             /\ entries'[id].passwordExpires = now + call[c].ttl]_vars

(***************************************************************************)
(* With the sweeper running, no session and no password stays in memory    *)
(* past its deadline for good (session.rs, sweep).                         *)
(***************************************************************************)
ExpiredIsWiped == \A id \in Ids : Overdue(id) ~> ~Overdue(id)

(***************************************************************************)
(* Every call is answered, however often the person mistypes and whatever  *)
(* becomes of its session meanwhile: "capped at 3, after which the call    *)
(* answers -5000" (keystore.rs, open_with_password).                       *)
(***************************************************************************)
CallsReturn == \A c \in Calls : ~In(c, "idle") ~> In(c, "idle")

=============================================================================
