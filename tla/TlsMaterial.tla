----------------------------- MODULE TlsMaterial -----------------------------
(***************************************************************************)
(* The certificate and key of the TLS listener, shared by the processes    *)
(* of one data directory: load_or_generate, step by step, with the lock    *)
(* file, the temporary names all processes share, failing writes, killed   *)
(* processes and power cuts.                                               *)
(*                                                                         *)
(* A generated pair is a number no file and no process still holds, so a   *)
(* certificate and a key belong together when their numbers agree.         *)
(* Writing and syncing a temporary file is one step.                       *)
(***************************************************************************)
EXTENDS Naturals, FiniteSets

CONSTANTS
    Processes,
    None,
    MaxFaults       \* bound on kills, power cuts, writes that fail and
                    \* holders slower than LOCK_STALE_AFTER

ASSUME TlsAssumption ==
    /\ IsFiniteSet(Processes)
    /\ None \notin Nat
    /\ MaxFaults \in Nat

Names == {"key", "cert", "key.tmp", "cert.tmp"}
Pairs == Nat

VARIABLES
    dir,        \* what each name shows
    onDisk,     \* what a power cut may leave of it
    lock,       \* the lock file: absent, there, or older than LOCK_STALE_AFTER
    pc,
    cert, key,  \* per process: what it has read or made
    cleared,    \* some process has removed a lock it took for stale
    faults

vars == <<dir, onDisk, lock, pc, cert, key, cleared, faults>>
local == <<pc, cert, key>>
global == <<dir, onDisk, lock, cleared, faults>>

Making == {"write_key", "rename_key", "sync_key", "write_cert", "rename_cert", "sync_cert", "unlock"}
Generating == {p \in Processes : pc[p] \in Making}

\* Nothing is stored, or an unusable pair, or a usable one.
Init ==
    /\ \E c, k \in {None, 0, 1} :
         dir = [n \in Names |-> CASE n = "cert" -> c [] n = "key" -> k [] OTHER -> None]
    /\ onDisk = [n \in Names |-> {dir[n]}]
    /\ lock = "none"
    /\ pc = [p \in Processes |-> "idle"]
    /\ cert = [p \in Processes |-> None]
    /\ key = [p \in Processes |-> None]
    /\ cleared = FALSE
    /\ faults = 0

Goto(p, at) == pc' = [pc EXCEPT ![p] = at]

Matches(p) == cert[p] # None /\ cert[p] = key[p]

Forget(p) ==
    /\ cert' = [cert EXCEPT ![p] = None]
    /\ key' = [key EXCEPT ![p] = None]

---------------------------------------------------------------------------
(* load_or_generate *)

Start(p) ==
    /\ pc[p] = "idle"
    /\ Goto(p, "read_cert")
    /\ UNCHANGED <<cert, key, global>>

\* read_pair, from load_or_generate and from the loop that waits for the
\* lock's holder.
ReadCert(p, at, absent, next) ==
    /\ pc[p] = at
    /\ cert' = [cert EXCEPT ![p] = dir["cert"]]
    /\ Goto(p, IF dir["cert"] = None THEN absent ELSE next)
    /\ UNCHANGED <<key, global>>
ReadKey(p, at, absent, next) ==
    /\ pc[p] = at
    /\ key' = [key EXCEPT ![p] = dir["key"]]
    /\ Goto(p, IF dir["key"] = None THEN absent ELSE next)
    /\ UNCHANGED <<cert, global>>

ReadPair(p) ==
    \/ ReadCert(p, "read_cert", "lock", "read_key")
    \/ ReadKey(p, "read_key", "lock", "validate")

\* An unusable pair sends load_or_generate on to generate; what generate
\* returned is validated again, and then a failure is the caller's.
Validate(p) ==
    /\ pc[p] \in {"validate", "validate_made"}
    /\ \/ Matches(p) /\ Goto(p, "serving") /\ UNCHANGED <<cert, key>>
       \/ ~Matches(p) /\ pc[p] = "validate" /\ Goto(p, "lock") /\ UNCHANGED <<cert, key>>
       \/ ~Matches(p) /\ pc[p] = "validate_made" /\ Goto(p, "idle") /\ Forget(p)
    /\ UNCHANGED global

---------------------------------------------------------------------------
(* generate *)

InUse ==
    (UNION {onDisk[n] : n \in Names}) \cup {dir[n] : n \in Names}
        \cup {cert[p] : p \in Processes} \cup {key[p] : p \in Processes}
NewPair == CHOOSE n \in 0 .. Cardinality(InUse) : n \notin InUse

\* Mutant: a lock file that is there is taken all the same.
TakeLock_Shared(p) ==
    /\ pc[p] = "lock"
    /\ lock' = "there"
    /\ cert' = [cert EXCEPT ![p] = NewPair]
    /\ key' = [key EXCEPT ![p] = NewPair]
    /\ Goto(p, "write_key")
    /\ UNCHANGED <<dir, onDisk, cleared, faults>>

\* create_new, and the key pair and certificate made behind it.
TakeLock(p) ==
    /\ pc[p] = "lock"
    /\ lock = "none"
    /\ lock' = "there"
    /\ cert' = [cert EXCEPT ![p] = NewPair]
    /\ key' = [key EXCEPT ![p] = NewPair]
    /\ Goto(p, "write_key")
    /\ UNCHANGED <<dir, onDisk, cleared, faults>>

FindLock(p) ==
    /\ pc[p] = "lock"
    /\ lock # "none"
    /\ Goto(p, "judge")
    /\ UNCHANGED <<cert, key, global>>

\* Mutant: a lock never grows old.
JudgeLock_NeverStale(p) ==
    /\ pc[p] = "judge"
    /\ Goto(p, "wait_cert")
    /\ UNCHANGED <<cert, key, global>>

\* A lock gone by now has no age.
JudgeLock(p) ==
    /\ pc[p] = "judge"
    /\ Goto(p, IF lock = "stale" THEN "clear" ELSE "wait_cert")
    /\ UNCHANGED <<cert, key, global>>

\* By its name: the lock removed may be a newer one by now.
ClearLock(p) ==
    /\ pc[p] = "clear"
    /\ lock' = "none"
    /\ cleared' = TRUE
    /\ Goto(p, "lock")
    /\ UNCHANGED <<cert, key, dir, onDisk, faults>>

WaitForPair(p) ==
    \/ ReadCert(p, "wait_cert", "wait_cert", "wait_key")
    \/ ReadKey(p, "wait_key", "wait_cert", "validate_made")

GiveUpWaiting(p) ==
    /\ pc[p] = "wait_cert"
    /\ Goto(p, "idle")
    /\ Forget(p)
    /\ UNCHANGED global

---------------------------------------------------------------------------
(* generate_locked, write_atomic *)

Write(p, at, name, made, next) ==
    /\ pc[p] = at
    /\ dir' = [dir EXCEPT ![name] = made]
    /\ onDisk' = [onDisk EXCEPT ![name] = @ \cup {made}]
    /\ Goto(p, next)
    /\ UNCHANGED <<cert, key, lock, cleared, faults>>

\* Whatever the temporary name stands for takes the name.
Rename(p, at, from, to, next) ==
    /\ pc[p] = at
    /\ dir[from] # None
    /\ dir' = [dir EXCEPT ![to] = dir[from], ![from] = None]
    /\ onDisk' = [onDisk EXCEPT ![to] = @ \cup {dir[from]}, ![from] = @ \cup {None}]
    /\ Goto(p, next)
    /\ UNCHANGED <<cert, key, lock, cleared, faults>>

SyncDirectory(p, at, next) ==
    /\ pc[p] = at
    /\ onDisk' = [n \in Names |-> {dir[n]}]
    /\ Goto(p, next)
    /\ UNCHANGED <<cert, key, dir, lock, cleared, faults>>

WriteKey(p) ==
    \/ Write(p, "write_key", "key.tmp", key[p], "rename_key")
    \/ Rename(p, "rename_key", "key.tmp", "key", "sync_key")
    \/ SyncDirectory(p, "sync_key", "write_cert")

WriteCert(p) ==
    \/ Write(p, "write_cert", "cert.tmp", cert[p], "rename_cert")
    \/ Rename(p, "rename_cert", "cert.tmp", "cert", "sync_cert")
    \/ SyncDirectory(p, "sync_cert", "unlock")

Unlock(p) ==
    /\ pc[p] = "unlock"
    /\ lock' = "none"
    /\ Goto(p, "validate_made")
    /\ UNCHANGED <<cert, key, dir, onDisk, cleared, faults>>

\* A step of the generation fails: a temporary file is taken away, the
\* lock is removed, the error is the caller's.
GiveUp(p) ==
    /\ dir' = [dir EXCEPT !["key.tmp"] = IF pc[p] \in {"write_key", "rename_key"} THEN None ELSE @,
                          !["cert.tmp"] = IF pc[p] \in {"write_cert", "rename_cert"} THEN None ELSE @]
    /\ onDisk' = [n \in Names |-> onDisk[n] \cup {dir'[n]}]
    /\ lock' = "none"
    /\ Goto(p, "idle")
    /\ Forget(p)
    /\ UNCHANGED cleared

\* Another generation has taken the temporary file.
RenameFails(p) ==
    /\ \/ pc[p] = "rename_key" /\ dir["key.tmp"] = None
       \/ pc[p] = "rename_cert" /\ dir["cert.tmp"] = None
    /\ GiveUp(p)
    /\ UNCHANGED faults

GenerateFails(p) ==
    /\ faults < MaxFaults
    /\ faults' = faults + 1
    /\ pc[p] \in Making \ {"unlock"}
    /\ GiveUp(p)

---------------------------------------------------------------------------

\* Time: a lock that stays grows older than LOCK_STALE_AFTER.
LockAges ==
    /\ lock = "there"
    /\ Generating = {}
    /\ lock' = "stale"
    /\ UNCHANGED <<dir, onDisk, cleared, faults, local>>

\* Its holder is only slow.
HolderIsSlow ==
    /\ lock = "there"
    /\ Generating # {}
    /\ faults < MaxFaults
    /\ faults' = faults + 1
    /\ lock' = "stale"
    /\ UNCHANGED <<dir, onDisk, cleared, local>>

\* Killed, or ended by an error before it has the lock.
Killed(p) ==
    /\ faults < MaxFaults
    /\ pc[p] # "idle"
    /\ faults' = faults + 1
    /\ Goto(p, "idle")
    /\ Forget(p)
    /\ UNCHANGED <<dir, onDisk, lock, cleared>>

PowerCut ==
    /\ faults < MaxFaults
    /\ faults' = faults + 1
    /\ dir' \in {d \in [Names -> UNION {onDisk[n] : n \in Names}] : \A n \in Names : d[n] \in onDisk[n]}
    /\ onDisk' = [n \in Names |-> {dir'[n]}]
    /\ lock' \in {"none", lock}
    /\ pc' = [p \in Processes |-> "idle"]
    /\ cert' = [p \in Processes |-> None]
    /\ key' = [p \in Processes |-> None]
    /\ UNCHANGED cleared

Step(p) ==
    \/ ReadPair(p) \/ Validate(p)
    \/ TakeLock(p) \/ FindLock(p) \/ JudgeLock(p) \/ ClearLock(p)
    \/ WaitForPair(p) \/ GiveUpWaiting(p)
    \/ WriteKey(p) \/ WriteCert(p) \/ RenameFails(p) \/ Unlock(p)

Next ==
    \/ \E p \in Processes : Start(p) \/ Step(p) \/ GenerateFails(p) \/ Killed(p)
    \/ LockAges \/ HolderIsSlow
    \/ PowerCut

Spec == Init /\ [][Next]_vars

\* The program goes on, waiting is bounded (LOCK_WAIT_RETRIES), time passes,
\* and a server that could not start is started again.
FairSpec ==
    /\ Spec
    /\ \A p \in Processes : WF_vars(Start(p)) /\ WF_vars(Step(p)) /\ SF_vars(GiveUpWaiting(p))
    /\ WF_vars(LockAges)

---------------------------------------------------------------------------
(* Properties *)

TypeOK ==
    /\ dir \in [Names -> Pairs \cup {None}]
    /\ onDisk \in [Names -> SUBSET (Pairs \cup {None})]
    /\ \A n \in Names : IsFiniteSet(onDisk[n]) /\ dir[n] \in onDisk[n]
    /\ lock \in {"none", "there", "stale"}
    /\ pc \in [Processes -> Making \cup {"idle", "read_cert", "read_key", "validate", "lock", "judge",
                                        "clear", "wait_cert", "wait_key", "validate_made", "serving"}]
    /\ cert \in [Processes -> Pairs \cup {None}]
    /\ key \in [Processes -> Pairs \cup {None}]
    /\ cleared \in BOOLEAN
    /\ faults \in 0 .. MaxFaults

\* The lock keeps a generation to itself: at its end the files hold the
\* certificate and the key its process made, unless a lock was taken for
\* stale (generate, generate_locked: "this is the only process writing
\* here").
TheWinnersPairIsStored ==
    \A p \in Processes : pc[p] = "unlock" /\ ~cleared =>
        dir["cert"] = cert[p] /\ dir["key"] = key[p]

\* Whatever was stored and whatever a crash left, half a pair or an
\* orphaned lock, every process comes to serve without anyone deleting
\* files by hand (load_or_generate).
EveryProcessServes == \A p \in Processes : <>[](pc[p] = "serving")

=============================================================================
