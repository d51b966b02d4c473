------------------------- MODULE TlsMaterialProofs -------------------------
(***************************************************************************)
(* Theorems about TlsMaterial for any processes and any number of faults.  *)
(* Its files have names all processes share, so that a generation ends     *)
(* with what it made in them rests on two facts: until some process takes  *)
(* a lock for stale, at most one process is past the lock; and what that   *)
(* one has written so far is what the names show.                          *)
(***************************************************************************)
EXTENDS TlsMaterial, FiniteSetTheorems, TLAPS

\* A process that generates holds the lock, and no other generates.
LockInv ==
    /\ \A p \in Generating : lock # "none"
    /\ \A p, q \in Generating : p = q

\* A generation finds under each name what it put there.
WrittenInv == \A p \in Generating :
    /\ cert[p] # None /\ key[p] = cert[p]
    /\ pc[p] = "rename_key" => dir["key.tmp"] = key[p]
    /\ pc[p] \in {"sync_key", "write_cert", "rename_cert", "sync_cert", "unlock"} => dir["key"] = key[p]
    /\ pc[p] = "rename_cert" => dir["cert.tmp"] = cert[p]
    /\ pc[p] \in {"sync_cert", "unlock"} => dir["cert"] = cert[p]

\* And once synced, a power cut leaves that and nothing older.
SyncedInv == \A p \in Generating :
    /\ pc[p] \in {"write_cert", "rename_cert", "sync_cert", "unlock"} => onDisk["key"] = {key[p]}
    /\ pc[p] = "unlock" => onDisk["cert"] = {cert[p]}

TlsInv == TypeOK /\ (~cleared => LockInv /\ WrittenInv /\ SyncedInv)

-----------------------------------------------------------------------------

\* What a function on a finite set takes as values is a finite set.
LEMMA FiniteImage ==
    ASSUME NEW S, IsFiniteSet(S), NEW T, NEW f \in [S -> T]
    PROVE  IsFiniteSet({f[x] : x \in S})
<1>1. f \in Surjection(S, {f[x] : x \in S})
  BY DEF Surjection
<1> QED
  BY <1>1, FS_Surjection

LEMMA NamesFinite == IsFiniteSet(Names)
<1>1. Names = ({"key"} \cup {"cert"}) \cup ({"key.tmp"} \cup {"cert.tmp"})
  BY DEF Names
<1>2. \A x : IsFiniteSet({x})
  BY FS_Singleton
<1>3. IsFiniteSet({"key"} \cup {"cert"}) /\ IsFiniteSet({"key.tmp"} \cup {"cert.tmp"})
  BY <1>2, FS_Union
<1> QED
  BY <1>1, <1>3, FS_Union

\* A new pair is one that no file, none of a power cut's leavings and no
\* process has: Pairs never runs out, and CHOOSE always finds one.
LEMMA NewPairIsNew == TypeOK => NewPair \in Pairs /\ NewPair \notin InUse
<1> SUFFICES ASSUME TypeOK PROVE NewPair \in Pairs /\ NewPair \notin InUse
  OBVIOUS
<1> DEFINE Values == Pairs \cup {None}
<1>1. /\ dir \in [Names -> Values] /\ onDisk \in [Names -> SUBSET Values]
      /\ cert \in [Processes -> Values] /\ key \in [Processes -> Values]
      /\ \A n \in Names : IsFiniteSet(onDisk[n])
  BY DEF TypeOK
<1> HIDE DEF Values
<1>2. IsFiniteSet(UNION {onDisk[n] : n \in Names})
  <2>1. IsFiniteSet({onDisk[n] : n \in Names})
    BY <1>1, FiniteImage, NamesFinite
  <2>2. \A D \in {onDisk[n] : n \in Names} : IsFiniteSet(D)
    BY <1>1
  <2> QED
    BY <2>1, <2>2, FS_UNION
<1>3. IsFiniteSet({dir[n] : n \in Names})
  <2>1. dir \in [Names -> Values]
    BY <1>1
  <2> QED
    BY <2>1, FiniteImage, NamesFinite
<1>4. IsFiniteSet({cert[p] : p \in Processes}) /\ IsFiniteSet({key[p] : p \in Processes})
  <2>1. \A f \in [Processes -> Values] : IsFiniteSet({f[p] : p \in Processes})
    BY FiniteImage, TlsAssumption
  <2> QED
    BY <1>1, <2>1
<1>5. IsFiniteSet(InUse)
  BY <1>2, <1>3, <1>4, FS_Union DEF InUse
<1>6. Cardinality(InUse) \in Nat
  BY <1>5, FS_CardinalityType
<1>7. ~(0 .. Cardinality(InUse) \subseteq InUse)
  <2> SUFFICES ASSUME 0 .. Cardinality(InUse) \subseteq InUse PROVE FALSE
    OBVIOUS
  <2>1. Cardinality(0 .. Cardinality(InUse)) = Cardinality(InUse) + 1
    BY <1>6, FS_Interval
  <2>2. Cardinality(0 .. Cardinality(InUse)) <= Cardinality(InUse)
    BY <1>5, FS_Subset
  <2> QED
    BY <1>6, <2>1, <2>2
<1>8. NewPair \in 0 .. Cardinality(InUse) /\ NewPair \notin InUse
  BY <1>7 DEF NewPair
<1> QED
  BY <1>6, <1>8 DEF Pairs

\* What a power cut may show is a file of the disk.
LEMMA DiskValues == TypeOK => UNION {onDisk[n] : n \in Names} \subseteq Pairs \cup {None}
BY DEF TypeOK

LEMMA TlsInit == Init => TlsInv
<1> SUFFICES ASSUME Init PROVE TlsInv
  OBVIOUS
<1>1. PICK c, k \in {None, 0, 1} :
          dir = [n \in Names |-> CASE n = "cert" -> c [] n = "key" -> k [] OTHER -> None]
  BY DEF Init
<1>2. \A n \in Names : dir[n] \in {c, k, None}
  BY <1>1 DEF Names
<1>3. dir \in [Names -> Pairs \cup {None}]
  BY <1>1, <1>2 DEF Pairs
<1>4. \A n \in Names : onDisk[n] = {dir[n]} /\ IsFiniteSet(onDisk[n])
  BY FS_Singleton DEF Init
<1>5. TypeOK
  <2>1. onDisk \in [Names -> SUBSET (Pairs \cup {None})]
    BY <1>3 DEF Init
  <2>2. cert \in [Processes -> Pairs \cup {None}] /\ key \in [Processes -> Pairs \cup {None}]
    BY DEF Init
  <2>3. cleared \in BOOLEAN
    BY DEF Init
  <2>4. pc \in [Processes -> {"idle"}] /\ lock = "none" /\ faults \in 0 .. MaxFaults
    BY TlsAssumption DEF Init
  <2> QED
    BY <1>3, <1>4, <2>1, <2>2, <2>3, <2>4 DEF TypeOK
<1>6. Generating = {}
  BY DEF Init, Generating, Making
<1> QED
  BY <1>5, <1>6 DEF TlsInv, LockInv, WrittenInv, SyncedInv

LEMMA TypeStep == TypeOK /\ [Next]_vars => TypeOK'
<1> SUFFICES ASSUME TypeOK, [Next]_vars PROVE TypeOK'
  OBVIOUS
<1> USE TlsAssumption DEF TypeOK, Goto, Forget, global, local, Making
<1>1. ASSUME NEW p \in Processes, Start(p) PROVE TypeOK'
  BY <1>1 DEF Start
<1>2. ASSUME NEW p \in Processes, NEW at, NEW absent \in {"lock", "wait_cert"},
             NEW next \in {"read_key", "wait_key"}, ReadCert(p, at, absent, next)
      PROVE  TypeOK'
  BY <1>2 DEF ReadCert, Names
<1>3. ASSUME NEW p \in Processes, NEW at, NEW absent \in {"lock", "wait_cert"},
             NEW next \in {"validate", "validate_made"}, ReadKey(p, at, absent, next)
      PROVE  TypeOK'
  BY <1>3 DEF ReadKey, Names
<1>4. ASSUME NEW p \in Processes, ReadPair(p) \/ WaitForPair(p) PROVE TypeOK'
  BY <1>2, <1>3, <1>4 DEF ReadPair, WaitForPair
<1>5. ASSUME NEW p \in Processes, Validate(p) PROVE TypeOK'
  BY <1>5 DEF Validate
<1>6. ASSUME NEW p \in Processes, TakeLock(p) PROVE TypeOK'
  BY <1>6, NewPairIsNew DEF TakeLock
<1>7. ASSUME NEW p \in Processes, FindLock(p) \/ JudgeLock(p) \/ ClearLock(p) \/ GiveUpWaiting(p)
      PROVE  TypeOK'
  BY <1>7 DEF FindLock, JudgeLock, ClearLock, GiveUpWaiting
<1>8. ASSUME NEW p \in Processes, NEW at, NEW name \in Names, NEW made \in Pairs \cup {None},
             NEW next \in Making, Write(p, at, name, made, next)
      PROVE  TypeOK'
  <2>1. /\ dir' = [dir EXCEPT ![name] = made]
        /\ onDisk' = [onDisk EXCEPT ![name] = @ \cup {made}]
        /\ pc' = [pc EXCEPT ![p] = next]
        /\ UNCHANGED <<cert, key, lock, cleared, faults>>
    BY <1>8 DEF Write
  <2>2. \A n \in Names : IsFiniteSet(onDisk'[n]) /\ dir'[n] \in onDisk'[n]
    BY <2>1, FS_AddElement
  <2> QED
    BY <2>1, <2>2
<1>9. ASSUME NEW p \in Processes, NEW at, NEW from \in Names, NEW to \in Names, from # to,
             NEW next \in Making, Rename(p, at, from, to, next)
      PROVE  TypeOK'
  <2>1. /\ dir' = [dir EXCEPT ![to] = dir[from], ![from] = None]
        /\ onDisk' = [onDisk EXCEPT ![to] = @ \cup {dir[from]}, ![from] = @ \cup {None}]
        /\ pc' = [pc EXCEPT ![p] = next]
        /\ UNCHANGED <<cert, key, lock, cleared, faults>>
    BY <1>9 DEF Rename
  <2>2. \A n \in Names : IsFiniteSet(onDisk'[n]) /\ dir'[n] \in onDisk'[n]
    BY <1>9, <2>1, FS_AddElement
  <2> QED
    BY <2>1, <2>2
<1>10. ASSUME NEW p \in Processes, NEW at, NEW next \in Making, SyncDirectory(p, at, next)
       PROVE  TypeOK'
  <2>1. onDisk' = [n \in Names |-> {dir[n]}] /\ UNCHANGED <<cert, key, dir, lock, cleared, faults>>
        /\ pc' = [pc EXCEPT ![p] = next]
    BY <1>10 DEF SyncDirectory
  <2>2. \A n \in Names : IsFiniteSet(onDisk'[n]) /\ dir'[n] \in onDisk'[n]
    BY <2>1, FS_Singleton
  <2> QED
    BY <2>1, <2>2
<1>11. ASSUME NEW p \in Processes, WriteKey(p) \/ WriteCert(p) PROVE TypeOK'
  BY <1>8, <1>9, <1>10, <1>11 DEF WriteKey, WriteCert, Names
<1>12. ASSUME NEW p \in Processes, Unlock(p) PROVE TypeOK'
  BY <1>12 DEF Unlock
<1>13. ASSUME NEW p \in Processes, GiveUp(p), faults' \in 0 .. MaxFaults PROVE TypeOK'
  <2>1. /\ dir' \in [Names -> Pairs \cup {None}]
        /\ onDisk' = [n \in Names |-> onDisk[n] \cup {dir'[n]}]
        /\ lock' = "none" /\ pc' = [pc EXCEPT ![p] = "idle"] /\ cleared' = cleared
        /\ cert' = [cert EXCEPT ![p] = None] /\ key' = [key EXCEPT ![p] = None]
    BY <1>13 DEF GiveUp
  <2>2. \A n \in Names : IsFiniteSet(onDisk'[n]) /\ dir'[n] \in onDisk'[n]
    BY <2>1, FS_AddElement
  <2> QED
    BY <1>13, <2>1, <2>2
<1>14. ASSUME NEW p \in Processes, RenameFails(p) \/ GenerateFails(p) PROVE TypeOK'
  BY <1>13, <1>14 DEF RenameFails, GenerateFails
<1>15. CASE LockAges \/ HolderIsSlow
  BY <1>15 DEF LockAges, HolderIsSlow
<1>16. ASSUME NEW p \in Processes, Killed(p) PROVE TypeOK'
  BY <1>16 DEF Killed
<1>17. CASE PowerCut
  <2>1. /\ dir' \in [Names -> UNION {onDisk[n] : n \in Names}]
        /\ onDisk' = [n \in Names |-> {dir'[n]}]
        /\ \A n \in Names : dir'[n] \in onDisk[n]
    BY <1>17 DEF PowerCut
  <2>2. \A n \in Names : IsFiniteSet(onDisk'[n]) /\ dir'[n] \in onDisk'[n]
    BY <2>1, FS_Singleton
  <2>3. dir' \in [Names -> Pairs \cup {None}]
    BY <2>1
  <2> QED
    BY <1>17, <2>1, <2>2, <2>3 DEF PowerCut
<1>18. CASE UNCHANGED vars
  BY <1>18 DEF vars
<1> HIDE DEF TypeOK
<1> QED
  BY <1>1, <1>4, <1>5, <1>6, <1>7, <1>11, <1>12, <1>14, <1>15, <1>16, <1>17, <1>18 DEF Next, Step

-----------------------------------------------------------------------------

Ours == LockInv /\ WrittenInv /\ SyncedInv

\* A step of a process that does not generate leaves the generation alone.
LEMMA Beside ==
    ASSUME Ours, UNCHANGED <<dir, onDisk>>, lock' = "none" => lock = "none",
           \A q \in Processes : pc'[q] \in Making =>
               pc'[q] = pc[q] /\ cert'[q] = cert[q] /\ key'[q] = key[q]
    PROVE  Ours'
<1>1. \A q \in Processes : q \in Generating' => q \in Generating /\ pc'[q] = pc[q]
  BY DEF Generating
<1>2. LockInv'
  BY <1>1 DEF Ours, LockInv, Generating
<1>3. WrittenInv'
  BY <1>1 DEF Ours, WrittenInv, Generating
<1>4. SyncedInv'
  BY <1>1 DEF Ours, SyncedInv, Generating
<1> QED
  BY <1>2, <1>3, <1>4 DEF Ours

\* Nor is there anything to say where no process is left generating.
LEMMA Nobody ==
    ASSUME \A q \in Processes : pc'[q] \notin Making
    PROVE  Ours'
BY DEF Ours, LockInv, WrittenInv, SyncedInv, Generating

\* While one process generates, its own progress is all there is to say.
LEMMA Alone ==
    ASSUME TypeOK, Ours, NEW p \in Processes, p \in Generating, NEW next \in Making, Goto(p, next),
           lock' # "none", UNCHANGED <<cert, key>>,
           next = "rename_key" => dir'["key.tmp"] = key[p],
           next \in {"sync_key", "write_cert", "rename_cert", "sync_cert", "unlock"} => dir'["key"] = key[p],
           next = "rename_cert" => dir'["cert.tmp"] = cert[p],
           next \in {"sync_cert", "unlock"} => dir'["cert"] = cert[p],
           next \in {"write_cert", "rename_cert", "sync_cert", "unlock"} => onDisk'["key"] = {key[p]},
           next = "unlock" => onDisk'["cert"] = {cert[p]}
    PROVE  Ours'
<1>1. \A q \in Processes : q # p => pc'[q] \notin Making
  BY DEF Goto, TypeOK, Ours, LockInv, Generating
<1>2. pc'[p] = next /\ Generating' = {p}
  BY <1>1 DEF Goto, TypeOK, Generating
<1>3. LockInv'
  BY <1>2 DEF LockInv
<1>4. WrittenInv'
  BY <1>2 DEF WrittenInv, Ours
<1>5. SyncedInv'
  BY <1>2 DEF SyncedInv
<1> QED
  BY <1>3, <1>4, <1>5 DEF Ours

\* What a generation does itself, it does in its order.
LEMMA GenerationStep ==
    ASSUME TypeOK, Ours, NEW p \in Processes, WriteKey(p) \/ WriteCert(p)
    PROVE  Ours'
<1> USE DEF Names
<1>1. pc[p] \in Making => p \in Generating /\ lock # "none" /\ key[p] = cert[p]
  BY DEF Ours, LockInv, WrittenInv, Generating
<1>2. /\ pc[p] \in Making /\ UNCHANGED <<cert, key, lock>>
      /\ \E next \in Making : Goto(p, next)
  BY DEF WriteKey, WriteCert, Write, Rename, SyncDirectory, Making
<1>3. CASE Write(p, "write_key", "key.tmp", key[p], "rename_key")
  <2>1. Goto(p, "rename_key") /\ dir'["key.tmp"] = key[p]
    BY <1>3 DEF Write, TypeOK
  <2> QED
    BY <1>1, <1>2, <2>1, Alone DEF Making
<1>4. CASE Rename(p, "rename_key", "key.tmp", "key", "sync_key")
  <2>1. Goto(p, "sync_key") /\ dir["key.tmp"] = key[p] /\ pc[p] = "rename_key"
    BY <1>1, <1>2, <1>4 DEF Rename, Ours, WrittenInv
  <2>2. dir'["key"] = key[p]
    BY <1>4, <2>1 DEF Rename, TypeOK
  <2> QED
    BY <1>1, <1>2, <2>1, <2>2, Alone DEF Making
<1>5. CASE SyncDirectory(p, "sync_key", "write_cert")
  <2>1. Goto(p, "write_cert") /\ dir["key"] = key[p] /\ dir' = dir /\ onDisk'["key"] = {dir["key"]}
    BY <1>1, <1>2, <1>5 DEF SyncDirectory, Ours, WrittenInv
  <2> QED
    BY <1>1, <1>2, <2>1, Alone DEF Making
<1>6. CASE Write(p, "write_cert", "cert.tmp", cert[p], "rename_cert")
  <2>1. Goto(p, "rename_cert") /\ dir'["cert.tmp"] = cert[p] /\ pc[p] = "write_cert"
        /\ dir'["key"] = dir["key"] /\ onDisk'["key"] = onDisk["key"]
    BY <1>6 DEF Write, TypeOK
  <2>2. dir["key"] = key[p] /\ onDisk["key"] = {key[p]}
    BY <1>1, <1>2, <2>1 DEF Ours, WrittenInv, SyncedInv
  <2> QED
    BY <1>1, <1>2, <2>1, <2>2, Alone DEF Making
<1>7. CASE Rename(p, "rename_cert", "cert.tmp", "cert", "sync_cert")
  <2>1. Goto(p, "sync_cert") /\ pc[p] = "rename_cert" /\ dir'["cert"] = dir["cert.tmp"]
        /\ dir'["key"] = dir["key"] /\ onDisk'["key"] = onDisk["key"]
    BY <1>7 DEF Rename, TypeOK
  <2>2. dir["key"] = key[p] /\ onDisk["key"] = {key[p]} /\ dir["cert.tmp"] = cert[p]
    BY <1>1, <1>2, <2>1 DEF Ours, WrittenInv, SyncedInv
  <2> QED
    BY <1>1, <1>2, <2>1, <2>2, Alone DEF Making
<1>8. CASE SyncDirectory(p, "sync_cert", "unlock")
  <2>1. Goto(p, "unlock") /\ pc[p] = "sync_cert" /\ dir' = dir
        /\ onDisk'["key"] = {dir["key"]} /\ onDisk'["cert"] = {dir["cert"]}
    BY <1>8 DEF SyncDirectory
  <2>2. dir["key"] = key[p] /\ dir["cert"] = cert[p]
    BY <1>1, <1>2, <2>1 DEF Ours, WrittenInv
  <2> QED
    BY <1>1, <1>2, <2>1, <2>2, Alone DEF Making
<1> QED
  BY <1>3, <1>4, <1>5, <1>6, <1>7, <1>8 DEF WriteKey, WriteCert

\* The lock is taken only while nobody generates.
LEMMA TakeLockStep ==
    ASSUME TypeOK, Ours, NEW p \in Processes, TakeLock(p)
    PROVE  Ours'
<1>1. \A q \in Processes : pc[q] \notin Making
  BY DEF TakeLock, Ours, LockInv, Generating
<1>2. pc'[p] = "write_key" /\ Generating' = {p} /\ lock' = "there"
  BY <1>1 DEF TakeLock, Goto, TypeOK, Generating, Making
<1>3. cert'[p] = NewPair /\ key'[p] = NewPair /\ NewPair # None
  BY NewPairIsNew, TlsAssumption DEF TakeLock, TypeOK, Pairs
<1> QED
  BY <1>2, <1>3 DEF Ours, LockInv, WrittenInv, SyncedInv

\* A generation that ends, however it ends, leaves nobody generating.
LEMMA EndStep ==
    ASSUME TypeOK, Ours, NEW p \in Processes, Unlock(p) \/ RenameFails(p) \/ GenerateFails(p)
    PROVE  Ours'
<1>1. p \in Generating /\ (Goto(p, "validate_made") \/ Goto(p, "idle"))
  BY DEF Unlock, RenameFails, GenerateFails, GiveUp, Generating, Making
<1>2. \A q \in Processes : pc'[q] \notin Making
  BY <1>1 DEF Goto, TypeOK, Ours, LockInv, Generating, Making
<1> QED
  BY <1>2, Nobody

LEMMA OursStep ==
    ASSUME TypeOK, Ours, [Next]_vars, ~cleared'
    PROVE  Ours'
<1> USE DEF Goto, Forget, global, local
<1>1. ASSUME NEW p \in Processes, Start(p) PROVE Ours'
  BY <1>1, Beside DEF Start, Making, TypeOK
<1>2. ASSUME NEW p \in Processes, NEW at, NEW absent, NEW next, {absent, next} \cap Making = {},
             ReadCert(p, at, absent, next) \/ ReadKey(p, at, absent, next)
      PROVE  Ours'
  <2>1. /\ UNCHANGED global /\ pc'[p] \notin Making
        /\ \A q \in Processes : q # p => pc'[q] = pc[q] /\ cert'[q] = cert[q] /\ key'[q] = key[q]
    BY <1>2 DEF ReadCert, ReadKey, TypeOK
  <2> QED
    BY <2>1, Beside
<1>3. ASSUME NEW p \in Processes, ReadPair(p) \/ WaitForPair(p) PROVE Ours'
  BY <1>2, <1>3 DEF ReadPair, WaitForPair, Making
<1>4. ASSUME NEW p \in Processes, Validate(p) \/ GiveUpWaiting(p) \/ FindLock(p) \/ JudgeLock(p)
      PROVE  Ours'
  <2>1. /\ UNCHANGED global /\ pc'[p] \notin Making
        /\ \A q \in Processes : q # p => pc'[q] = pc[q] /\ cert'[q] = cert[q] /\ key'[q] = key[q]
    BY <1>4 DEF Validate, GiveUpWaiting, FindLock, JudgeLock, Making, TypeOK
  <2> QED
    BY <2>1, Beside
<1>5. ASSUME NEW p \in Processes, ClearLock(p) PROVE FALSE
  BY <1>5 DEF ClearLock
<1>6. CASE LockAges \/ HolderIsSlow
  BY <1>6, Beside DEF LockAges, HolderIsSlow
<1>7. ASSUME NEW p \in Processes, Killed(p) PROVE Ours'
  <2>1. /\ UNCHANGED <<dir, onDisk, lock>> /\ pc'[p] \notin Making
        /\ \A q \in Processes : q # p => pc'[q] = pc[q] /\ cert'[q] = cert[q] /\ key'[q] = key[q]
    BY <1>7 DEF Killed, Making, TypeOK
  <2> QED
    BY <2>1, Beside
<1>8. CASE PowerCut
  BY <1>8, Nobody DEF PowerCut, Making
<1>9. CASE UNCHANGED vars
  BY <1>9, Beside DEF vars
<1> QED
  BY <1>1, <1>3, <1>4, <1>5, <1>6, <1>7, <1>8, <1>9, GenerationStep, TakeLockStep, EndStep DEF Next, Step

LEMMA ClearedStays == TypeOK /\ [Next]_vars /\ ~cleared' => ~cleared
<1> SUFFICES ASSUME TypeOK, [Next]_vars, ~cleared' PROVE ~cleared
  OBVIOUS
<1>1. ASSUME NEW p \in Processes, Step(p)
      PROVE  cleared' = cleared \/ cleared' = TRUE
  BY <1>1 DEF Step, ReadPair, WaitForPair, ReadCert, ReadKey, Validate, GiveUpWaiting, FindLock, JudgeLock,
              TakeLock, ClearLock, WriteKey, WriteCert, Write, Rename, SyncDirectory, Unlock, RenameFails,
              GiveUp, global
<1>2. ASSUME NEW p \in Processes, Start(p) \/ GenerateFails(p) \/ Killed(p) PROVE cleared' = cleared
  BY <1>2 DEF Start, GenerateFails, GiveUp, Killed, global
<1>3. ASSUME LockAges \/ HolderIsSlow \/ PowerCut \/ UNCHANGED vars PROVE cleared' = cleared
  BY <1>3 DEF LockAges, HolderIsSlow, PowerCut, vars
<1> QED
  BY <1>1, <1>2, <1>3 DEF Next

-----------------------------------------------------------------------------

\* This holds for any processes and faults, from any files a crash left.
THEOREM TlsInvariant == Spec => []TlsInv
<1>1. TlsInv /\ [Next]_vars => TlsInv'
  BY TypeStep, OursStep, ClearedStays DEF TlsInv, Ours
<1> QED
  BY <1>1, TlsInit, PTL DEF Spec

\* The state stays well formed: a process that takes the lock finds a new
\* pair, whatever files and power cuts left.
THEOREM TypeCorrect == Spec => []TypeOK
<1>1. TlsInv => TypeOK
  BY DEF TlsInv
<1> QED
  BY <1>1, TlsInvariant, PTL

\* The lock keeps a generation to itself: unless a lock was taken for stale,
\* the files end up with the pair its own process made (generate,
\* generate_locked).
THEOREM WinnersPair == Spec => []TheWinnersPairIsStored
<1>1. TlsInv => TheWinnersPairIsStored
  BY DEF TlsInv, WrittenInv, Generating, Making, TheWinnersPairIsStored
<1> QED
  BY <1>1, TlsInvariant, PTL

\* And they are that pair for good before the lock is given up: the syncs of
\* write_atomic leave a power cut nothing else to bring back.
WinnersPairIsDurable ==
    \A p \in Processes : pc[p] = "unlock" /\ ~cleared =>
        /\ cert[p] # None /\ cert[p] = key[p]
        /\ onDisk["cert"] = {cert[p]} /\ onDisk["key"] = {key[p]}

\* Nothing a power cut does once a generation gives up its lock loses the
\* pair its process goes on to serve (write_atomic's sync_all and the sync
\* of the directory, before load_or_generate returns).
THEOREM WinnersPairSurvives == Spec => []WinnersPairIsDurable
<1>1. TlsInv => WinnersPairIsDurable
  BY DEF TlsInv, WrittenInv, SyncedInv, Generating, Making, WinnersPairIsDurable
<1> QED
  BY <1>1, TlsInvariant, PTL
==============================================================================
