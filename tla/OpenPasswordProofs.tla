------------------------- MODULE OpenPasswordProofs -------------------------
(***************************************************************************)
(* What is proved of OpenPassword for any number of calls, sessions, files *)
(* and passwords, and for deadlines of any length.                         *)
(***************************************************************************)
EXTENDS OpenPassword, FiniteSetTheorems, TLAPS

(***************************************************************************)
(* The invariant.  ever is, for each file, the passwords that have opened  *)
(* it.  A call holds an id that was issued, and the file it took from the  *)
(* session is the session's for as long as there is one, because no id is  *)
(* given to a second session; the password it is about to have remembered  *)
(* has opened that file.                                                   *)
(***************************************************************************)
GoodMap(map, ids, ever) ==
    /\ DOMAIN map \subseteq ids
    /\ map \in [DOMAIN map -> Entry]
    /\ \A id \in DOMAIN map :
          map[id].password # None => map[id].password \in ever[map[id].file]

GoodCall(state, map, ids, ever) ==
    /\ state \in CallState
    /\ state.phase # "idle" => state.id \in ids /\ state.file \in Files
    /\ state.phase # "idle" /\ state.id \in DOMAIN map
          => map[state.id].file = state.file
    /\ state.phase \in {"opening", "remembering", "writing"}
          => state.password \in Passwords
    /\ state.phase = "remembering"
          => state.may /\ state.password \in ever[state.file]

GoodFiles ==
    /\ secret \in [Files -> Passwords]
    /\ opened \in [Files -> SUBSET Passwords]
    /\ \A file \in Files : secret[file] \in opened[file]

IInv ==
    /\ now \in Nat
    /\ issued \in SUBSET Ids
    /\ remember \in BOOLEAN
    /\ GoodFiles
    /\ GoodMap(entries, issued, opened)
    /\ call \in [Calls -> CallState]
    /\ \A c \in Calls : GoodCall(call[c], entries, issued, opened)

\* What every operation but put and remember_password does to the map:
\* entries go, or lose their password.
Thins(map, thinned) ==
    /\ DOMAIN thinned \subseteq DOMAIN map
    /\ thinned \in [DOMAIN thinned -> Entry]
    /\ \A id \in DOMAIN thinned :
          /\ thinned[id].file = map[id].file
          /\ thinned[id].expires = map[id].expires
          /\ thinned[id].password # None =>
                /\ thinned[id].password = map[id].password
                /\ thinned[id].passwordExpires = map[id].passwordExpires

LEMMA ThinIsGood ==
    ASSUME NEW map, NEW thinned, NEW ids, NEW ever,
           GoodMap(map, ids, ever), Thins(map, thinned)
    PROVE  GoodMap(thinned, ids, ever)
BY DEF GoodMap, Thins

LEMMA ThinCall ==
    ASSUME NEW map, NEW thinned, NEW ids, NEW ever, NEW state,
           GoodCall(state, map, ids, ever), Thins(map, thinned)
    PROVE  GoodCall(state, thinned, ids, ever)
BY DEF GoodCall, Thins

LEMMA ThinSame ==
    ASSUME NEW map, map \in [DOMAIN map -> Entry]
    PROVE  Thins(map, map)
BY DEF Thins

LEMMA BareEntry ==
    ASSUME NEW entry \in Entry
    PROVE  /\ Bare(entry) \in Entry
           /\ Bare(entry).file = entry.file
           /\ Bare(entry).expires = entry.expires
           /\ Bare(entry).password = None
BY DEF Bare, Entry

LEMMA HoldingEntry ==
    ASSUME NEW entry \in Entry, NEW password \in Passwords, NEW deadline \in Nat
    PROVE  /\ Holding(entry, password, deadline) \in Entry
           /\ Holding(entry, password, deadline).file = entry.file
           /\ Holding(entry, password, deadline).expires = entry.expires
           /\ Holding(entry, password, deadline).password = password
           /\ Holding(entry, password, deadline).passwordExpires = deadline
BY DEF Holding, Entry

LEMMA OnlyThins ==
    ASSUME entries \in [DOMAIN entries -> Entry], NEW ids \in SUBSET DOMAIN entries
    PROVE  Thins(entries, Only(ids))
BY DEF Only, Thins

LEMMA WipedThins ==
    ASSUME entries \in [DOMAIN entries -> Entry], NEW ids
    PROVE  Thins(entries, Wiped(ids))
BY BareEntry DEF Wiped, Thins

LEMMA StoreThins ==
    ASSUME entries \in [DOMAIN entries -> Entry], NEW id
    PROVE  /\ Thins(entries, AfterLookup(id))
           /\ Thins(entries, AfterRemove(id))
           /\ Thins(entries, AfterCachedPassword(id))
           /\ Thins(entries, AfterExpirePassword(id))
           /\ Thins(entries, AfterClearAll)
           /\ Thins(entries, AfterSweep)
<1>1. Thins(entries, AfterLookup(id)) /\ Thins(entries, AfterRemove(id))
  BY OnlyThins DEF AfterLookup, AfterRemove
<1>2. Thins(entries, AfterCachedPassword(id)) /\ Thins(entries, AfterExpirePassword(id))
  BY <1>1, WipedThins DEF AfterCachedPassword, AfterExpirePassword
<1>3. Thins(entries, AfterClearAll)
  BY WipedThins DEF AfterClearAll
<1>4. Thins(entries, AfterSweep)
  BY BareEntry DEF AfterSweep, Unexpired, Thins
<1>5. QED BY <1>1, <1>2, <1>3, <1>4

-----------------------------------------------------------------------------

LEMMA FreshState ==
    ASSUME NEW phase \in Phases, NEW change \in BOOLEAN, NEW id \in Ids \cup {None},
           NEW file \in Files \cup {None}, NEW may \in BOOLEAN
    PROVE  /\ Fresh(phase, change, id, file, may) \in CallState
           /\ Fresh(phase, change, id, file, may).phase = phase
           /\ Fresh(phase, change, id, file, may).id = id
           /\ Fresh(phase, change, id, file, may).file = file
BY OpenAssumption DEF Fresh, CallState

\* A fresh state of a call on a session it has found.
LEMMA FreshIsGood ==
    ASSUME NEW map, NEW ids \in SUBSET Ids, NEW ever,
           NEW phase \in {"looking", "asking", "replacing"}, NEW change \in BOOLEAN,
           NEW id \in ids, NEW file \in Files, NEW may \in BOOLEAN,
           id \in DOMAIN map => map[id].file = file
    PROVE  GoodCall(Fresh(phase, change, id, file, may), map, ids, ever)
<1>1. phase \in Phases
  BY DEF Phases
<1>2. QED BY <1>1, FreshState DEF GoodCall

LEMMA RestIsGood ==
    ASSUME NEW map, NEW ids, NEW ever
    PROVE  GoodCall(AtRest, map, ids, ever)
<1>1. AtRest \in CallState /\ AtRest.phase = "idle"
  BY OpenAssumption DEF AtRest, Fresh, CallState, Phases
<1>2. QED BY <1>1 DEF GoodCall

LEMMA InitGood == Init => IInv
<1> SUFFICES ASSUME Init PROVE IInv
  OBVIOUS
<1>1. GoodFiles
  BY DEF Init, GoodFiles
<1>2. GoodMap(entries, issued, opened)
  BY DEF Init, StoreInit, GoodMap
<1>3. \A c \in Calls : GoodCall(call[c], entries, issued, opened)
  BY RestIsGood DEF Init
<1>4. call \in [Calls -> CallState]
  BY <1>3 DEF Init, GoodCall
<1>5. QED BY <1>1, <1>2, <1>3, <1>4 DEF Init, StoreInit, IInv

\* A step of one call that leaves the files alone and only thins the map.
LEMMA OneCall ==
    ASSUME IInv, NEW c \in Calls, NEW state,
           Becomes(c, state), GoodCall(state, entries, issued, opened),
           Thins(entries, entries'),
           UNCHANGED <<now, issued, remember, secret, opened>>
    PROVE  IInv'
<1>1. GoodMap(entries', issued, opened)
  BY ThinIsGood DEF IInv
<1>2. \A d \in Calls : GoodCall(call'[d], entries, issued, opened)
  BY DEF IInv, Becomes
<1>3. \A d \in Calls : GoodCall(call'[d], entries', issued, opened)
  BY <1>2, ThinCall
<1>4. call' \in [Calls -> CallState]
  BY <1>2 DEF IInv, Becomes, GoodCall
<1>5. QED BY <1>1, <1>3, <1>4 DEF IInv, GoodFiles

\* A step of no call that only thins the map.
LEMMA NoCall ==
    ASSUME IInv, Thins(entries, entries'),
           UNCHANGED <<issued, remember, secret, opened, call>>, now' \in Nat
    PROVE  IInv'
<1>1. GoodMap(entries', issued, opened)
  BY ThinIsGood DEF IInv
<1>2. \A d \in Calls : GoodCall(call[d], entries', issued, opened)
  BY ThinCall DEF IInv
<1>3. QED BY <1>1, <1>2 DEF IInv, GoodFiles

-----------------------------------------------------------------------------

LEMMA LoadKeyGood ==
    ASSUME IInv, NEW id \in Ids, NEW file \in Files, LoadKey(id, file)
    PROVE  IInv'
<1>1. PICK kept \in Survivors : entries' = AfterPut(id, file, kept)
  BY DEF LoadKey
<1>2. kept \subseteq DOMAIN entries
  BY DEF Survivors, Unexpired
<1>3. NewEntry(file) \in Entry /\ NewEntry(file).password = None
  BY SessionsAssumption DEF NewEntry, Entry, IInv
<1>4. GoodMap(entries', issued', opened')
  BY <1>1, <1>2, <1>3 DEF LoadKey, IInv, GoodMap, AfterPut
<1>5. ASSUME NEW c \in Calls
      PROVE  GoodCall(call[c], entries', issued', opened')
  <2>1. call[c].phase # "idle" => call[c].id # id
    BY DEF IInv, GoodCall, LoadKey
  <2>2. QED BY <1>1, <1>2, <2>1 DEF IInv, GoodCall, LoadKey, AfterPut
<1>6. QED BY <1>4, <1>5 DEF IInv, GoodFiles, LoadKey

LEMMA BeginGood ==
    ASSUME IInv, NEW c \in Calls, NEW kind \in Kinds, NEW id \in Ids, Begin(c, kind, id)
    PROVE  IInv'
<1>1. Thins(entries, entries')
  BY StoreThins DEF IInv, GoodMap, Begin
<1>2. CASE Live(id)
  <2> DEFINE change == kind = "change"
             may == kind # "verify" /\ remember
             phase == IF kind = "verify" THEN "asking" ELSE "looking"
  <2>1. entries[id].file \in Files
    BY <1>2 DEF Live, IInv, GoodMap, Entry
  <2>2. phase \in {"looking", "asking", "replacing"} /\ change \in BOOLEAN /\ may \in BOOLEAN
    OBVIOUS
  <2>3. Becomes(c, Fresh(phase, change, id, entries[id].file, may))
    BY <1>2 DEF Begin
  <2>4. issued \in SUBSET Ids /\ id \in issued
    BY DEF Begin, IInv
  <2> HIDE DEF change, may, phase
  <2>5. GoodCall(Fresh(phase, change, id, entries[id].file, may), entries, issued, opened)
    BY <2>1, <2>2, <2>4, FreshIsGood
  <2>6. QED BY <1>1, <2>3, <2>5, OneCall DEF Begin, OnlyStore
<1>3. CASE ~Live(id)
  BY <1>1, <1>3, NoCall DEF Begin, OnlyStore, IInv
<1>4. QED BY <1>2, <1>3

\* The states a call may go to that hold nothing but its session.
LEMMA PlainStates ==
    ASSUME IInv, NEW c \in Calls, call[c].phase # "idle",
           NEW phase \in {"refusing", "asking", "removing"},
           NEW attempts \in 0 .. MaxAttempts - 1
    PROVE  /\ GoodCall([call[c] EXCEPT !.phase = phase, !.password = None],
                       entries, issued, opened)
           /\ GoodCall([call[c] EXCEPT !.phase = phase, !.password = None,
                                       !.ttl = TransientTtl, !.attempts = attempts],
                       entries, issued, opened)
           /\ GoodCall(Fresh("replacing", TRUE, call[c].id, call[c].file, FALSE),
                       entries, issued, opened)
<1> DEFINE bare == [call[c] EXCEPT !.phase = phase, !.password = None]
           asking == [call[c] EXCEPT !.phase = phase, !.password = None,
                                     !.ttl = TransientTtl, !.attempts = attempts]
<1>1. GoodCall(call[c], entries, issued, opened) /\ call[c] \in CallState
  BY DEF IInv
<1>2. bare \in CallState /\ bare.phase = phase /\ bare.id = call[c].id /\ bare.file = call[c].file
  BY <1>1 DEF CallState, Phases
<1>3. asking \in CallState /\ asking.phase = phase /\ asking.id = call[c].id /\ asking.file = call[c].file
  BY <1>1 DEF CallState, Phases
<1>4. issued \in SUBSET Ids /\ call[c].id \in issued /\ call[c].file \in Files
  BY <1>1 DEF IInv, GoodCall
<1>5. GoodCall(Fresh("replacing", TRUE, call[c].id, call[c].file, FALSE), entries, issued, opened)
  <2>1. /\ "replacing" \in {"looking", "asking", "replacing"}
        /\ TRUE \in BOOLEAN /\ FALSE \in BOOLEAN
    OBVIOUS
  <2>2. call[c].id \in DOMAIN entries => entries[call[c].id].file = call[c].file
    BY <1>1 DEF GoodCall
  <2>3. QED BY <1>4, <2>1, <2>2, FreshIsGood, Zenon
<1> HIDE DEF bare, asking
<1>6. GoodCall(bare, entries, issued, opened)
  BY <1>1, <1>2 DEF GoodCall
<1>7. GoodCall(asking, entries, issued, opened)
  BY <1>1, <1>3 DEF GoodCall
<1>8. QED BY <1>5, <1>6, <1>7 DEF bare, asking

\* A call that holds a password, and has not said it opened the file.
LEMMA HoldingStates ==
    ASSUME IInv, NEW c \in Calls, call[c].phase # "idle",
           NEW phase \in {"trying", "opening", "writing"},
           NEW password \in Passwords, NEW ttl \in {RememberedTtl, TransientTtl}
    PROVE  /\ GoodCall([call[c] EXCEPT !.phase = phase, !.password = password],
                       entries, issued, opened)
           /\ GoodCall([call[c] EXCEPT !.phase = phase, !.password = password,
                                       !.ttl = ttl],
                       entries, issued, opened)
BY DEF IInv, GoodCall, CallState, Phases

LEMMA HasOpenedGood ==
    ASSUME IInv, NEW c \in Calls, call[c].phase # "idle", HasOpened(c)
    PROVE  \E state : Becomes(c, state) /\ GoodCall(state, entries, issued, opened)
<1>1. 0 \in 0 .. MaxAttempts - 1
  BY OpenAssumption
<1>2. CASE call[c].change
  BY <1>1, <1>2, PlainStates DEF HasOpened
<1>3. CASE ~call[c].change
  BY <1>3, RestIsGood DEF HasOpened, Returns
<1>4. QED BY <1>2, <1>3

\* The steps of a call on the file and the dialogs.
LEMMA CallAloneGood ==
    ASSUME IInv, NEW c \in Calls,
           \/ TryCached(c) \/ ReadFails(c) \/ Cancel(c)
           \/ OpenTyped(c) \/ WrongTyped(c) \/ WriteFails(c)
           \/ \E p \in Passwords, ticked \in BOOLEAN : Answer(c, p, ticked)
           \/ \E p \in Passwords : Replace(c, p)
    PROVE  IInv'
<1>1. call[c].phase # "idle"
  BY DEF TryCached, ReadFails, Cancel, OpenTyped, WrongTyped, WriteFails, Answer,
         Replace, In
<1>2. UNCHANGED <<now, entries, issued, remember, secret, opened>>
  BY DEF TryCached, ReadFails, Cancel, OpenTyped, WrongTyped, WriteFails, Answer,
         Replace, OnlyCall
<1>3. call[c] \in CallState /\ call[c].attempts \in 0 .. MaxAttempts - 1
  BY DEF IInv, CallState
<1>4. SUFFICES \E state : Becomes(c, state) /\ GoodCall(state, entries, issued, opened)
  BY <1>2, ThinSame, OneCall DEF IInv, GoodMap
<1>5. CASE TryCached(c)
  <2>1. CASE Opens(c)
    BY <1>1, <1>5, <2>1, HasOpenedGood DEF TryCached
  <2>2. CASE ~Opens(c)
    BY <1>1, <1>3, <1>5, <2>2, PlainStates DEF TryCached
  <2>3. QED BY <2>1, <2>2
<1>6. CASE ReadFails(c) \/ Cancel(c) \/ WriteFails(c)
  BY <1>6, RestIsGood DEF ReadFails, Cancel, WriteFails, Returns
<1>7. CASE OpenTyped(c)
  <2>1. CASE call[c].may
    <3>1. Becomes(c, [call[c] EXCEPT !.phase = "remembering"])
      BY <1>7, <2>1 DEF OpenTyped, Goes
    <3>2. call[c].password \in opened[call[c].file]
      BY <1>1, <1>7 DEF OpenTyped, Opens, IInv, GoodFiles, GoodCall
    <3>3. call[c].password \in Passwords
      BY <1>7 DEF OpenTyped, In, IInv, GoodCall
    <3>4. GoodCall([call[c] EXCEPT !.phase = "remembering"], entries, issued, opened)
      BY <1>1, <2>1, <3>2, <3>3 DEF IInv, GoodCall, CallState, Phases
    <3>5. QED BY <3>1, <3>4
  <2>2. CASE ~call[c].may
    BY <1>1, <1>7, <2>2, HasOpenedGood DEF OpenTyped
  <2>3. QED BY <2>1, <2>2
<1>8. CASE WrongTyped(c)
  <2>1. CASE call[c].attempts + 1 = MaxAttempts
    BY <1>8, <2>1, RestIsGood DEF WrongTyped, Returns
  <2>2. CASE call[c].attempts + 1 # MaxAttempts
    <3>1. call[c].attempts + 1 \in 0 .. MaxAttempts - 1
      BY <1>3, <2>2, OpenAssumption
    <3>2. QED BY <1>1, <1>8, <2>2, <3>1, PlainStates DEF WrongTyped, Asks
  <2>3. QED BY <2>1, <2>2
<1>9. CASE \E p \in Passwords, ticked \in BOOLEAN : Answer(c, p, ticked)
  BY <1>1, <1>9, HoldingStates DEF Answer
<1>10. CASE \E p \in Passwords : Replace(c, p)
  BY <1>1, <1>3, <1>10, HoldingStates DEF Replace
<1>11. QED BY <1>5, <1>6, <1>7, <1>8, <1>9, <1>10

LEMMA LookForCachedGood ==
    ASSUME IInv, NEW c \in Calls, LookForCached(c)
    PROVE  IInv'
<1>1. call[c].phase # "idle"
  BY DEF LookForCached, In
<1>2. Thins(entries, entries')
  BY StoreThins DEF LookForCached, IInv, GoodMap
<1>3. 0 \in 0 .. MaxAttempts - 1
  BY OpenAssumption
<1>4. CASE Remembered(call[c].id) = None
  BY <1>1, <1>2, <1>3, <1>4, PlainStates, OneCall DEF LookForCached, OnlyStore, Asks
<1>5. CASE Remembered(call[c].id) # None
  <2>1. Remembered(call[c].id) \in Passwords
    BY <1>5 DEF Remembered, Live, IInv, GoodMap, Entry
  <2>2. GoodCall([call[c] EXCEPT !.phase = "trying",
                                 !.password = Remembered(call[c].id)],
                 entries, issued, opened)
    BY <1>1, <2>1, HoldingStates
  <2>3. QED BY <1>2, <1>5, <2>2, OneCall DEF LookForCached, OnlyStore
<1>6. QED BY <1>4, <1>5

LEMMA ExpireCachedGood ==
    ASSUME IInv, NEW c \in Calls, ExpireCached(c)
    PROVE  IInv'
<1>1. call[c].phase # "idle"
  BY DEF ExpireCached, In
<1>2. Thins(entries, entries')
  BY StoreThins DEF ExpireCached, IInv, GoodMap
<1>3. 0 \in 0 .. MaxAttempts - 1
  BY OpenAssumption
<1>4. QED BY <1>1, <1>2, <1>3, PlainStates, OneCall DEF ExpireCached, OnlyStore, Asks

LEMMA RemoveGood ==
    ASSUME IInv, NEW c \in Calls, Remove(c)
    PROVE  IInv'
<1>1. Thins(entries, entries')
  BY StoreThins DEF Remove, IInv, GoodMap
<1>2. QED BY <1>1, RestIsGood, OneCall DEF Remove, OnlyStore, Returns

\* remember_password: the one operation that gives an entry a password.
LEMMA RememberGood ==
    ASSUME IInv, NEW c \in Calls, Remember(c)
    PROVE  IInv'
<1> DEFINE id == call[c].id
<1>1. call[c].phase # "idle"
  BY DEF Remember, In
<1>2. PICK state : Becomes(c, state) /\ GoodCall(state, entries, issued, opened)
  BY <1>1, HasOpenedGood DEF Remember
<1>3. CASE ~Live(id)
  BY <1>2, <1>3, StoreThins, OneCall
     DEF Remember, OnlyStore, AfterRememberPassword, IInv, GoodMap
<1>4. CASE Live(id)
  <2> DEFINE kept == Holding(entries[id], call[c].password, now + call[c].ttl)
  <2>1. entries' = [entries EXCEPT ![id] = kept]
    BY <1>4 DEF Remember, AfterRememberPassword
  <2>2. id \in DOMAIN entries /\ entries[id] \in Entry
    BY <1>4 DEF Live, IInv, GoodMap
  <2>3. /\ call[c].password \in Passwords
        /\ call[c].password \in opened[call[c].file]
        /\ entries[id].file = call[c].file
        /\ call[c].ttl \in Nat
    BY <2>2, SessionsAssumption DEF Remember, In, IInv, GoodCall, CallState
  <2>4. /\ kept \in Entry
        /\ kept.file = entries[id].file
        /\ kept.password = call[c].password
    <3>1. now + call[c].ttl \in Nat
      BY <2>3 DEF IInv
    <3>2. QED BY <2>2, <2>3, <3>1, HoldingEntry
  <2> HIDE DEF kept
  <2>5. GoodMap(entries', issued, opened)
    BY <2>1, <2>2, <2>3, <2>4 DEF IInv, GoodMap
  <2>6. DOMAIN entries' = DOMAIN entries
        /\ \A i \in DOMAIN entries' : entries'[i].file = entries[i].file
    BY <2>1, <2>2, <2>4 DEF IInv, GoodMap
  <2>7. \A d \in Calls : GoodCall(call'[d], entries, issued, opened)
    BY <1>2 DEF IInv, Becomes
  <2>8. \A d \in Calls : GoodCall(call'[d], entries', issued, opened)
    BY <2>6, <2>7 DEF GoodCall
  <2>9. call' \in [Calls -> CallState]
    BY <1>2 DEF IInv, Becomes, GoodCall
  <2>10. UNCHANGED <<now, issued, remember, secret, opened>>
    BY DEF Remember, OnlyStore
  <2>11. QED BY <2>5, <2>8, <2>9, <2>10 DEF IInv, GoodFiles
<1>5. QED BY <1>3, <1>4

\* A file takes a new password, which now has opened it too.
LEMMA OverwritesGood ==
    ASSUME IInv, NEW file \in Files, NEW password \in Passwords,
           Overwrites(file, password),
           call' \in [Calls -> CallState],
           \A c \in Calls : GoodCall(call'[c], entries, issued, opened)
    PROVE  IInv'
<1>1. GoodFiles'
  BY DEF Overwrites, IInv, GoodFiles
<1>2. \A f \in Files : opened[f] \subseteq opened'[f]
  BY DEF Overwrites, IInv, GoodFiles
<1>3. GoodMap(entries', issued', opened')
  BY <1>2 DEF Overwrites, IInv, GoodMap, Entry
<1>4. \A c \in Calls : GoodCall(call'[c], entries, issued, opened')
  BY <1>2 DEF GoodCall
<1>5. QED BY <1>1, <1>3, <1>4 DEF Overwrites, IInv

LEMMA WriteGood ==
    ASSUME IInv, NEW c \in Calls, Write(c)
    PROVE  IInv'
<1>1. call[c].phase # "idle" /\ call[c].password \in Passwords /\ call[c].file \in Files
  BY DEF Write, In, IInv, GoodCall
<1>2. GoodCall([call[c] EXCEPT !.phase = "removing", !.password = None],
               entries, issued, opened)
  <2>1. 0 \in 0 .. MaxAttempts - 1
    BY OpenAssumption
  <2>2. QED BY <1>1, <2>1, PlainStates
<1>3. \A d \in Calls : GoodCall(call'[d], entries, issued, opened)
  BY <1>2 DEF Write, IInv, Becomes
<1>4. call' \in [Calls -> CallState]
  BY <1>2, <1>3 DEF Write, IInv, Becomes, GoodCall
<1>5. QED BY <1>1, <1>3, <1>4, OverwritesGood DEF Write

LEMMA NextGood == IInv /\ [Next]_vars => IInv'
<1> SUFFICES ASSUME IInv, [Next]_vars PROVE IInv'
  OBVIOUS
<1>1. ASSUME NEW id \in Ids, UnloadKey(id) \/ \E file \in Files : LoadKey(id, file)
      PROVE  IInv'
  <2>1. CASE UnloadKey(id)
    BY <2>1, StoreThins, NoCall DEF UnloadKey, OnlyStore, IInv, GoodMap
  <2>2. QED BY <1>1, <2>1, LoadKeyGood
<1>2. ASSUME NEW c \in Calls, CallStep(c)
      PROVE  IInv'
  BY <1>2, CallAloneGood, LookForCachedGood, ExpireCachedGood, RemoveGood, RememberGood,
     WriteGood DEF CallStep
<1>3. CASE \E c \in Calls, kind \in Kinds, id \in Ids : Begin(c, kind, id)
  BY <1>3, BeginGood
<1>4. CASE \E on \in BOOLEAN : SetRemember(on)
  BY <1>4 DEF SetRemember, IInv, GoodFiles
<1>5. CASE ClearPasswordCache \/ Sweep
  BY <1>5, StoreThins, NoCall DEF ClearPasswordCache, Sweep, OnlyStore, IInv, GoodMap
<1>6. CASE Tick
  BY <1>6 DEF Tick, IInv, GoodFiles
<1>7. CASE \E file \in Files, p \in Passwords : ChangePassword(file, p)
  BY <1>7, OverwritesGood DEF ChangePassword, IInv
<1>8. CASE UNCHANGED vars
  BY <1>8 DEF vars, IInv, GoodFiles
<1>9. QED BY <1>1, <1>2, <1>3, <1>4, <1>5, <1>6, <1>7, <1>8 DEF Next

(***************************************************************************)
(* Every reachable state satisfies the invariant.                          *)
(***************************************************************************)
THEOREM Invariance == Spec => []IInv
<1>1. Init => IInv
  BY InitGood
<1>2. IInv /\ [Next]_vars => IInv'
  BY NextGood
<1>3. QED BY <1>1, <1>2, PTL DEF Spec

(***************************************************************************)
(* Every variable keeps its type: no call is ever asked for a password     *)
(* more than MaxAttempts times (keystore.rs, open_with_password).          *)
(***************************************************************************)
THEOREM TypeCorrect == Spec => []TypeOK
<1>1. IInv => TypeOK
  BY DEF IInv, TypeOK, StoreTypeOK, GoodMap, GoodFiles
<1>2. QED BY <1>1, Invariance, PTL

(***************************************************************************)
(* A remembered password has opened the file of the session it is          *)
(* remembered for (keystore.rs, open_with_password and remember_password). *)
(***************************************************************************)
THEOREM KeptOpened == Spec => []KeptOpenedItsFile
<1>1. IInv => KeptOpenedItsFile
  BY DEF IInv, KeptOpenedItsFile, GoodMap
<1>2. QED BY <1>1, Invariance, PTL

-----------------------------------------------------------------------------

\* A step puts a session, remembers a password, or only thins the map.
LEMMA StoreStep ==
    ASSUME IInv, [Next]_vars
    PROVE  \/ /\ Thins(entries, entries')
              /\ UNCHANGED issued
              /\ now' \in {now, now + 1}
           \/ \E id \in Ids, file \in Files : LoadKey(id, file)
           \/ \E c \in Calls : Remember(c)
<1>1. Thins(entries, entries)
  BY ThinSame DEF IInv, GoodMap
<1>2. CASE \E id \in Ids : UnloadKey(id)
  BY <1>2, StoreThins DEF UnloadKey, OnlyStore, IInv, GoodMap
<1>3. ASSUME NEW c \in Calls, CallStep(c), ~Remember(c)
      PROVE  Thins(entries, entries') /\ UNCHANGED <<now, issued>>
  <2>1. CASE LookForCached(c) \/ ExpireCached(c) \/ Remove(c)
    BY <2>1, StoreThins DEF LookForCached, ExpireCached, Remove, OnlyStore, IInv, GoodMap
  <2>2. CASE \/ TryCached(c) \/ ReadFails(c) \/ Cancel(c)
             \/ OpenTyped(c) \/ WrongTyped(c) \/ WriteFails(c) \/ Write(c)
             \/ \E p \in Passwords, ticked \in BOOLEAN : Answer(c, p, ticked)
             \/ \E p \in Passwords : Replace(c, p)
    BY <1>1, <2>2 DEF TryCached, ReadFails, Cancel, OpenTyped, WrongTyped, WriteFails,
                      Write, Overwrites, Answer, Replace, OnlyCall
  <2>3. QED BY <1>3, <2>1, <2>2 DEF CallStep
<1>4. CASE \E c \in Calls, kind \in Kinds, id \in Ids : Begin(c, kind, id)
  BY <1>4, StoreThins DEF Begin, OnlyStore, IInv, GoodMap
<1>5. CASE \E on \in BOOLEAN : SetRemember(on)
  BY <1>1, <1>5 DEF SetRemember
<1>6. CASE ClearPasswordCache \/ Sweep
  BY <1>6, StoreThins DEF ClearPasswordCache, Sweep, OnlyStore, IInv, GoodMap
<1>7. CASE Tick
  BY <1>1, <1>7 DEF Tick
<1>8. CASE \E file \in Files, p \in Passwords : ChangePassword(file, p)
  BY <1>1, <1>8 DEF ChangePassword, Overwrites
<1>9. CASE UNCHANGED vars
  BY <1>1, <1>9 DEF vars
<1>10. QED BY <1>2, <1>3, <1>4, <1>5, <1>6, <1>7, <1>8, <1>9 DEF Next

\* What remember_password leaves of the map.
LEMMA RememberedMap ==
    ASSUME IInv, NEW c \in Calls, Remember(c)
    PROVE  \/ Thins(entries, entries')
           \/ /\ DOMAIN entries' = DOMAIN entries
              /\ \A id \in DOMAIN entries \ {call[c].id} : entries'[id] = entries[id]
              /\ call[c].id \in DOMAIN entries =>
                    /\ entries'[call[c].id].expires = entries[call[c].id].expires
                    /\ entries'[call[c].id].passwordExpires = now + call[c].ttl
<1>1. CASE ~Live(call[c].id)
  BY <1>1, StoreThins DEF Remember, AfterRememberPassword, IInv, GoodMap
<1>2. CASE Live(call[c].id)
  <2> DEFINE kept == Holding(entries[call[c].id], call[c].password, now + call[c].ttl)
  <2>1. entries' = [entries EXCEPT ![call[c].id] = kept]
    BY <1>2 DEF Remember, AfterRememberPassword
  <2>2. entries[call[c].id] \in Entry
    BY <1>2 DEF Live, IInv, GoodMap
  <2>3. call[c].password \in Passwords /\ now + call[c].ttl \in Nat
    BY SessionsAssumption DEF Remember, In, IInv, GoodCall, CallState
  <2>4. /\ kept.expires = entries[call[c].id].expires
        /\ kept.passwordExpires = now + call[c].ttl
    BY <2>2, <2>3, HoldingEntry
  <2> HIDE DEF kept
  <2>5. QED BY <2>1, <2>4
<1>3. QED BY <1>1, <1>2

\* The sessions that were there before a put and still are.
LEMMA LoadedMap ==
    ASSUME IInv, NEW new \in Ids, NEW file \in Files, LoadKey(new, file)
    PROVE  \E kept \in Survivors :
              /\ DOMAIN entries' = kept \cup {new}
              /\ kept \subseteq DOMAIN entries
              /\ new \notin DOMAIN entries
              /\ \A id \in kept : entries'[id] = entries[id]
              /\ entries'[new].password = None
<1>1. PICK kept \in Survivors : entries' = AfterPut(new, file, kept)
  BY DEF LoadKey
<1>2. kept \subseteq DOMAIN entries /\ new \notin DOMAIN entries
  BY DEF Survivors, Unexpired, IInv, GoodMap, LoadKey
<1>3. QED BY <1>1, <1>2 DEF AfterPut, NewEntry

(***************************************************************************)
(* However many sessions there may be, no ended one ever lives again       *)
(* (session.rs, live_entry).                                               *)
(***************************************************************************)
THEOREM NoneRevives == Spec => EndedStaysEnded
<1>1. ASSUME IInv, [Next]_vars
      PROVE  \A id \in issued : ~Live(id) => ~Live(id)'
  <2> SUFFICES ASSUME NEW id \in issued, ~Live(id), id \in DOMAIN entries'
               PROVE  ~(entries'[id].expires > now')
    BY DEF Live
  <2>1. CASE Thins(entries, entries') /\ now' \in {now, now + 1}
    <3>1. id \in DOMAIN entries /\ entries'[id].expires = entries[id].expires
      BY <2>1 DEF Thins
    <3>2. now \in Nat /\ entries[id].expires \in Nat
      BY <1>1, <3>1 DEF IInv, GoodMap, Entry
    <3>3. QED BY <2>1, <3>1, <3>2 DEF Live
  <2>2. ASSUME NEW new \in Ids, NEW file \in Files, LoadKey(new, file)
        PROVE  ~(entries'[id].expires > now')
    <3>1. new # id /\ now' = now
      BY <2>2 DEF LoadKey
    <3>2. id \in DOMAIN entries /\ entries'[id] = entries[id]
      BY <1>1, <2>2, <3>1, LoadedMap
    <3>3. QED BY <3>1, <3>2 DEF Live
  <2>3. ASSUME NEW c \in Calls, Remember(c)
        PROVE  ~(entries'[id].expires > now')
    <3>1. now' = now
      BY <2>3 DEF Remember, OnlyStore
    <3>2. id \in DOMAIN entries /\ entries'[id].expires = entries[id].expires
      BY <1>1, <2>3, RememberedMap DEF Thins
    <3>3. QED BY <3>1, <3>2 DEF Live
  <2>4. QED BY <1>1, <2>1, <2>2, <2>3, StoreStep
<1>2. QED BY <1>1, Invariance, PTL DEF Spec, EndedStaysEnded

(***************************************************************************)
(* A password is kept only by a call that may remember it, for the time    *)
(* the person chose, and never for longer (keystore.rs,                    *)
(* open_with_password).                                                    *)
(***************************************************************************)
THEOREM OnlyByLeave == Spec => KeptByLeave
<1> DEFINE ByLeave(id) ==
      \E c \in Calls :
         /\ In(c, "remembering") /\ call'[c].phase # "remembering"
         /\ call[c].id = id /\ call[c].may
         /\ entries'[id].passwordExpires = now + call[c].ttl
<1>1. ASSUME IInv, [Next]_vars
      PROVE  \A id \in Ids : Keeps(id) => ByLeave(id)
  <2> SUFFICES ASSUME NEW id \in Ids, Keeps(id) PROVE ByLeave(id)
    OBVIOUS
  <2>1. ASSUME Thins(entries, entries') PROVE FALSE
    <3>1. /\ id \in DOMAIN entries
          /\ entries'[id].password = entries[id].password
          /\ entries'[id].passwordExpires = entries[id].passwordExpires
      BY <2>1 DEF Keeps, Thins
    <3>2. entries[id].passwordExpires \in Nat
      BY <1>1, <3>1 DEF IInv, GoodMap, Entry
    <3>3. QED BY <3>1, <3>2 DEF Keeps
  <2>2. ASSUME NEW new \in Ids, NEW file \in Files, LoadKey(new, file) PROVE FALSE
    <3>1. id # new /\ id \in DOMAIN entries /\ entries'[id] = entries[id]
      BY <1>1, <2>2, LoadedMap DEF Keeps
    <3>2. entries[id].passwordExpires \in Nat
      BY <1>1, <3>1 DEF IInv, GoodMap, Entry
    <3>3. QED BY <3>1, <3>2 DEF Keeps
  <2>3. ASSUME NEW c \in Calls, Remember(c) PROVE ByLeave(id)
    <3>1. /\ DOMAIN entries' = DOMAIN entries
          /\ \A i \in DOMAIN entries \ {call[c].id} : entries'[i] = entries[i]
          /\ call[c].id \in DOMAIN entries =>
                entries'[call[c].id].passwordExpires = now + call[c].ttl
      BY <1>1, <2>1, <2>3, RememberedMap
    <3>2. id = call[c].id /\ id \in DOMAIN entries
      <4>1. id \in DOMAIN entries
        BY <3>1 DEF Keeps
      <4>2. entries[id].passwordExpires \in Nat
        BY <1>1, <4>1 DEF IInv, GoodMap, Entry
      <4>3. QED BY <3>1, <4>1, <4>2 DEF Keeps
    <3>3. In(c, "remembering") /\ call[c].may
      BY <1>1, <2>3 DEF Remember, In, IInv, GoodCall
    <3>4. call'[c].phase # "remembering"
      BY <1>1, <2>3 DEF Remember, HasOpened, Returns, Becomes, Fresh, AtRest, IInv
    <3>5. QED BY <3>1, <3>2, <3>3, <3>4
  <2>4. QED BY <1>1, <2>1, <2>2, <2>3, StoreStep
<1>2. QED BY <1>1, Invariance, PTL DEF Spec, KeptByLeave

-----------------------------------------------------------------------------

CapInv == IsFiniteSet(DOMAIN entries) /\ NeverOverTheCap

(***************************************************************************)
(* The map never holds more than MAX_SESSIONS sessions (session.rs,        *)
(* put_with_ttl).                                                          *)
(***************************************************************************)
THEOREM CapHolds == Spec => []NeverOverTheCap
<1>1. Init => CapInv
  <2> SUFFICES ASSUME Init PROVE CapInv
    OBVIOUS
  <2>1. DOMAIN entries = {}
    BY DEF Init, StoreInit
  <2>2. QED BY <2>1, FS_EmptySet, SessionsAssumption DEF CapInv, NeverOverTheCap
<1>2. ASSUME IInv, CapInv, [Next]_vars PROVE CapInv'
  <2>1. ASSUME DOMAIN entries' \subseteq DOMAIN entries PROVE CapInv'
    <3>1. /\ IsFiniteSet(DOMAIN entries')
          /\ Cardinality(DOMAIN entries') <= Cardinality(DOMAIN entries)
      BY <1>2, <2>1, FS_Subset DEF CapInv
    <3>2. /\ Cardinality(DOMAIN entries) \in Nat
          /\ Cardinality(DOMAIN entries') \in Nat
      BY <1>2, <3>1, FS_CardinalityType DEF CapInv
    <3>3. QED BY <1>2, <3>1, <3>2, SessionsAssumption DEF CapInv, NeverOverTheCap
  <2>2. ASSUME NEW new \in Ids, NEW file \in Files, LoadKey(new, file) PROVE CapInv'
    <3>1. PICK kept \in Survivors : /\ DOMAIN entries' = kept \cup {new}
                                    /\ kept \subseteq DOMAIN entries
                                    /\ new \notin DOMAIN entries
      BY <1>2, <2>2, LoadedMap
    <3>2. IsFiniteSet(kept) /\ Cardinality(kept) \in Nat
      BY <1>2, <3>1, FS_Subset, FS_CardinalityType DEF CapInv
    <3>3. /\ IsFiniteSet(kept \cup {new})
          /\ Cardinality(kept \cup {new}) = Cardinality(kept) + 1
      BY <3>1, <3>2, FS_AddElement
    <3>4. Cardinality(kept) < MaxSessions
      BY DEF Survivors
    <3>5. QED BY <3>1, <3>2, <3>3, <3>4, SessionsAssumption DEF CapInv, NeverOverTheCap
  <2>3. ASSUME NEW c \in Calls, Remember(c) PROVE CapInv'
    BY <1>2, <2>1, <2>3, RememberedMap DEF Thins
  <2>4. QED BY <1>2, <2>1, <2>2, <2>3, StoreStep DEF Thins
<1>3. CapInv => NeverOverTheCap
  BY DEF CapInv
<1>4. QED BY <1>1, <1>2, <1>3, Invariance, PTL DEF Spec

=============================================================================
