------------------------------ MODULE Sessions ------------------------------
(***************************************************************************)
(* openimzo_keys::session::Sessions: the map from the ids a page holds to  *)
(* the key file each one stands for, with the password the person allowed  *)
(* to be remembered.                                                       *)
(*                                                                         *)
(* Every method takes the map's mutex once, so each is one value of the    *)
(* map as a function of the map before it (After...); the callers' actions *)
(* are built from these.  Instants are values of one clock, now.  put is   *)
(* modelled for key store sessions, which alone carry a password; the      *)
(* fixed device ids never enter the map, and update and put_with_ttl with  *)
(* another lifetime have no caller.                                        *)
(***************************************************************************)
EXTENDS Naturals, FiniteSets

CONSTANTS
    Ids,            \* what new_id can draw; never the same twice
    Files,          \* key files
    Passwords,
    None,           \* no password, no id, no file
    MaxSessions,    \* MAX_SESSIONS
    SessionTtl,     \* DEFAULT_TTL
    RememberedTtl,  \* PASSWORD_TTL_REMEMBERED
    TransientTtl,   \* PASSWORD_TTL_TRANSIENT
    MaxTime         \* bound on the clock

ASSUME SessionsAssumption ==
    /\ None \notin Passwords \cup Ids \cup Files
    /\ MaxSessions \in Nat \ {0}
    /\ SessionTtl \in Nat \ {0}
    /\ RememberedTtl \in Nat \ {0}
    /\ TransientTtl \in Nat \ {0}
    /\ MaxTime \in Nat

VARIABLES
    now,      \* Instant::now()
    entries,  \* the map
    issued    \* ids that put has returned so far

storeVars == <<now, entries, issued>>

Entry == [file : Files,
          expires : Nat,
          password : Passwords \cup {None},
          passwordExpires : Nat]

StoreTypeOK ==
    /\ now \in Nat
    /\ issued \in SUBSET Ids
    /\ DOMAIN entries \subseteq issued
    /\ entries \in [DOMAIN entries -> Entry]

StoreInit ==
    /\ now = 0
    /\ entries = [id \in {} |-> None]
    /\ issued = {}

Live(id) == id \in DOMAIN entries /\ entries[id].expires > now

\* The password of a live session whose own deadline has not passed.
Remembered(id) ==
    IF Live(id) /\ entries[id].passwordExpires > now
    THEN entries[id].password ELSE None

-----------------------------------------------------------------------------

Only(ids) == [id \in ids |-> entries[id]]

Unexpired == {id \in DOMAIN entries : Live(id)}

\* live_entry, and the look-up in get: an expired entry goes as it is found.
AfterLookup(id) == Only(DOMAIN entries \ {i \in {id} : ~Live(i)})

\* What eviction may leave of the unexpired entries: fewer than the cap, no
\* fewer than that, and nothing that expires before an entry that went.
Survivors ==
    {kept \in SUBSET Unexpired :
        /\ Cardinality(kept) < MaxSessions
        /\ kept = Unexpired \/ Cardinality(kept) = MaxSessions - 1
        /\ \A gone \in Unexpired \ kept, id \in kept :
               entries[gone].expires <= entries[id].expires}

NewEntry(file) == [file |-> file,
                   expires |-> now + SessionTtl,
                   password |-> None,
                   passwordExpires |-> 0]

\* Mutant: an insertion at the cap sweeps but evicts nobody.
AfterPut_NoEviction(id, file, kept) ==
    [i \in Unexpired \cup {id} |-> IF i = id THEN NewEntry(file) ELSE entries[i]]

\* put_with_ttl, where kept \in Survivors.
AfterPut(id, file, kept) ==
    [i \in kept \cup {id} |-> IF i = id THEN NewEntry(file) ELSE entries[i]]

AfterRemove(id) == Only(DOMAIN entries \ {id})

\* An entry without its password.  A deadline without a password says
\* nothing, and is 0 here.
Bare(entry) == [entry EXCEPT !.password = None, !.passwordExpires = 0]

Wiped(ids) ==
    [id \in DOMAIN entries |-> IF id \in ids THEN Bare(entries[id]) ELSE entries[id]]

\* Mutant: a password that is used is kept for as long again.
AfterCachedPassword_Slides(id) ==
    IF Remembered(id) # None
    THEN [entries EXCEPT ![id].passwordExpires = now + RememberedTtl]
    ELSE IF Live(id) THEN Wiped({id}) ELSE AfterLookup(id)

\* cached_password: its result is Remembered(id).
AfterCachedPassword(id) ==
    IF Live(id) /\ entries[id].passwordExpires <= now
    THEN Wiped({id}) ELSE AfterLookup(id)

\* expire_password
AfterExpirePassword(id) == IF Live(id) THEN Wiped({id}) ELSE AfterLookup(id)

\* Mutant: a password that comes late revives its expired session.
AfterRememberPassword_Revives(id, password, ttl) ==
    IF id \in DOMAIN entries
    THEN [entries EXCEPT ![id].password = password,
                         ![id].passwordExpires = now + ttl,
                         ![id].expires = now + SessionTtl]
    ELSE entries

Holding(entry, password, deadline) ==
    [entry EXCEPT !.password = password, !.passwordExpires = deadline]

\* remember_password
AfterRememberPassword(id, password, ttl) ==
    IF Live(id)
    THEN [entries EXCEPT ![id] = Holding(@, password, now + ttl)]
    ELSE AfterLookup(id)

\* clear_all_passwords
AfterClearAll == Wiped(DOMAIN entries)

\* Mutant: sweep drops the sessions and leaves expired passwords in place.
AfterSweep_KeepsPasswords == Only(Unexpired)

\* sweep
AfterSweep ==
    [id \in Unexpired |->
        IF entries[id].passwordExpires <= now THEN Bare(entries[id])
        ELSE entries[id]]

-----------------------------------------------------------------------------

(***************************************************************************)
(* However sessions are put, expire and are looked up, the map never holds *)
(* more than MAX_SESSIONS of them (session.rs, put_with_ttl).              *)
(***************************************************************************)
NeverOverTheCap == Cardinality(DOMAIN entries) <= MaxSessions

\* An entry past its deadline, or a password past its own, still in memory.
Overdue(id) ==
    /\ id \in DOMAIN entries
    /\ \/ entries[id].expires <= now
       \/ /\ entries[id].password # None
          /\ entries[id].passwordExpires <= now

=============================================================================
