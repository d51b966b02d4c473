------------------------------ MODULE KeyFile ------------------------------
(***************************************************************************)
(* The key files of one folder and everything that writes them: the pfx    *)
(* and ytks plugins' change_password and saves, the second step of an      *)
(* enrollment, and the engine's change_password and conversions, down to   *)
(* the steps of overwrite_key_file and create_key_file_exclusive and a     *)
(* power cut between any two of them.                                      *)
(*                                                                         *)
(* A content is the key a file holds, the key its certificate is for, and  *)
(* the call that wrote it.  A file's password and the password dialogs are *)
(* OpenPassword's: here opening a file succeeds or fails.  The name of a   *)
(* temporary file is random, so the call that made it names it.            *)
(***************************************************************************)
EXTENDS Naturals

CONSTANTS
    Calls,
    PfxPaths, YksPaths,
    SwapExtension,  \* a path with the other format's extension
    Pairs,          \* the key pairs of KEY_PAIR sessions
    NoCall,         \* the writer of the files there at the start
    MaxCuts         \* bound on power cuts

Paths == PfxPaths \cup YksPaths

ASSUME FilesAssumption ==
    /\ PfxPaths \cap YksPaths = {}
    /\ SwapExtension \in [Paths -> Paths]
    /\ NoCall \notin Calls
    /\ MaxCuts \in Nat

Keys == Paths \cup Pairs    \* the key a file had at the start is named by its path
Contents == [key : Keys, cert : Keys, by : Calls \cup {NoCall}]
Absent == [file |-> "absent"]
Torn == [file |-> "torn"]

Kinds == {"change", "engine_change", "save", "reissue", "temporary", "convert", "enroll"}
Exclusive == {"temporary", "convert"}
NoJob == [kind |-> "none"]
Jobs == [kind : Kinds, source : Keys, target : Paths]

VARIABLES
    disk,       \* what each path shows
    onDisk,     \* what a power cut may leave at each path
    loaded,     \* the paths some keystore session was loaded from
    job, pc,    \* per call: its request and where it is
    bytes,      \* per call: the store it read, then the content it writes
    tmp,        \* per call: its temporary file
    result,     \* per call: its reply
    links,      \* does the filesystem have hard links
    cuts

vars == <<disk, onDisk, loaded, job, pc, bytes, tmp, result, links, cuts>>
files == <<disk, onDisk, loaded, links, cuts>>

Original(p) == [key |-> p, cert |-> p, by |-> NoCall]

Init ==
    /\ disk \in {f \in [Paths -> {Original(p) : p \in Paths} \cup {Absent}] :
                    \A p \in Paths : f[p] \in {Original(p), Absent}}
    /\ onDisk = [p \in Paths |-> {disk[p]}]
    /\ loaded = {}
    /\ job = [c \in Calls |-> NoJob]
    /\ pc = [c \in Calls |-> "idle"]
    /\ bytes = [c \in Calls |-> Absent]
    /\ tmp = [c \in Calls |-> "none"]
    /\ result = [c \in Calls |-> "none"]
    /\ links \in BOOLEAN
    /\ cuts = 0

---------------------------------------------------------------------------
(* Sessions over a key file *)

LoadKey(p) ==
    /\ disk[p] \in Contents
    /\ loaded' = loaded \cup {p}
    /\ UNCHANGED <<disk, onDisk, job, pc, bytes, tmp, result, links, cuts>>

\* By file name, alias and, for a yks, the certificate's serial number.
PfxLoadKey == \E p \in PfxPaths \ loaded : LoadKey(p)
YtksLoadKey == \E p \in YksPaths \ loaded : LoadKey(p)

UnloadKey(p) ==
    /\ loaded' = loaded \ {p}
    /\ UNCHANGED <<disk, onDisk, job, pc, bytes, tmp, result, links, cuts>>

PfxUnloadKey == \E p \in PfxPaths \cap loaded : UnloadKey(p)
YtksUnloadKey == \E p \in YksPaths \cap loaded : UnloadKey(p)

---------------------------------------------------------------------------
(* The handlers, up to where they have the store they will write *)

Begin(c, kind, source, target, at) ==
    /\ pc[c] = "idle"
    /\ job' = [job EXCEPT ![c] = [kind |-> kind, source |-> source, target |-> target]]
    /\ pc' = [pc EXCEPT ![c] = at]
    /\ UNCHANGED <<files, bytes, tmp, result>>

PfxChangePassword(c) == \E p \in PfxPaths \cap loaded : Begin(c, "change", p, p, "open")
YtksChangePassword(c) == \E p \in YksPaths \cap loaded : Begin(c, "change", p, p, "open")
EngineChangePassword(c) == \E p \in Paths : Begin(c, "engine_change", p, p, "open")

\* resolve_signing_key: a KEY_PAIR session has its key at hand, a keystore
\* session's is read from its own file.
PfxSave(c) == \E t \in PfxPaths :
    \/ \E k \in Pairs : Begin(c, "save", k, t, "match")
    \/ \E p \in PfxPaths \cap loaded : Begin(c, "reissue", p, t, "open")
YtksSave(c) == \E t \in YksPaths :
    \/ \E k \in Pairs : Begin(c, "save", k, t, "match")
    \/ \E p \in YksPaths \cap loaded : Begin(c, "reissue", p, t, "open")

SaveTemporaryPfx(c) == \E t \in PfxPaths, k \in Pairs :
    /\ disk[t] = Absent
    /\ Begin(c, "temporary", k, t, "temporary")

EnrollStep2(c) == \E t \in PfxPaths, k \in Pairs : Begin(c, "enroll", k, t, "match")

Convert(c, p) ==
    /\ disk[SwapExtension[p]] = Absent
    /\ Begin(c, "convert", p, SwapExtension[p], "open")
ConvertPfxToYks(c) == \E p \in PfxPaths : Convert(c, p)
ConvertYksToPfx(c) == \E p \in YksPaths : Convert(c, p)

Finish(c, reply) ==
    /\ pc' = [pc EXCEPT ![c] = "done"]
    /\ result' = [result EXCEPT ![c] = reply]
    /\ tmp' = [tmp EXCEPT ![c] = "none"]
    /\ bytes' = [bytes EXCEPT ![c] = Absent]

GoOn(c, at) ==
    /\ pc' = [pc EXCEPT ![c] = at]
    /\ UNCHANGED result

Fail(c) == Finish(c, "failed") /\ UNCHANGED <<files, job>>

\* Any await, any parse and any step of the disk may fail.
Fails(c) == pc[c] \notin {"idle", "unlink", "done"} /\ Fail(c)

\* The source is read and decrypted: what it holds now is what the call
\* goes on with.
Open(c) ==
    /\ pc[c] = "open"
    /\ disk[job[c].source] \in Contents
    /\ bytes' = [bytes EXCEPT ![c] = disk[job[c].source]]
    /\ GoOn(c, CASE job[c].kind = "change" -> "dialogs"
                 [] job[c].kind = "reissue" -> "match"
                 [] OTHER -> "write")
    /\ UNCHANGED <<files, job, tmp>>

\* The new password, entered twice.
NewPasswords(c) ==
    /\ pc[c] = "dialogs"
    /\ GoOn(c, "write")
    /\ UNCHANGED <<files, job, bytes, tmp>>

SigningKey(c) == IF job[c].kind = "reissue" THEN bytes[c].key ELSE job[c].source

\* Mutant: the request's certificate is believed.
KeyMatchesCertificate_Unchecked(c, cert) == TRUE
KeyMatchesCertificate(c, cert) == SigningKey(c) = cert

\* Only a fresh key pair must not find a file there.
MayTarget(c) == job[c].kind = "save" => disk[job[c].target] = Absent

\* The request's certificate is checked against the key and, for a fresh
\* key, the target is looked for: no await is between the two.
Match(c) == \E cert \in Keys :
    /\ pc[c] = "match"
    /\ KeyMatchesCertificate(c, cert)
    /\ MayTarget(c)
    /\ bytes' = [bytes EXCEPT ![c] = [key |-> SigningKey(c), cert |-> cert, by |-> c]]
    /\ GoOn(c, "write")
    /\ UNCHANGED <<files, job, tmp>>

\* tempchain::issue makes a certificate for the key itself.
IssueTemporary(c) ==
    /\ pc[c] = "temporary"
    /\ bytes' = [bytes EXCEPT ![c] = [key |-> job[c].source, cert |-> job[c].source, by |-> c]]
    /\ GoOn(c, "write")
    /\ UNCHANGED <<files, job, tmp>>

---------------------------------------------------------------------------
(* overwrite_key_file and create_key_file_exclusive *)

WriteTemporary(c) ==
    /\ pc[c] = "write"
    /\ tmp' = [tmp EXCEPT ![c] = "written"]
    /\ bytes' = [bytes EXCEPT ![c].by = c]
    /\ GoOn(c, "sync")
    /\ UNCHANGED <<files, job>>

\* Mutant: the temporary file is not synced.
SyncTemporary_Skipped(c) ==
    /\ pc[c] = "sync"
    /\ GoOn(c, IF job[c].kind \in Exclusive THEN "link" ELSE "rename")
    /\ UNCHANGED <<files, job, bytes, tmp>>

SyncTemporary(c) ==
    /\ pc[c] = "sync"
    /\ tmp' = [tmp EXCEPT ![c] = "synced"]
    /\ GoOn(c, IF job[c].kind \in Exclusive THEN "link" ELSE "rename")
    /\ UNCHANGED <<files, job, bytes>>

\* The name now stands for the call's bytes; a power cut finds the old
\* entry or the new one, and behind the new one only what was synced.
Place(c) == LET t == job[c].target IN
    /\ disk' = [disk EXCEPT ![t] = bytes[c]]
    /\ onDisk' = [onDisk EXCEPT ![t] =
            @ \cup {bytes[c]} \cup IF tmp[c] = "synced" THEN {} ELSE {Torn}]
    /\ UNCHANGED <<loaded, links, cuts>>

Rename(c) ==
    /\ pc[c] = "rename"
    /\ Place(c)
    /\ tmp' = [tmp EXCEPT ![c] = "none"]
    /\ GoOn(c, "dir_sync")
    /\ UNCHANGED <<job, bytes>>

AlreadyExists(c) ==
    /\ disk[job[c].target] # Absent
    /\ Finish(c, "exists")
    /\ UNCHANGED <<files, job>>

\* Mutant: a rename in the place of a link.
HardLink_Replaces(c) ==
    /\ pc[c] = "link"
    /\ links
    /\ Place(c)
    /\ GoOn(c, "unlink")
    /\ UNCHANGED <<job, bytes, tmp>>

HardLink(c) ==
    /\ pc[c] = "link"
    /\ links
    /\ \/ AlreadyExists(c)
       \/ /\ disk[job[c].target] = Absent
          /\ Place(c)
          /\ GoOn(c, "unlink")
          /\ UNCHANGED <<job, bytes, tmp>>

\* FAT: a look, then the rename above.
HardLinkUnsupported(c) ==
    /\ pc[c] = "link"
    /\ ~links
    /\ \/ AlreadyExists(c)
       \/ /\ disk[job[c].target] = Absent
          /\ GoOn(c, "rename")
          /\ UNCHANGED <<files, job, bytes, tmp>>

Unlink(c) ==
    /\ pc[c] = "unlink"
    /\ tmp' = [tmp EXCEPT ![c] = "none"]
    /\ GoOn(c, "dir_sync")
    /\ UNCHANGED <<files, job, bytes>>

\* The directory's entries are all durable: the call replies, and a
\* plugin's change_password drops the session.
SyncDirectory(c) ==
    /\ pc[c] = "dir_sync"
    /\ onDisk' = [p \in Paths |-> {disk[p]}]
    /\ Finish(c, "ok")
    /\ loaded' = IF job[c].kind = "change" THEN loaded \ {job[c].source} ELSE loaded
    /\ UNCHANGED <<disk, job, links, cuts>>

---------------------------------------------------------------------------

\* Power fails or the stick is pulled: every call ends and each entry is
\* what the disk had of it.
PowerCut ==
    /\ cuts < MaxCuts
    /\ cuts' = cuts + 1
    /\ disk' \in {f \in [Paths -> UNION {onDisk[p] : p \in Paths}] : \A p \in Paths : f[p] \in onDisk[p]}
    /\ onDisk' = [p \in Paths |-> {disk'[p]}]
    /\ loaded' = {}
    /\ pc' = [c \in Calls |-> IF pc[c] = "idle" THEN "idle" ELSE "done"]
    /\ result' = [c \in Calls |-> IF pc[c] \in {"idle", "done"} THEN result[c] ELSE "cut"]
    /\ bytes' = [c \in Calls |-> Absent]
    /\ tmp' = [c \in Calls |-> "none"]
    /\ UNCHANGED <<job, links>>

Sessions == PfxLoadKey \/ YtksLoadKey \/ PfxUnloadKey \/ YtksUnloadKey

Handlers(c) ==
    \/ PfxChangePassword(c) \/ YtksChangePassword(c) \/ EngineChangePassword(c)
    \/ PfxSave(c) \/ YtksSave(c) \/ SaveTemporaryPfx(c) \/ EnrollStep2(c)
    \/ ConvertPfxToYks(c) \/ ConvertYksToPfx(c)
    \/ Open(c) \/ NewPasswords(c) \/ Match(c) \/ IssueTemporary(c) \/ Fails(c)

Writer(c) ==
    \/ WriteTemporary(c) \/ SyncTemporary(c) \/ Rename(c) \/ HardLink(c)
    \/ HardLinkUnsupported(c) \/ Unlink(c) \/ SyncDirectory(c)

Next ==
    \/ Sessions
    \/ \E c \in Calls : Handlers(c) \/ Writer(c)
    \/ PowerCut

Spec == Init /\ [][Next]_vars

---------------------------------------------------------------------------
(* Properties *)

TypeOK ==
    /\ disk \in [Paths -> Contents \cup {Absent}]
    /\ onDisk \in [Paths -> SUBSET (Contents \cup {Absent})]
    /\ loaded \subseteq Paths
    /\ job \in [Calls -> Jobs \cup {NoJob}]
    /\ pc \in [Calls -> {"idle", "open", "dialogs", "match", "temporary", "write", "sync",
                         "link", "unlink", "rename", "dir_sync", "done"}]
    /\ bytes \in [Calls -> Contents \cup {Absent}]
    /\ tmp \in [Calls -> {"none", "written", "synced"}]
    /\ result \in [Calls -> {"none", "ok", "failed", "exists", "cut"}]
    /\ links \in BOOLEAN
    /\ cuts \in 0..MaxCuts

\* The writers implement the abstract files: whatever they interleave and
\* wherever power fails, a path shows a complete old or new content, and a
\* write that was reported as done is never undone (overwrite_key_file,
\* create_key_file_exclusive).
Durable == INSTANCE DurableFiles WITH
    files <- disk, pending <- onDisk, acked <- {c \in Calls : result[c] = "ok"}
IsDurable == Durable!Spec

\* Where hard links work, a temporary key or a conversion never replaces a
\* file, also one that came to be after the handler looked for it.
ExclusiveNeverReplaces == [][
    \A p \in Paths, c \in Calls :
        (links /\ disk[p] # Absent /\ disk'[p] # disk[p] /\ disk'[p] # Absent
               /\ disk'[p].by = c /\ cuts' = cuts) => job[c].kind \notin Exclusive]_vars

\* A file's certificate is for the key next to it, also when the file the
\* key came from was replaced while the call waited
\* (check_key_matches_certificate).
CertificatesMatch == \A p \in Paths : disk[p] # Absent => disk[p].key = disk[p].cert

\* A fresh key pair never replaces a key file (pfx.rs:282-286).
FreshNeverReplaces == [][
    \A p \in Paths, c \in Calls :
        (disk[p] # Absent /\ disk'[p] # disk[p] /\ disk'[p] # Absent
               /\ disk'[p].by = c /\ cuts' = cuts) => job[c].kind # "save"]_vars

=============================================================================
