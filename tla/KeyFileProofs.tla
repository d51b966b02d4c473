---------------------------- MODULE KeyFileProofs ----------------------------
(***************************************************************************)
(* Theorems about KeyFile for any calls, paths, key pairs and number of    *)
(* power cuts: type correctness, that a file's certificate is for its key, *)
(* that exclusive writers replace nothing, and that the writers implement  *)
(* DurableFiles.  They rest on one invariant: whatever a power cut may     *)
(* leave is complete and fits, as is whatever a call is about to write.    *)
(***************************************************************************)
EXTENDS KeyFile, TLAPS

Fits(content) == content \in Contents /\ content.key = content.cert

\* The phases in which a call holds a content, and those of the writers
\* behind the temporary file.
Holding == {"dialogs", "write", "sync", "link", "rename", "unlink", "dir_sync"}
Written == {"sync", "link", "rename", "unlink", "dir_sync"}

\* The kinds that read the store at their source.
Reading == {"change", "engine_change", "reissue", "convert"}

\* A power cut never finds a part of a file, or a certificate of another key.
DiskInv == \A p \in Paths :
    /\ disk[p] \in onDisk[p]
    /\ \A content \in onDisk[p] : content = Absent \/ Fits(content)

\* A call that reads a store names a path, and one that reissues has read it.
JobInv == \A c \in Calls : pc[c] # "idle" =>
    /\ job[c] \in Jobs
    /\ job[c].kind \in Reading => job[c].source \in Paths
    /\ pc[c] = "open" => job[c].kind \in Reading
    /\ pc[c] = "match" /\ job[c].kind = "reissue" => Fits(bytes[c])

\* What a call writes is complete, fits, is its own, and is durable before
\* it has the name.
WriterInv == \A c \in Calls :
    /\ pc[c] \in Holding => Fits(bytes[c])
    /\ pc[c] \in Written => bytes[c].by = c
    /\ pc[c] \in {"link", "rename"} => tmp[c] = "synced"
    /\ pc[c] = "rename" /\ job[c].kind \in Exclusive => ~links

\* Only a call that is over has replied.
ReplyInv == \A c \in Calls : pc[c] # "done" => result[c] = "none"

KeyInv == TypeOK /\ DiskInv /\ JobInv /\ WriterInv /\ ReplyInv

-----------------------------------------------------------------------------

LEMMA ContentsAreFiles ==
    /\ Absent \notin Contents
    /\ Torn \notin Contents \cup {Absent}
    /\ NoJob \notin Jobs
BY DEF Absent, Torn, Contents, NoJob, Jobs

LEMMA KeyInit == Init => KeyInv
<1> SUFFICES ASSUME Init PROVE KeyInv
  OBVIOUS
<1>1. \A p \in Paths : Fits(Original(p))
  BY DEF Fits, Original, Contents, Keys
<1>2. \A p \in Paths : disk[p] = Absent \/ Fits(disk[p])
  BY <1>1 DEF Init
<1>3. TypeOK
  BY <1>1, <1>2, FilesAssumption DEF Init, TypeOK, Fits
<1>4. DiskInv
  BY <1>2 DEF Init, DiskInv
<1> QED
  BY <1>3, <1>4 DEF KeyInv, Init, JobInv, WriterInv, ReplyInv, Holding, Written

\* A call that ends leaves no content behind.
LEMMA FinishInv ==
    ASSUME KeyInv, NEW c \in Calls, pc[c] # "idle", NEW reply \in {"ok", "failed", "exists"},
           Finish(c, reply), UNCHANGED <<files, job>>
    PROVE  KeyInv'
<1> USE DEF KeyInv, files
<1>1. TypeOK'
  BY DEF TypeOK, Finish
<1>2. DiskInv'
  BY DEF DiskInv
<1>3. JobInv'
  BY DEF JobInv, TypeOK, Finish
<1>4. WriterInv'
  BY DEF WriterInv, Holding, Written, TypeOK, Finish
<1>5. ReplyInv'
  BY DEF ReplyInv, TypeOK, Finish
<1> QED
  BY <1>1, <1>2, <1>3, <1>4, <1>5

\* A new call.
LEMMA BeginInv ==
    ASSUME KeyInv, NEW c \in Calls, NEW kind \in Kinds, NEW source \in Keys, NEW target \in Paths,
           NEW at \in {"open", "match", "temporary"},
           at = "open" => kind \in Reading,
           kind \in Reading => source \in Paths /\ at = "open",
           Begin(c, kind, source, target, at)
    PROVE  KeyInv'
<1> USE DEF KeyInv, files
<1>1. [kind |-> kind, source |-> source, target |-> target] \in Jobs
  BY DEF Jobs
<1>2. TypeOK'
  BY <1>1 DEF TypeOK, Begin
<1>3. DiskInv'
  BY DEF DiskInv, Begin
<1>4. JobInv'
  BY <1>1 DEF JobInv, TypeOK, Begin, Reading
<1>5. WriterInv'
  BY DEF WriterInv, Holding, Written, TypeOK, Begin
<1>6. ReplyInv'
  BY DEF ReplyInv, TypeOK, Begin
<1> QED
  BY <1>2, <1>3, <1>4, <1>5, <1>6

\* A call that goes on with a content, or without one.
LEMMA GoOnInv ==
    ASSUME KeyInv, NEW c \in Calls, pc[c] \in {"open", "dialogs", "match", "temporary", "write", "sync"},
           NEW content, bytes' = [bytes EXCEPT ![c] = content],
           NEW at \in {"dialogs", "match", "write", "sync", "link", "rename"},
           GoOn(c, at), Fits(content),
           at \in Written => content.by = c,
           tmp' = [tmp EXCEPT ![c] = CASE at = "sync" -> "written"
                                       [] at \in {"link", "rename"} -> "synced"
                                       [] OTHER -> @],
           at = "rename" => job[c].kind \notin Exclusive,
           UNCHANGED <<files, job>>
    PROVE  KeyInv'
<1> USE DEF KeyInv, files
<1>1. content \in Contents
  BY DEF Fits
<1>2. TypeOK'
  BY <1>1 DEF TypeOK, GoOn
<1>3. DiskInv'
  BY DEF DiskInv
<1>4. JobInv'
  BY DEF JobInv, TypeOK, GoOn
<1>5. WriterInv'
  BY DEF WriterInv, Holding, Written, TypeOK, GoOn
<1>6. ReplyInv'
  BY DEF ReplyInv, TypeOK, GoOn
<1> QED
  BY <1>2, <1>3, <1>4, <1>5, <1>6

\* A durable content takes the name.
LEMMA PlaceInv ==
    ASSUME KeyInv, NEW c \in Calls, Place(c), pc[c] \in {"link", "rename"},
           NEW at \in {"unlink", "dir_sync"}, GoOn(c, at),
           tmp' \in [Calls -> {"none", "written", "synced"}],
           \A e \in Calls \ {c} : tmp'[e] = tmp[e],
           UNCHANGED <<job, bytes>>
    PROVE  KeyInv'
<1> USE DEF KeyInv
<1>1. /\ Fits(bytes[c]) /\ tmp[c] = "synced"
      /\ job[c].target \in Paths
  BY DEF WriterInv, Holding, JobInv, Jobs
<1>2. /\ disk' = [disk EXCEPT ![job[c].target] = bytes[c]]
      /\ onDisk' = [onDisk EXCEPT ![job[c].target] = @ \cup {bytes[c]}]
      /\ UNCHANGED <<loaded, links, cuts>>
  BY <1>1 DEF Place
<1>3. TypeOK'
  BY <1>1, <1>2 DEF TypeOK, GoOn, Fits
<1>4. DiskInv'
  BY <1>1, <1>2 DEF DiskInv, TypeOK
<1>5. JobInv'
  BY DEF JobInv, TypeOK, GoOn
<1>6. WriterInv'
  BY <1>2 DEF WriterInv, Holding, Written, TypeOK, GoOn
<1>7. ReplyInv'
  BY DEF ReplyInv, TypeOK, GoOn
<1> QED
  BY <1>3, <1>4, <1>5, <1>6, <1>7

LEMMA SessionsInv == KeyInv /\ Sessions => KeyInv'
<1> SUFFICES ASSUME KeyInv, Sessions PROVE KeyInv'
  OBVIOUS
<1> USE DEF KeyInv
<1>1. /\ loaded' \in SUBSET Paths
      /\ UNCHANGED <<disk, onDisk, job, pc, bytes, tmp, result, links, cuts>>
  BY DEF Sessions, PfxLoadKey, YtksLoadKey, PfxUnloadKey, YtksUnloadKey, LoadKey, UnloadKey,
         Paths, TypeOK
<1> QED
  BY <1>1 DEF TypeOK, DiskInv, JobInv, WriterInv, ReplyInv

LEMMA PowerCutInv == KeyInv /\ PowerCut => KeyInv'
<1> SUFFICES ASSUME KeyInv, PowerCut PROVE KeyInv'
  OBVIOUS
<1> USE DEF KeyInv, PowerCut
<1>1. \A p \in Paths : disk'[p] \in onDisk[p] /\ onDisk'[p] = {disk'[p]}
  OBVIOUS
<1>2. TypeOK'
  BY <1>1, FilesAssumption DEF TypeOK
<1>3. DiskInv'
  BY <1>1 DEF DiskInv
<1>4. JobInv'
  BY DEF JobInv, TypeOK
<1>5. WriterInv'
  BY DEF WriterInv, Holding, Written, TypeOK
<1>6. ReplyInv'
  BY DEF ReplyInv, TypeOK
<1> QED
  BY <1>2, <1>3, <1>4, <1>5, <1>6

LEMMA HandlersInv ==
    ASSUME KeyInv, NEW c \in Calls, Handlers(c)
    PROVE  KeyInv'
<1> USE FilesAssumption DEF KeyInv
<1>1. Paths \subseteq Keys /\ Pairs \subseteq Keys /\ PfxPaths \subseteq Paths /\ YksPaths \subseteq Paths
  BY DEF Paths, Keys
<1>2. CASE PfxChangePassword(c) \/ YtksChangePassword(c)
  BY <1>1, <1>2, BeginInv DEF PfxChangePassword, YtksChangePassword, Kinds, Reading
<1>3. CASE EngineChangePassword(c)
  BY <1>1, <1>3, BeginInv DEF EngineChangePassword, Kinds, Reading
<1>4. CASE PfxSave(c)
  BY <1>1, <1>4, BeginInv DEF PfxSave, Kinds, Reading
<1>5. CASE YtksSave(c)
  BY <1>1, <1>5, BeginInv DEF YtksSave, Kinds, Reading
<1>6. CASE SaveTemporaryPfx(c)
  BY <1>1, <1>6, BeginInv DEF SaveTemporaryPfx, Kinds, Reading
<1>7. CASE EnrollStep2(c)
  BY <1>1, <1>7, BeginInv DEF EnrollStep2, Kinds, Reading
<1>8. CASE ConvertPfxToYks(c) \/ ConvertYksToPfx(c)
  <2>1. PICK p \in Paths : Convert(c, p)
    BY <1>1, <1>8 DEF ConvertPfxToYks, ConvertYksToPfx
  <2> QED
    BY <1>1, <2>1, BeginInv DEF Convert, Kinds, Reading
<1>9. CASE Open(c)
  <2>1. job[c].source \in Paths /\ disk[job[c].source] \in Contents /\ job[c].kind \in Reading
    BY <1>9 DEF Open, JobInv
  <2>2. Fits(disk[job[c].source])
    BY <2>1, ContentsAreFiles DEF DiskInv
  <2> QED
    BY <1>9, <2>1, <2>2, GoOnInv DEF Open, Reading, Written, Exclusive, TypeOK
<1>10. CASE NewPasswords(c)
  <2>1. Fits(bytes[c]) /\ bytes' = [bytes EXCEPT ![c] = bytes[c]] /\ tmp' = [tmp EXCEPT ![c] = tmp[c]]
    BY <1>10 DEF NewPasswords, WriterInv, Holding, TypeOK
  <2> QED
    BY <1>10, <2>1, GoOnInv DEF NewPasswords, Written
<1>11. CASE Match(c)
  <2>1. PICK cert \in Keys :
            /\ pc[c] = "match" /\ KeyMatchesCertificate(c, cert)
            /\ bytes' = [bytes EXCEPT ![c] = [key |-> SigningKey(c), cert |-> cert, by |-> c]]
            /\ GoOn(c, "write") /\ UNCHANGED <<files, job, tmp>>
    BY <1>11 DEF Match
  <2>2. Fits([key |-> SigningKey(c), cert |-> cert, by |-> c])
    BY <2>1 DEF Fits, Contents, KeyMatchesCertificate
  <2> QED
    BY <2>1, <2>2, GoOnInv DEF Written, TypeOK
<1>12. CASE IssueTemporary(c)
  <2>1. Fits([key |-> job[c].source, cert |-> job[c].source, by |-> c])
    BY <1>12 DEF IssueTemporary, Fits, Contents, JobInv, Jobs
  <2> QED
    BY <1>12, <2>1, GoOnInv DEF IssueTemporary, Written, TypeOK
<1>13. CASE Fails(c)
  BY <1>13, FinishInv DEF Fails, Fail
<1> QED
  BY <1>2, <1>3, <1>4, <1>5, <1>6, <1>7, <1>8, <1>9, <1>10, <1>11, <1>12, <1>13 DEF Handlers

LEMMA WriterStepInv ==
    ASSUME KeyInv, NEW c \in Calls, Writer(c)
    PROVE  KeyInv'
<1> USE DEF KeyInv
<1>1. CASE WriteTemporary(c)
  <2>1. Fits(bytes[c]) /\ bytes' = [bytes EXCEPT ![c] = [bytes[c] EXCEPT !.by = c]]
    BY <1>1 DEF WriteTemporary, WriterInv, Holding, TypeOK
  <2>2. Fits([bytes[c] EXCEPT !.by = c]) /\ [bytes[c] EXCEPT !.by = c].by = c
    BY <2>1 DEF Fits, Contents
  <2> QED
    BY <1>1, <2>1, <2>2, GoOnInv DEF WriteTemporary, Written
<1>2. CASE SyncTemporary(c)
  <2>1. Fits(bytes[c]) /\ bytes[c].by = c /\ bytes' = [bytes EXCEPT ![c] = bytes[c]]
    BY <1>2 DEF SyncTemporary, WriterInv, Holding, Written, TypeOK
  <2> QED
    BY <1>2, <2>1, GoOnInv DEF SyncTemporary, Written, TypeOK
<1>3. CASE Rename(c)
  BY <1>3, PlaceInv DEF Rename, TypeOK
<1>4. CASE HardLink(c)
  <2>1. CASE AlreadyExists(c)
    BY <1>4, <2>1, FinishInv DEF HardLink, AlreadyExists
  <2>2. CASE ~AlreadyExists(c)
    BY <1>4, <2>2, PlaceInv DEF HardLink, TypeOK
  <2> QED
    BY <2>1, <2>2
<1>5. CASE HardLinkUnsupported(c)
  <2>1. CASE AlreadyExists(c)
    BY <1>5, <2>1, FinishInv DEF HardLinkUnsupported, AlreadyExists
  <2>2. CASE ~AlreadyExists(c)
    <3>1. /\ pc[c] = "link" /\ ~links /\ GoOn(c, "rename")
          /\ UNCHANGED <<files, job, bytes, tmp>>
      BY <1>5, <2>2 DEF HardLinkUnsupported
    <3> QED
      BY <3>1 DEF TypeOK, DiskInv, JobInv, WriterInv, ReplyInv, GoOn, files, Holding, Written
  <2> QED
    BY <2>1, <2>2
<1>6. CASE Unlink(c)
  BY <1>6 DEF Unlink, TypeOK, DiskInv, JobInv, WriterInv, ReplyInv, GoOn, files, Holding, Written
<1>7. CASE SyncDirectory(c)
  <2>1. TypeOK'
    BY <1>7 DEF SyncDirectory, Finish, TypeOK
  <2>2. DiskInv'
    BY <1>7 DEF SyncDirectory, DiskInv
  <2>3. JobInv'
    BY <1>7 DEF SyncDirectory, Finish, JobInv, TypeOK
  <2>4. WriterInv'
    BY <1>7 DEF SyncDirectory, Finish, WriterInv, Holding, Written, TypeOK
  <2>5. ReplyInv'
    BY <1>7 DEF SyncDirectory, Finish, ReplyInv, TypeOK
  <2> QED
    BY <2>1, <2>2, <2>3, <2>4, <2>5
<1> QED
  BY <1>1, <1>2, <1>3, <1>4, <1>5, <1>6, <1>7 DEF Writer

\* Everything below holds in every reachable state, with any number of calls,
\* paths, key pairs and power cuts, with hard links or without.
THEOREM KeyInvariant == Spec => []KeyInv
<1>1. KeyInv /\ [Next]_vars => KeyInv'
  <2>1. KeyInv /\ Next => KeyInv'
    BY SessionsInv, HandlersInv, WriterStepInv, PowerCutInv DEF Next
  <2>2. KeyInv /\ UNCHANGED vars => KeyInv'
    BY DEF vars, KeyInv, TypeOK, DiskInv, JobInv, WriterInv, ReplyInv
  <2> QED
    BY <2>1, <2>2
<1> QED
  BY <1>1, KeyInit, PTL DEF Spec

\* What the handlers and writers pass on stays well formed.
THEOREM TypeCorrect == Spec => []TypeOK
<1>1. KeyInv => TypeOK
  BY DEF KeyInv
<1> QED
  BY <1>1, KeyInvariant, PTL

\* A file's certificate is for the key next to it, for any number of calls
\* and whatever was replaced while a call waited: what is on disk, what a call
\* carries over its awaits and what a power cut brings back all fit.
THEOREM FilesMatch == Spec => []CertificatesMatch
<1>1. KeyInv => CertificatesMatch
  BY DEF KeyInv, DiskInv, Fits, CertificatesMatch
<1> QED
  BY <1>1, KeyInvariant, PTL

-----------------------------------------------------------------------------

\* The two steps that give a content a name.
LEMMA OnlyPlacingReplaces ==
    ASSUME KeyInv, Next, cuts' = cuts
    PROVE  \/ UNCHANGED disk
           \/ \E c \in Calls :
                /\ disk' = [disk EXCEPT ![job[c].target] = bytes[c]]
                /\ job[c].target \in Paths
                /\ bytes[c].by = c
                /\ \/ pc[c] = "rename"
                   \/ pc[c] = "link" /\ disk[job[c].target] = Absent
<1> USE DEF files
<1>1. CASE Sessions
  BY <1>1 DEF Sessions, PfxLoadKey, YtksLoadKey, PfxUnloadKey, YtksUnloadKey, LoadKey, UnloadKey
<1>2. ASSUME NEW c \in Calls, Handlers(c) PROVE UNCHANGED disk
  BY <1>2 DEF Handlers, PfxChangePassword, YtksChangePassword, EngineChangePassword, PfxSave,
              YtksSave, SaveTemporaryPfx, EnrollStep2, ConvertPfxToYks, ConvertYksToPfx, Convert,
              Begin, Open, NewPasswords, Match, IssueTemporary, Fails, Fail
<1>3. ASSUME NEW c \in Calls, Writer(c), ~UNCHANGED disk
      PROVE  /\ disk' = [disk EXCEPT ![job[c].target] = bytes[c]]
             /\ \/ pc[c] = "rename"
                \/ pc[c] = "link" /\ disk[job[c].target] = Absent
  BY <1>3 DEF Writer, WriteTemporary, SyncTemporary, Rename, HardLink, HardLinkUnsupported, Unlink,
              SyncDirectory, AlreadyExists, Place
<1>4. ASSUME NEW c \in Calls, pc[c] \in {"rename", "link"}
      PROVE  job[c].target \in Paths /\ bytes[c].by = c
  BY <1>4 DEF KeyInv, JobInv, WriterInv, Written, Jobs
<1>5. ~PowerCut
  BY DEF PowerCut, KeyInv, TypeOK
<1> QED
  BY <1>1, <1>2, <1>3, <1>4, <1>5 DEF Next

\* Where hard links work, a temporary key or a conversion takes its name only
\* while nothing has it, however long ago its handler looked.
THEOREM ExclusiveKeeps == Spec => ExclusiveNeverReplaces
<1> DEFINE Replaces(p, c) == /\ links /\ disk[p] # Absent /\ disk'[p] # disk[p] /\ disk'[p] # Absent
                             /\ disk'[p].by = c /\ cuts' = cuts
<1>1. ASSUME KeyInv, [Next]_vars, NEW p \in Paths, NEW c \in Calls, Replaces(p, c)
      PROVE  job[c].kind \notin Exclusive
  <2>1. Next
    BY <1>1 DEF vars
  <2>2. PICK d \in Calls :
            /\ disk' = [disk EXCEPT ![job[d].target] = bytes[d]]
            /\ job[d].target \in Paths
            /\ bytes[d].by = d
            /\ \/ pc[d] = "rename"
               \/ pc[d] = "link" /\ disk[job[d].target] = Absent
    BY <1>1, <2>1, OnlyPlacingReplaces
  <2>3. p = job[d].target /\ disk'[p] = bytes[d]
    BY <1>1, <2>2 DEF KeyInv, TypeOK
  <2>4. d = c /\ pc[c] = "rename"
    BY <1>1, <2>2, <2>3
  <2> QED
    BY <1>1, <2>4 DEF KeyInv, WriterInv
<1>2. KeyInv /\ [Next]_vars => [
        \A p \in Paths, c \in Calls :
            (links /\ disk[p] # Absent /\ disk'[p] # disk[p] /\ disk'[p] # Absent
                   /\ disk'[p].by = c /\ cuts' = cuts) => job[c].kind \notin Exclusive]_vars
  BY <1>1
<1> QED
  BY <1>2, KeyInvariant, PTL DEF Spec, ExclusiveNeverReplaces

-----------------------------------------------------------------------------

Acked == {c \in Calls : result[c] = "ok"}

LEMMA InitImplements == Init => Durable!Init
<1> SUFFICES ASSUME Init PROVE Durable!Init
  OBVIOUS
<1>1. TypeOK
  BY KeyInit DEF KeyInv
<1> QED
  BY <1>1 DEF Init, Durable!Init, TypeOK

\* A step that neither names a content nor acknowledges one is none of the
\* abstract files.
LEMMA QuietStep ==
    ASSUME UNCHANGED <<disk, onDisk>>,
           \A c \in Calls : result'[c] = "ok" <=> result[c] = "ok"
    PROVE  UNCHANGED Durable!vars
BY DEF Durable!vars

LEMMA FinishIsQuiet ==
    ASSUME KeyInv, NEW c \in Calls, pc[c] # "done", NEW reply \in {"failed", "exists"},
           Finish(c, reply), UNCHANGED <<files, job>>
    PROVE  UNCHANGED Durable!vars
<1>1. \A e \in Calls : result'[e] = "ok" <=> result[e] = "ok"
  BY DEF Finish, KeyInv, TypeOK, ReplyInv
<1> QED
  BY <1>1, QuietStep DEF files

LEMMA PlaceImplements ==
    ASSUME KeyInv, NEW c \in Calls, pc[c] \in {"link", "rename"}, Place(c), UNCHANGED result
    PROVE  Durable!Next
<1>1. /\ bytes[c] \in Contents /\ tmp[c] = "synced"
      /\ job[c].target \in Paths
  BY DEF KeyInv, WriterInv, Holding, JobInv, Jobs, Fits
<1>2. Durable!Replace(job[c].target, bytes[c])
  BY <1>1 DEF Place, Durable!Replace
<1> QED
  BY <1>1, <1>2 DEF Durable!Next

LEMMA HandlersImplement ==
    ASSUME KeyInv, NEW c \in Calls, Handlers(c)
    PROVE  UNCHANGED Durable!vars
<1>1. CASE Fails(c)
  BY <1>1, FinishIsQuiet DEF Fails, Fail
<1>2. CASE ~Fails(c)
  <2>1. UNCHANGED <<disk, onDisk, result>>
    BY <1>2 DEF Handlers, PfxChangePassword, YtksChangePassword, EngineChangePassword, PfxSave,
                YtksSave, SaveTemporaryPfx, EnrollStep2, ConvertPfxToYks, ConvertYksToPfx, Convert,
                Begin, Open, NewPasswords, Match, IssueTemporary, GoOn, files
  <2> QED
    BY <2>1, QuietStep
<1> QED
  BY <1>1, <1>2

LEMMA WriterImplements ==
    ASSUME KeyInv, NEW c \in Calls, Writer(c)
    PROVE  Durable!Next \/ UNCHANGED Durable!vars
<1>1. CASE WriteTemporary(c) \/ SyncTemporary(c) \/ Unlink(c)
  BY <1>1, QuietStep DEF WriteTemporary, SyncTemporary, Unlink, GoOn, files
<1>2. CASE Rename(c)
  BY <1>2, PlaceImplements DEF Rename, GoOn
<1>3. CASE HardLink(c)
  BY <1>3, PlaceImplements, FinishIsQuiet DEF HardLink, AlreadyExists, GoOn
<1>4. CASE HardLinkUnsupported(c)
  BY <1>4, FinishIsQuiet, QuietStep DEF HardLinkUnsupported, AlreadyExists, GoOn, files
<1>5. CASE SyncDirectory(c)
  <2>1. c \notin Acked
    BY <1>5 DEF SyncDirectory, Acked, KeyInv, ReplyInv
  <2>2. Acked' = Acked \cup {c}
    BY <1>5 DEF SyncDirectory, Finish, Acked, KeyInv, TypeOK
  <2>3. Durable!Acknowledge(c)
    BY <1>5, <2>1, <2>2 DEF SyncDirectory, Acked, Durable!Acknowledge
  <2> QED
    BY <2>3 DEF Durable!Next
<1> QED
  BY <1>1, <1>2, <1>3, <1>4, <1>5 DEF Writer

LEMMA PowerCutImplements ==
    ASSUME KeyInv, PowerCut
    PROVE  Durable!Next
<1>1. Acked' = Acked
  BY DEF PowerCut, Acked, KeyInv, ReplyInv, TypeOK
<1>2. \A p \in Paths : disk'[p] \in onDisk[p]
  BY DEF PowerCut
<1>3. disk' \in [Paths -> Contents \cup {Absent}]
  BY PowerCutInv DEF KeyInv, TypeOK
<1>4. Durable!PowerCut
  BY <1>1, <1>2, <1>3 DEF PowerCut, Acked, Durable!PowerCut
<1> QED
  BY <1>4 DEF Durable!Next

\* The writers' steps, whatever they interleave and wherever power fails, are
\* those of files that are replaced at once by complete contents and keep
\* what was acknowledged; all others are hidden.
THEOREM Refinement == Spec => IsDurable
<1>1. KeyInv /\ [Next]_vars => [Durable!Next]_(Durable!vars)
  <2> SUFFICES ASSUME KeyInv, [Next]_vars PROVE Durable!Next \/ UNCHANGED Durable!vars
    OBVIOUS
  <2>1. CASE Sessions
    BY <2>1, QuietStep
       DEF Sessions, PfxLoadKey, YtksLoadKey, PfxUnloadKey, YtksUnloadKey, LoadKey, UnloadKey
  <2>2. ASSUME NEW c \in Calls, Handlers(c) \/ Writer(c)
        PROVE  Durable!Next \/ UNCHANGED Durable!vars
    BY <2>2, HandlersImplement, WriterImplements
  <2>3. CASE PowerCut
    BY <2>3, PowerCutImplements
  <2>4. CASE UNCHANGED vars
    BY <2>4, QuietStep DEF vars
  <2> QED
    BY <2>1, <2>2, <2>3, <2>4 DEF Next
<1> QED
  BY <1>1, InitImplements, KeyInvariant, PTL DEF Spec, IsDurable, Durable!Spec
==============================================================================
