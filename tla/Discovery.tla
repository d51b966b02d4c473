------------------------------ MODULE Discovery ------------------------------
(***************************************************************************)
(* openimzo-keys::discovery: the disks, the keys listed on them and the    *)
(* file a request names.                                                   *)
(*                                                                         *)
(* A directory is a sequence of names.  A file system is [volumes, extra,  *)
(* dirs, files]: the configured roots, the directories there are, and the  *)
(* files, each [dir, stem, ext, kind, store]; store is None in a file that *)
(* does not parse.                                                         *)
(***************************************************************************)
EXTENDS KeyStores, FiniteSets

CONSTANTS
    DSKEYS,
    HiddenStem,     \* a stem that starts with a dot
    BadStem         \* an empty one, or one with a separator or a NUL

\* A configured root that is not a directory is passed over; each other one
\* counts, and its direct child of the name.
ListDisks(fs) ==
    LET roots == {r \in {fs.volumes} \cup fs.extra : r \in fs.dirs}
    IN  roots \cup {Append(r, DSKEYS) : r \in {r \in roots : Append(r, DSKEYS) \in fs.dirs}}

Below(disk, path) == IF path = "" THEN disk ELSE Append(disk, DSKEYS)

\* Mutant: the path of the request is left out.
Resolve_OnDisk(fs, disk, path, name, kind) ==
    IF path \in {"", DSKEYS} /\ disk \in ListDisks(fs) /\ name \notin {HiddenStem, BadStem}
    THEN <<disk, name, kind>>
    ELSE None

\* <<directory, stem, extension>>, or None.
Resolve(fs, disk, path, name, kind) ==
    IF /\ path \in {"", DSKEYS}
       /\ disk \in ListDisks(fs)
       /\ name \notin {HiddenStem, BadStem}
    THEN <<Below(disk, path), name, kind>>
    ELSE None

\* The extension is compared without its case.
HasExtension(f, kind) == f.ext = kind \/ (kind = "pfx" /\ f.ext = "PFX")

EntriesOf(f, kind) ==
    IF f.store = None \/ f.kind # kind THEN {}
    ELSE IF kind = "pfx" THEN RangeOf(ListAliases(f.store))
    ELSE {e.alias : e \in RangeOf(ListYtks(f.store))}

\* A site's answer has disk, path, name and alias; file is where it was.
ScanDisk(fs, kind, disk) ==
    UNION {UNION {{[disk |-> disk, path |-> path, name |-> f.stem, alias |-> a, file |-> f] :
                        a \in EntriesOf(f, kind)} :
                  f \in {f \in fs.files : f.dir = Below(disk, path) /\ HasExtension(f, kind)}} :
           path \in {"", DSKEYS}}

\* list_certificates, of a pfx or yks plugin.
ListCertificates(fs, kind, disk) ==
    IF disk \in ListDisks(fs) THEN ScanDisk(fs, kind, disk) ELSE None

\* One entry for a file and alias: that of the disk the file is in, where
\* there is one.
Scan(fs, kind) ==
    LET found == UNION {ScanDisk(fs, kind, disk) : disk \in ListDisks(fs)}
        Same(i, j) == i.file = j.file /\ i.alias = j.alias
    IN  {i \in found : i.path = "" \/ \A j \in found : Same(i, j) => j.path # ""}
=============================================================================
