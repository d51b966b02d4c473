---------------------------- MODULE DurableFiles ----------------------------
(***************************************************************************)
(* What the key file writers promise, with none of their steps: a file is  *)
(* replaced at once by a complete content, a power cut may bring back a    *)
(* content it had since the last acknowledged write, and never an older    *)
(* one, a mixture or nothing.                                              *)
(***************************************************************************)
CONSTANTS Paths, Calls, Contents, Absent

VARIABLES
    files,      \* what each path shows
    pending,    \* what a power cut now may leave at each path
    acked       \* the calls whose write was reported as done

Init ==
    /\ files \in [Paths -> Contents \cup {Absent}]
    /\ pending = [p \in Paths |-> {files[p]}]
    /\ acked = {}

Replace(p, content) ==
    /\ content \in Contents
    /\ files' = [files EXCEPT ![p] = content]
    /\ pending' = [pending EXCEPT ![p] = @ \cup {content}]
    /\ UNCHANGED acked

\* A write is acknowledged only when nothing older can come back.
Acknowledge(c) ==
    /\ c \notin acked
    /\ acked' = acked \cup {c}
    /\ pending' = [p \in Paths |-> {files[p]}]
    /\ UNCHANGED files

PowerCut ==
    /\ files' \in [Paths -> Contents \cup {Absent}]
    /\ \A p \in Paths : files'[p] \in pending[p]
    /\ pending' = [p \in Paths |-> {files'[p]}]
    /\ UNCHANGED acked

Next ==
    \/ \E p \in Paths, content \in Contents : Replace(p, content)
    \/ \E c \in Calls : Acknowledge(c)
    \/ PowerCut

vars == <<files, pending, acked>>
Spec == Init /\ [][Next]_vars

=============================================================================
