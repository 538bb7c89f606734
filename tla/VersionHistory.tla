--------------------------- MODULE VersionHistory ---------------------------
(***************************************************************************)
(* What the control plane promises its readers about documents, whatever   *)
(* happens to jobs, sessions and processes: a document appears together    *)
(* with its first version, is afterwards at exactly one of its versions,   *)
(* and moves only to a version number it never had.  What was published    *)
(* under a number stays what it was.                                       *)
(***************************************************************************)
EXTENDS Naturals

CONSTANT Content

VARIABLES
    history, \* every version ever published: document, number, content
    current  \* the version each document is at

Published == [doc : Nat, ver : Nat \ {0}, hash : Content]

TypeOK == history \subseteq Published /\ current \subseteq history

Init == history = {} /\ current = {}

\* A new document at version 1.
Publish(p) ==
    /\ p \in Published
    /\ p.ver = 1
    /\ \A q \in history : q.doc # p.doc
    /\ history' = history \cup {p}
    /\ current' = current \cup {p}

\* A known document leaves version q for a version number it never had.
Supersede(q, p) ==
    /\ p \in Published
    /\ q \in current
    /\ q.doc = p.doc
    /\ \A r \in history : r.doc = p.doc => r.ver # p.ver
    /\ history' = history \cup {p}
    /\ current' = (current \ {q}) \cup {p}

\* One version per step is added to the history.
Next == \E p \in history' : Publish(p) \/ \E q \in current : Supersede(q, p)

Spec == Init /\ [][Next]_<<history, current>>
=============================================================================
