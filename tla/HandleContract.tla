--------------------------- MODULE HandleContract ---------------------------
(***************************************************************************)
(* What the service takes a handle for: one identifier of SnapshotService, *)
(* seen apart from the rest.  Its handle is not there, there in parts, or  *)
(* complete; it is complete at most once, and only out of the Create that  *)
(* began it.  A row is written over a complete handle and dropped when the *)
(* handle is gone.  A backend whose storage belongs to a provider promises *)
(* less: a copy can be lost at any time, and a delete reports no error.    *)
(***************************************************************************)
VARIABLES
    provider,  \* whether a provider owns the storage
    stage,     \* the identifier: new, in a create, spent
    disk,      \* absent, parts, whole
    row,       \* whether a row names it
    serving    \* whether the daemon answers requests

vars == <<provider, stage, disk, row, serving>>

Init ==
    /\ provider \in BOOLEAN
    /\ stage = "new"
    /\ disk = "absent"
    /\ row = FALSE
    /\ serving = TRUE

BeginCreate ==
    /\ serving /\ stage = "new"
    /\ stage' = "creating" /\ disk' = "parts"
    /\ UNCHANGED <<provider, row, serving>>

\* Complete, unless the provider took back a part of it meanwhile.
EndCreate ==
    /\ stage = "creating" /\ disk = "parts"
    /\ disk' \in {"whole"} \union (IF provider THEN {"parts"} ELSE {})
    /\ stage' = "created"
    /\ UNCHANGED <<provider, row, serving>>

\* An error of Create: what it made is gone, or some of it is left.
FailCreate ==
    /\ stage = "creating"
    /\ disk' \in {"absent", "parts"}
    /\ stage' = "spent"
    /\ UNCHANGED <<provider, row, serving>>

PutRow ==
    /\ stage = "created"
    /\ stage' = "spent" /\ row' = TRUE
    /\ UNCHANGED <<provider, disk, serving>>

FailPut ==
    /\ stage = "created"
    /\ stage' = "spent"
    /\ UNCHANGED <<provider, disk, row, serving>>

\* A delete begins, or the provider takes the copy.
Lose ==
    /\ disk = "whole" /\ (stage = "spent" \/ provider)
    /\ disk' = "parts"
    /\ UNCHANGED <<provider, stage, row, serving>>

\* A delete ends well.  A start that was removing the handle of no row then
\* serves.
EndDelete ==
    /\ stage = "spent" /\ disk = "parts"
    /\ disk' = "absent"
    /\ serving' \in {serving, serving \/ ~row}
    /\ UNCHANGED <<provider, stage, row>>

\* Only a provider's delete, which reports no error, can leave a handle whose
\* row goes.
DropRow ==
    /\ stage = "spent" /\ row
    /\ disk = "absent" \/ provider
    /\ row' = FALSE
    /\ UNCHANGED <<provider, stage, disk, serving>>

\* A crash, a stop, or a start that could not remove a handle.
Stop ==
    /\ serving' = FALSE
    /\ stage' = IF stage = "new" THEN "new" ELSE "spent"
    /\ UNCHANGED <<provider, disk, row>>

\* A start: a row without a handle goes, and so does one over a copy the
\* provider has taken.  No handle may be left that no row names, but for one
\* whose row goes in this start or that a provider's delete left.
Start ==
    /\ ~serving
    /\ \/ disk = "absent" /\ row' = FALSE
       \/ disk # "absent" /\ row /\ row' = TRUE
       \/ provider /\ (disk = "parts" \/ ~row) /\ row' = FALSE
    /\ serving' = TRUE
    /\ UNCHANGED <<provider, stage, disk>>

Next ==
    \/ BeginCreate \/ EndCreate \/ FailCreate \/ PutRow \/ FailPut
    \/ Lose \/ EndDelete \/ DropRow \/ Stop \/ Start

Spec == Init /\ [][Next]_vars
=============================================================================
