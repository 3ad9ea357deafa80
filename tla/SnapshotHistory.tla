--------------------------- MODULE SnapshotHistory ---------------------------
(***************************************************************************)
(* What the daemon promises a client, with every mechanism left out: the   *)
(* history of each workset is a forest of snapshots that can be read.  A   *)
(* snapshot is begun, copied and then committed once, under a snapshot of  *)
(* its own workset or as a root, or it is abandoned on the way.  One is    *)
(* only ever removed in two ways: as a leaf, which takes a prune, or as an *)
(* auto snapshot that no manual one descends from, which retention does.   *)
(* Its children then join its parent.  Nothing else changes the history:   *)
(* no restore, no failed request, no crash and no restart.  Where the      *)
(* copies are a provider's, a new copy may cost the oldest snapshot.       *)
(***************************************************************************)
EXTENDS SnapshotGraph

CONSTANTS
    Worksets,
    Id,
    ProviderEvicts  \* whether the copies belong to a provider that makes room

VARIABLES
    history,  \* identifier -> [ws, parent, auto] of each readable snapshot
    drafts    \* identifier -> how far the snapshot it was drawn for has come

Init ==
    /\ history = [i \in {} |-> None]
    /\ drafts = [i \in Id |-> "unused"]

Turn(i, from, to) ==
    /\ drafts[i] = from
    /\ drafts' = [drafts EXCEPT ![i] = to]

Begin(i) ==
    /\ Turn(i, "unused", "begun")
    /\ UNCHANGED history

Without(i) == DeleteRow(Reparent(history, i, history[i].parent), i)

\* A provider that is full takes the oldest snapshot to make room for the
\* copy, whoever descends from it.
Oldest == {i \in DOMAIN history : \A j \in DOMAIN history : i <= j}

Copy(i) ==
    /\ Turn(i, "begun", "made")
    /\ \/ UNCHANGED history
       \/ ProviderEvicts /\ \E old \in Oldest : history' = Without(old)

Commit(i, w, a, under) ==
    /\ Turn(i, "made", "done")
    /\ under \in Of(history, w) \union {None}
    /\ history' = PutSnapshot(history, i, [ws |-> w, parent |-> under, auto |-> a])

\* A snapshot that was never finished still uses up its identifier; a crash
\* abandons those of every workset at once.
Abandon(S) ==
    /\ \A i \in S : drafts[i] \in {"begun", "made"}
    /\ drafts' = [i \in Id |-> IF i \in S THEN "done" ELSE drafts[i]]
    /\ UNCHANGED history

Expendable(i) ==
    \/ Children(history, i) = {}
    \/ history[i].auto /\ i \notin ManualAncestors(history, history[i].ws)

Remove(i) ==
    /\ Expendable(i)
    /\ history' = Without(i)
    /\ UNCHANGED drafts

Next ==
    \/ \E i \in Id : Begin(i) \/ Copy(i)
    \/ \E i \in Id, w \in Worksets, a \in BOOLEAN, under \in DOMAIN history \union {None} :
          Commit(i, w, a, under)
    \/ \E S \in SUBSET Id : Abandon(S)
    \/ \E i \in DOMAIN history : Remove(i)

Spec == Init /\ [][Next]_<<history, drafts>>
==============================================================================
