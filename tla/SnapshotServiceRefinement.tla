---------------------- MODULE SnapshotServiceRefinement ----------------------
(***************************************************************************)
(* The daemon implements SnapshotHistory.  The history is what a client    *)
(* can read back: the rows with a complete handle behind them, each under  *)
(* its nearest ancestor of that kind.  How far a snapshot has come is      *)
(* where the goroutine is that has drawn its identifier: at the copy or at *)
(* its row; once no goroutine writes it, it is done with.                  *)
(***************************************************************************)
EXTENDS SnapshotService

Readable == {i \in DOMAIN rows : disk[i] = "whole"}

NearestReadable(i) ==
    LET A == Ancestors(rows, i) \intersect Readable
    IN  IF A = {} THEN None ELSE CHOOSE a \in A : \A b \in A : b <= a

ReadableHistory ==
    [i \in Readable |-> [ws |-> rows[i].ws, parent |-> NearestReadable(i), auto |-> rows[i].auto]]

\* The goroutines that write a snapshot under an identifier, at a point of it.
WritingAt(pc, i) == {p \in Procs : proc[p].pc = pc /\ proc[p].id = i}

Drafts ==
    [i \in Id |-> IF i >= next THEN "unused"
                 ELSE IF WritingAt("copy", i) # {} THEN "begun"
                 ELSE IF WritingAt("put", i) # {} THEN "made" ELSE "done"]

History == INSTANCE SnapshotHistory WITH history <- ReadableHistory, drafts <- Drafts,
                                         ProviderEvicts <- ProviderMax > 0

\* Clients see the promised history: see SnapshotHistory.
ImplementsHistory == History!Spec
==============================================================================
