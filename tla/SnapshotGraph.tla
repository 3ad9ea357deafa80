---------------------------- MODULE SnapshotGraph ----------------------------
(***************************************************************************)
(* The snapshots table of internal/store and the queries the service makes *)
(* of it.  A graph g is a function from the identifiers of the rows that   *)
(* exist to their columns:                                                 *)
(*                                                                         *)
(*   ws      workset_id                                                    *)
(*   parent  parent_id, None for NULL                                      *)
(*   auto    auto                                                          *)
(*   at      the row's place in ORDER BY created_at, id                    *)
(*                                                                         *)
(* label, backend, container and fs_handle are left out: the first three   *)
(* steer nothing, and a handle is named after its row.  Every operator is  *)
(* free of recursion: the walks of the store are stated as the least sets  *)
(* closed under the links they follow.                                     *)
(***************************************************************************)
EXTENDS Integers, FiniteSets

\* SQL NULL in parent_id.  Identifiers are positive.
None == 0

Row(Id, Worksets) ==
    [ws: Worksets, parent: Id \union {None}, auto: BOOLEAN, at: Id]

\* The rows of one workset.
Of(g, w) == {i \in DOMAIN g : g[i].ws = w}

\* ORDER BY created_at, id.
Before(g, i, j) ==
    \/ g[i].at < g[j].at
    \/ g[i].at = g[j].at /\ i < j

\* ORDER BY created_at DESC, id DESC LIMIT 1; None when there is no row.
LatestSnapshot(g, w) ==
    LET newest == {i \in Of(g, w) : \A j \in Of(g, w) \ {i} : Before(g, j, i)}
    IN  IF newest = {} THEN None ELSE CHOOSE i \in newest : TRUE

Children(g, i) == {j \in DOMAIN g : g[j].parent = i}

\* Every row reachable from the set base through parent links, base included.
UpClosed(g, S) == \A j \in S : g[j].parent \in DOMAIN g => g[j].parent \in S

Upward(g, base) ==
    {j \in DOMAIN g :
        \A S \in SUBSET DOMAIN g : (base \subseteq S /\ UpClosed(g, S)) => j \in S}

\* The parent chain of a node, the node left out.
Ancestors(g, i) == Upward(g, {g[i].parent} \intersect DOMAIN g)

\* The manual snapshots of a workset and all they descend from.
ManualAncestors(g, w) == Upward(g, {i \in Of(g, w) : ~g[i].auto})

\* A node and every descendant.  The root is in it whether or not its row
\* still stands: the caller passes the row it read.
DownClosed(g, S) == \A j \in DOMAIN g : g[j].parent \in S => j \in S

\* Mutant of Subtree: the children are never queried.
SubtreeOfOne(g, root) == {root}

Subtree(g, root) ==
    LET Nodes == DOMAIN g \union {root}
    IN  {j \in Nodes :
            \A S \in SUBSET Nodes : (root \in S /\ DownClosed(g, S)) => j \in S}

(***************************************************************************)
(* A forest whose links stay inside one workset and point to an earlier    *)
(* snapshot: what makes the walks above end.                               *)
(***************************************************************************)
Forest(g) ==
    \A i \in DOMAIN g :
        g[i].parent # None =>
            /\ g[i].parent \in DOMAIN g
            /\ g[i].parent < i
            /\ g[g[i].parent].ws = g[i].ws

\* INSERT.
PutSnapshot(g, i, row) == [j \in DOMAIN g \union {i} |-> IF j = i THEN row ELSE g[j]]

\* Mutants of Reparent: no WHERE clause; the new parent left out.
ReparentEveryRow(g, old, new) == [i \in DOMAIN g |-> [g[i] EXCEPT !.parent = new]]
ReparentToRoot(g, old, new) ==
    [i \in DOMAIN g |-> IF g[i].parent = old THEN [g[i] EXCEPT !.parent = None] ELSE g[i]]

\* UPDATE ... SET parent_id = new WHERE parent_id = old.
Reparent(g, old, new) ==
    [i \in DOMAIN g |-> IF g[i].parent = old THEN [g[i] EXCEPT !.parent = new] ELSE g[i]]

\* DELETE of one row.
DeleteRow(g, i) == [j \in DOMAIN g \ {i} |-> g[j]]

\* PRAGMA foreign_keys(1): what parent_id REFERENCES snapshots(id) lets pass.
MayPut(g, parent) == parent \in DOMAIN g \union {None}
MayReparent(g, old, new) == Children(g, old) = {} \/ new \in DOMAIN g \union {None}

\* DeleteSnapshot without cascade succeeds: the row is there and has no child.
MayDelete(g, i) == i \in DOMAIN g /\ Children(g, i) = {}

(***************************************************************************)
(* What retention takes: auto rows no manual snapshot descends from, and   *)
(* of those the oldest ones beyond keep.                                   *)
(***************************************************************************)
\* Mutant of Candidates: manual descendants protect nothing.
CandidatesUnprotected(g, w) == {i \in Of(g, w) : g[i].auto}

Candidates(g, w) == {i \in Of(g, w) : g[i].auto} \ ManualAncestors(g, w)

\* Mutant of Excess: the list comes newest first.
ExcessNewestFirst(g, w, keep) ==
    LET C == Candidates(g, w)
        Rank(i) == Cardinality({j \in C : Before(g, i, j)})
    IN  {i \in C : Rank(i) < Cardinality(C) - keep}

Excess(g, w, keep) ==
    LET C == Candidates(g, w)
        Rank(i) == Cardinality({j \in C : Before(g, j, i)})
    IN  {i \in C : Rank(i) < Cardinality(C) - keep}

\* The first of a set of rows in list order.
IsOldest(g, i, S) == i \in S /\ \A j \in S \ {i} : Before(g, i, j)
==============================================================================
