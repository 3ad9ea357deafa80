------------------------- MODULE SnapshotGraphProofs -------------------------
(***************************************************************************)
(* What the statements of the store do to a graph, for any set of          *)
(* identifiers that are natural numbers and any set of worksets.           *)
(***************************************************************************)
EXTENDS SnapshotGraph, WellFoundedInduction, TLAPS

\* A table of rows.
IsGraph(g, Id, Worksets) ==
    /\ DOMAIN g \subseteq Id
    /\ g \in [DOMAIN g -> Row(Id, Worksets)]

\* The newest row is a row of its workset, or there is none.
LEMMA LatestIsARow ==
    ASSUME NEW g, NEW w, LatestSnapshot(g, w) # None
    PROVE  LatestSnapshot(g, w) \in Of(g, w)
BY DEF LatestSnapshot

\* INSERT: the table gains one row and keeps the others as they are.
LEMMA PutGives ==
    ASSUME NEW Id, NEW Worksets, NEW g, IsGraph(g, Id, Worksets),
           NEW i \in Id, NEW row \in Row(Id, Worksets)
    PROVE  /\ IsGraph(PutSnapshot(g, i, row), Id, Worksets)
           /\ DOMAIN PutSnapshot(g, i, row) = DOMAIN g \union {i}
           /\ PutSnapshot(g, i, row)[i] = row
           /\ \A j \in DOMAIN g \ {i} : PutSnapshot(g, i, row)[j] = g[j]
BY DEF PutSnapshot, IsGraph

\* UPDATE of parent_id: the same rows, and only the children of old change,
\* in their parent.
LEMMA ReparentGives ==
    ASSUME NEW Id, NEW Worksets, NEW g, IsGraph(g, Id, Worksets),
           NEW old \in Id \union {None}, NEW new \in Id \union {None}
    PROVE  /\ IsGraph(Reparent(g, old, new), Id, Worksets)
           /\ DOMAIN Reparent(g, old, new) = DOMAIN g
           /\ \A j \in DOMAIN g :
                 /\ Reparent(g, old, new)[j].ws = g[j].ws
                 /\ Reparent(g, old, new)[j].auto = g[j].auto
                 /\ Reparent(g, old, new)[j].at = g[j].at
                 /\ Reparent(g, old, new)[j].parent =
                       IF g[j].parent = old THEN new ELSE g[j].parent
BY DEF Reparent, IsGraph, Row

\* DELETE: the table loses one row and keeps the others as they are.
LEMMA DeleteGives ==
    ASSUME NEW Id, NEW Worksets, NEW g, IsGraph(g, Id, Worksets), NEW i \in Id
    PROVE  /\ IsGraph(DeleteRow(g, i), Id, Worksets)
           /\ DOMAIN DeleteRow(g, i) = DOMAIN g \ {i}
           /\ \A j \in DOMAIN g \ {i} : DeleteRow(g, i)[j] = g[j]
BY DEF DeleteRow, IsGraph

\* Inserting a new row under an earlier row of its workset, or as a root,
\* keeps the forest.
LEMMA PutKeepsForest ==
    ASSUME NEW Id, Id \subseteq Nat \ {0}, NEW Worksets, NEW g, IsGraph(g, Id, Worksets), Forest(g),
           NEW i \in Id \ DOMAIN g, NEW row \in Row(Id, Worksets),
           MayPut(g, row.parent), row.parent < i,
           row.parent \in DOMAIN g => g[row.parent].ws = row.ws
    PROVE  Forest(PutSnapshot(g, i, row))
<1> DEFINE h == PutSnapshot(g, i, row)
<1>1. DOMAIN h = DOMAIN g \union {i} /\ h[i] = row /\ \A j \in DOMAIN g \ {i} : h[j] = g[j]
  BY DEF PutSnapshot
<1>2. SUFFICES ASSUME NEW j \in DOMAIN h, h[j].parent # None
      PROVE  h[j].parent \in DOMAIN h /\ h[j].parent < j /\ h[h[j].parent].ws = h[j].ws
  BY DEF Forest
<1>3. CASE j = i
  BY <1>1, <1>2, <1>3 DEF MayPut
<1>4. CASE j # i
  BY <1>1, <1>2, <1>4 DEF Forest
<1> QED BY <1>3, <1>4

\* Handing the children of a row to an earlier row of its workset keeps the
\* forest, if the foreign key lets the statement pass.
LEMMA ReparentKeepsForest ==
    ASSUME NEW Id, Id \subseteq Nat \ {0}, NEW Worksets, NEW g, IsGraph(g, Id, Worksets), Forest(g),
           NEW old \in Id, NEW new \in Id \union {None}, MayReparent(g, old, new), new < old,
           new \in DOMAIN g /\ old \in DOMAIN g => g[new].ws = g[old].ws
    PROVE  Forest(Reparent(g, old, new))
<1> DEFINE h == Reparent(g, old, new)
<1>1. /\ DOMAIN h = DOMAIN g
      /\ \A j \in DOMAIN g : h[j].ws = g[j].ws
      /\ \A j \in DOMAIN g : h[j].parent = IF g[j].parent = old THEN new ELSE g[j].parent
  BY ReparentGives
<1>2. SUFFICES ASSUME NEW j \in DOMAIN g, h[j].parent # None
      PROVE  h[j].parent \in DOMAIN g /\ h[j].parent < j /\ h[h[j].parent].ws = h[j].ws
  BY <1>1 DEF Forest
<1>3. CASE g[j].parent = old
  <2>1. old \in DOMAIN g /\ old < j /\ g[old].ws = g[j].ws
    BY <1>3 DEF Forest, None
  <2>2. new \in DOMAIN g
    BY <1>1, <1>2, <1>3 DEF MayReparent, Children
  <2>3. new < j
    BY <2>1 DEF None, IsGraph
  <2> QED BY <1>1, <1>3, <2>1, <2>2, <2>3
<1>4. CASE g[j].parent # old
  BY <1>1, <1>2, <1>4 DEF Forest
<1> QED BY <1>3, <1>4

\* Deleting a row without children keeps the forest.
LEMMA DeleteKeepsForest ==
    ASSUME NEW Id, NEW Worksets, NEW g, IsGraph(g, Id, Worksets), Forest(g),
           NEW i \in Id, MayDelete(g, i)
    PROVE  Forest(DeleteRow(g, i))
<1> DEFINE h == DeleteRow(g, i)
<1>1. DOMAIN h = DOMAIN g \ {i} /\ \A j \in DOMAIN g \ {i} : h[j] = g[j]
  BY DEF DeleteRow
<1>2. \A j \in DOMAIN g : g[j].parent # i
  BY DEF MayDelete, Children
<1> QED BY <1>1, <1>2 DEF Forest

-----------------------------------------------------------------------------
(***************************************************************************)
(* The walks.  Upward is the least set closed under the links, so nothing  *)
(* about it needs induction: a set shown closed contains the walk, and a   *)
(* walk is shown to stay by carrying closed sets from one graph to the     *)
(* other.                                                                  *)
(***************************************************************************)
LEMMA UpwardWithin ==
    ASSUME NEW g, NEW base, NEW A \in SUBSET DOMAIN g, base \subseteq A, UpClosed(g, A)
    PROVE  Upward(g, base) \subseteq A
BY DEF Upward

\* The ancestors of a row are closed under parents.
LEMMA UpwardClosed ==
    ASSUME NEW g, NEW base
    PROVE  UpClosed(g, Upward(g, base))
<1> SUFFICES ASSUME NEW j \in Upward(g, base), g[j].parent \in DOMAIN g
             PROVE  g[j].parent \in Upward(g, base)
  BY DEF UpClosed
<1> SUFFICES ASSUME NEW S \in SUBSET DOMAIN g, base \subseteq S, UpClosed(g, S)
             PROVE  g[j].parent \in S
  BY DEF Upward
<1>1. j \in S
  BY DEF Upward
<1> QED BY <1>1 DEF UpClosed

\* A walk from more rows goes at least as far.
LEMMA UpwardGrows ==
    ASSUME NEW g, NEW b, NEW c, c \subseteq Upward(g, b)
    PROVE  Upward(g, c) \subseteq Upward(g, b)
<1>1. Upward(g, b) \in SUBSET DOMAIN g
  BY DEF Upward
<1> QED BY <1>1, UpwardClosed, UpwardWithin

\* A part of two graphs that is closed and the same in both has the same walks.
LEMMA UpwardKeeps ==
    ASSUME NEW g, NEW h, NEW A, A \subseteq DOMAIN g, A \subseteq DOMAIN h, UpClosed(g, A),
           \A j \in A : h[j].parent = g[j].parent,
           NEW base, base \subseteq A
    PROVE  Upward(g, base) \subseteq Upward(h, base)
<1> SUFFICES ASSUME NEW x \in Upward(g, base) PROVE x \in Upward(h, base)
  OBVIOUS
<1>1. x \in A
  BY UpwardWithin
<1>2. ASSUME NEW S \in SUBSET DOMAIN h, base \subseteq S, UpClosed(h, S) PROVE x \in S
  <2>1. UpClosed(g, S \intersect A)
    BY <1>2 DEF UpClosed
  <2>2. S \intersect A \in SUBSET DOMAIN g /\ base \subseteq S \intersect A
    BY <1>2
  <2> QED BY <2>1, <2>2 DEF Upward
<1> QED BY <1>1, <1>2 DEF Upward

\* A graph that only loses rows and shortens links has shorter walks.
LEMMA UpwardShrinks ==
    ASSUME NEW g, NEW h, DOMAIN h \subseteq DOMAIN g, NEW b, NEW c, c \subseteq DOMAIN h,
           \A S \in SUBSET DOMAIN g :
               b \subseteq S /\ UpClosed(g, S) => c \subseteq S /\ UpClosed(h, S \intersect DOMAIN h)
    PROVE  Upward(h, c) \subseteq Upward(g, b)
<1> SUFFICES ASSUME NEW x \in Upward(h, c),
                    NEW S \in SUBSET DOMAIN g, b \subseteq S, UpClosed(g, S)
             PROVE  x \in S
  BY DEF Upward
<1>1. c \subseteq S \intersect DOMAIN h /\ UpClosed(h, S \intersect DOMAIN h)
  OBVIOUS
<1> QED BY <1>1 DEF Upward

\* The row of the walk that is nobody's parent is one it began with.
LEMMA LeafIsNoAncestor ==
    ASSUME NEW g, NEW i, Children(g, i) = {}, NEW m \in DOMAIN g
    PROVE  i \notin Ancestors(g, m)
<1>1. UpClosed(g, DOMAIN g \ {i}) /\ {g[m].parent} \intersect DOMAIN g \subseteq DOMAIN g \ {i}
  BY DEF UpClosed, Children
<1> QED BY <1>1, UpwardWithin DEF Ancestors

\* In a forest a chain stays in its workset.
LEMMA WorksetClosed ==
    ASSUME NEW g, Forest(g), None \notin DOMAIN g, NEW w
    PROVE  UpClosed(g, Of(g, w))
BY DEF Forest, UpClosed, Of

\* The ancestors of a row belong to its workset.
LEMMA AncestorsOfWorkset ==
    ASSUME NEW g, Forest(g), None \notin DOMAIN g, NEW i \in DOMAIN g
    PROVE  Ancestors(g, i) \subseteq Of(g, g[i].ws)
<1>1. {g[i].parent} \intersect DOMAIN g \subseteq Of(g, g[i].ws)
  BY DEF Forest, Of
<1>2. Of(g, g[i].ws) \in SUBSET DOMAIN g
  BY DEF Of
<1> QED BY <1>1, <1>2, WorksetClosed, UpwardWithin DEF Ancestors

\* The ancestors of a manual snapshot are among ManualAncestors.
LEMMA ManualCoversChain ==
    ASSUME NEW g, NEW m \in DOMAIN g, ~g[m].auto
    PROVE  Ancestors(g, m) \subseteq ManualAncestors(g, g[m].ws)
<1> DEFINE base == {i \in Of(g, g[m].ws) : ~g[i].auto}
<1>1. m \in Upward(g, base)
  BY DEF Upward, Of
<1>2. {g[m].parent} \intersect DOMAIN g \subseteq Upward(g, base)
  BY <1>1, UpwardClosed DEF UpClosed
<1> HIDE DEF base
<1>3. Ancestors(g, m) \subseteq Upward(g, base)
  BY <1>2, UpwardGrows DEF Ancestors
<1> QED BY <1>3 DEF ManualAncestors, base

-----------------------------------------------------------------------------
(***************************************************************************)
(* What the statements do to the chain of a row.                           *)
(***************************************************************************)
\* A new row is on nobody's chain.
LEMMA PutKeepsChains ==
    ASSUME NEW g, Forest(g), NEW i, i \notin DOMAIN g, i # None, NEW row,
           NEW x \in DOMAIN g
    PROVE  Ancestors(PutSnapshot(g, i, row), x) = Ancestors(g, x)
<1> DEFINE h == PutSnapshot(g, i, row)
           base == {g[x].parent} \intersect DOMAIN g
<1>1. DOMAIN h = DOMAIN g \union {i} /\ \A j \in DOMAIN g : h[j] = g[j]
  BY DEF PutSnapshot
<1> HIDE DEF h
<1>2. {h[x].parent} \intersect DOMAIN h = base
  BY <1>1 DEF Forest
<1>3. UpClosed(g, DOMAIN g) /\ UpClosed(h, DOMAIN g)
  BY <1>1 DEF UpClosed, Forest
<1>4. DOMAIN g \subseteq DOMAIN g /\ DOMAIN g \subseteq DOMAIN h /\ base \subseteq DOMAIN g
  BY <1>1
<1> HIDE DEF base
<1>5. \A j \in DOMAIN g : h[j].parent = g[j].parent /\ g[j].parent = h[j].parent
  BY <1>1
<1>6. Upward(g, base) \subseteq Upward(h, base)
  BY <1>3, <1>4, <1>5, UpwardKeeps
<1>7. Upward(h, base) \subseteq Upward(g, base)
  BY <1>3, <1>4, <1>5, UpwardKeeps
<1> QED BY <1>2, <1>6, <1>7 DEF Ancestors, base, h

\* Deleting a leaf shortens no chain but its own.
LEMMA DeleteKeepsChains ==
    ASSUME NEW g, NEW i, Children(g, i) = {}, NEW x \in DOMAIN g, x # i
    PROVE  Ancestors(DeleteRow(g, i), x) = Ancestors(g, x)
<1> DEFINE h == DeleteRow(g, i)
           base == {g[x].parent} \intersect DOMAIN g
<1>1. DOMAIN h = DOMAIN g \ {i} /\ \A j \in DOMAIN h : h[j] = g[j]
  BY DEF DeleteRow
<1> HIDE DEF h
<1>2. \A j \in DOMAIN g : g[j].parent # i
  BY DEF Children
<1>3. {h[x].parent} \intersect DOMAIN h = base
  BY <1>1, <1>2
<1>4. UpClosed(g, DOMAIN h) /\ UpClosed(h, DOMAIN h)
  BY <1>1, <1>2 DEF UpClosed
<1>5. DOMAIN h \subseteq DOMAIN g /\ DOMAIN h \subseteq DOMAIN h /\ base \subseteq DOMAIN h
  BY <1>1, <1>2
<1> HIDE DEF base
<1>6. \A j \in DOMAIN h : h[j].parent = g[j].parent /\ g[j].parent = h[j].parent
  BY <1>1
<1>7. Upward(g, base) \subseteq Upward(h, base)
  BY <1>4, <1>5, <1>6, UpwardKeeps
<1>8. Upward(h, base) \subseteq Upward(g, base)
  BY <1>4, <1>5, <1>6, UpwardKeeps
<1> QED BY <1>3, <1>7, <1>8 DEF Ancestors, base, h

\* Handing the children of a row to its parent: no walk gains a row.
LEMMA ReparentShortensWalks ==
    ASSUME NEW g, NEW old \in DOMAIN g, NEW base, base \subseteq DOMAIN g
    PROVE  Upward(Reparent(g, old, g[old].parent), base) \subseteq Upward(g, base)
<1> DEFINE new == g[old].parent
           h == Reparent(g, old, new)
<1>1. /\ DOMAIN h = DOMAIN g
      /\ \A j \in DOMAIN g : h[j].parent = IF g[j].parent = old THEN new ELSE g[j].parent
  BY DEF Reparent
<1> HIDE DEF h
<1>2. ASSUME NEW S \in SUBSET DOMAIN g, UpClosed(g, S)
      PROVE  UpClosed(h, S \intersect DOMAIN h)
  BY <1>1, <1>2 DEF UpClosed
<1>3. Upward(h, base) \subseteq Upward(g, base)
  BY <1>1, <1>2, UpwardShrinks
<1> QED BY <1>3 DEF h

\* No chain gains a row, and none loses one but the row passed over.
LEMMA ReparentKeepsChains ==
    ASSUME NEW g, NEW old \in DOMAIN g, NEW x \in DOMAIN g
    PROVE  /\ Ancestors(Reparent(g, old, g[old].parent), x) \subseteq Ancestors(g, x)
           /\ Ancestors(g, x) \ {old} \subseteq Ancestors(Reparent(g, old, g[old].parent), x)
<1> DEFINE new == g[old].parent
           h == Reparent(g, old, new)
           b == {g[x].parent} \intersect DOMAIN g
           c == {h[x].parent} \intersect DOMAIN h
<1>1. /\ DOMAIN h = DOMAIN g
      /\ \A j \in DOMAIN g : h[j].parent = IF g[j].parent = old THEN new ELSE g[j].parent
  BY DEF Reparent
<1> HIDE DEF h
<1>2. Upward(h, c) \subseteq Upward(g, b)
  <2>1. ASSUME NEW S \in SUBSET DOMAIN g, b \subseteq S, UpClosed(g, S)
        PROVE  c \subseteq S /\ UpClosed(h, S \intersect DOMAIN h)
    BY <1>1, <2>1 DEF UpClosed
  <2>2. c \subseteq DOMAIN h /\ DOMAIN h \subseteq DOMAIN g
    BY <1>1
  <2> HIDE DEF b, c
  <2> QED BY <2>1, <2>2, UpwardShrinks
<1>3. Upward(g, b) \ {old} \subseteq Upward(h, c)
  <2> SUFFICES ASSUME NEW y \in Upward(g, b), y # old,
                      NEW S \in SUBSET DOMAIN h, c \subseteq S, UpClosed(h, S)
               PROVE  y \in S
    BY <1>1 DEF Upward
  <2>1. CASE new \in S \/ new \notin DOMAIN g
    <3>1. UpClosed(g, S \union {old}) /\ b \subseteq S \union {old}
      BY <1>1, <2>1 DEF UpClosed
    <3>2. S \union {old} \in SUBSET DOMAIN g
      BY <1>1
    <3> HIDE DEF b
    <3> QED BY <3>1, <3>2 DEF Upward
  <2>2. CASE new \in DOMAIN g \ S
    <3>1. UpClosed(g, S) /\ b \subseteq S
      BY <1>1, <2>2 DEF UpClosed
    <3>2. S \in SUBSET DOMAIN g
      BY <1>1
    <3> HIDE DEF b
    <3> QED BY <3>1, <3>2 DEF Upward
  <2> QED BY <2>1, <2>2
<1> QED BY <1>2, <1>3 DEF Ancestors, h

\* Statements that leave no link to lead further keep the cover of the manual
\* snapshots from growing.
LEMMA ReparentShrinksCover ==
    ASSUME NEW g, NEW old \in DOMAIN g, NEW w
    PROVE  ManualAncestors(Reparent(g, old, g[old].parent), w) \subseteq ManualAncestors(g, w)
<1> DEFINE h == Reparent(g, old, g[old].parent)
           base == {i \in Of(g, w) : ~g[i].auto}
<1>1. /\ DOMAIN h = DOMAIN g
      /\ \A j \in DOMAIN g : h[j].ws = g[j].ws /\ h[j].auto = g[j].auto
  BY DEF Reparent
<1>2. {i \in Of(h, w) : ~h[i].auto} = base /\ base \subseteq DOMAIN g
  BY <1>1 DEF Of
<1>3. Upward(h, base) \subseteq Upward(g, base)
  BY <1>2, ReparentShortensWalks
<1> QED BY <1>2, <1>3 DEF ManualAncestors

\* A row that goes adds nothing to the ancestors of manual nodes.
LEMMA DeleteShrinksCover ==
    ASSUME NEW g, NEW i, NEW w
    PROVE  ManualAncestors(DeleteRow(g, i), w) \subseteq ManualAncestors(g, w)
<1> DEFINE h == DeleteRow(g, i)
           b == {j \in Of(g, w) : ~g[j].auto}
           c == {j \in Of(h, w) : ~h[j].auto}
<1>1. DOMAIN h = DOMAIN g \ {i} /\ \A j \in DOMAIN h : h[j] = g[j]
  BY DEF DeleteRow
<1> HIDE DEF h
<1>2. c \subseteq b /\ c \subseteq DOMAIN h /\ DOMAIN h \subseteq DOMAIN g
  BY <1>1 DEF Of
<1>3. ASSUME NEW S \in SUBSET DOMAIN g, b \subseteq S, UpClosed(g, S)
      PROVE  c \subseteq S /\ UpClosed(h, S \intersect DOMAIN h)
  BY <1>1, <1>2, <1>3 DEF UpClosed
<1> HIDE DEF b, c
<1>4. Upward(h, c) \subseteq Upward(g, b)
  BY <1>2, <1>3, UpwardShrinks
<1> QED BY <1>4 DEF ManualAncestors, b, c, h

-----------------------------------------------------------------------------
(***************************************************************************)
(* One workset, seen by the holder of its lock: two tables with the same   *)
(* rows of it have the same chains, cover and newest row.                  *)
(***************************************************************************)
SameRows(g, h, w) == Of(h, w) = Of(g, w) /\ \A i \in Of(g, w) : h[i] = g[i]

\* The walks over a workset look only at its rows.
LEMMA SameRowsSameWalks ==
    ASSUME NEW g, NEW h, Forest(g), Forest(h), None \notin DOMAIN g, None \notin DOMAIN h,
           NEW w, SameRows(g, h, w), NEW base, base \subseteq Of(g, w)
    PROVE  Upward(h, base) = Upward(g, base)
<1>1. UpClosed(g, Of(g, w)) /\ UpClosed(h, Of(g, w))
  BY WorksetClosed DEF SameRows
<1>2. Of(g, w) \subseteq DOMAIN g /\ Of(g, w) \subseteq DOMAIN h
  BY DEF SameRows, Of
<1>3. \A j \in Of(g, w) : h[j].parent = g[j].parent /\ g[j].parent = h[j].parent
  BY DEF SameRows
<1>4. Upward(g, base) \subseteq Upward(h, base)
  BY <1>1, <1>2, <1>3, UpwardKeeps
<1>5. Upward(h, base) \subseteq Upward(g, base)
  BY <1>1, <1>2, <1>3, UpwardKeeps
<1> QED BY <1>4, <1>5

\* And so do the chains.
LEMMA SameRowsSameChains ==
    ASSUME NEW g, NEW h, Forest(g), Forest(h), None \notin DOMAIN g, None \notin DOMAIN h,
           NEW w, SameRows(g, h, w)
    PROVE  /\ \A i \in Of(g, w) : Ancestors(h, i) = Ancestors(g, i)
           /\ ManualAncestors(h, w) = ManualAncestors(g, w)
           /\ LatestSnapshot(h, w) = LatestSnapshot(g, w)
           /\ \A i \in Of(g, w) : Children(h, i) = Children(g, i)
<1>1. ASSUME NEW i \in Of(g, w) PROVE Ancestors(h, i) = Ancestors(g, i)
  <2> DEFINE base == {g[i].parent} \intersect DOMAIN g
  <2>1. base \subseteq Of(g, w)
    BY DEF Forest, Of
  <2>2. {h[i].parent} \intersect DOMAIN h = base
    BY DEF SameRows, Forest, Of
  <2> HIDE DEF base
  <2>3. Upward(h, base) = Upward(g, base)
    BY <2>1, SameRowsSameWalks
  <2> QED BY <2>2, <2>3 DEF Ancestors, base
<1>2. ManualAncestors(h, w) = ManualAncestors(g, w)
  <2> DEFINE base == {i \in Of(g, w) : ~g[i].auto}
  <2>1. base \subseteq Of(g, w) /\ {i \in Of(h, w) : ~h[i].auto} = base
    BY DEF SameRows
  <2> HIDE DEF base
  <2>2. Upward(h, base) = Upward(g, base)
    BY <2>1, SameRowsSameWalks
  <2> QED BY <2>1, <2>2 DEF ManualAncestors, base
<1>3. LatestSnapshot(h, w) = LatestSnapshot(g, w)
  <2> DEFINE N(x) == {i \in Of(x, w) : \A j \in Of(x, w) \ {i} : Before(x, j, i)}
  <2>1. \A i, j \in Of(g, w) : Before(h, i, j) = Before(g, i, j)
    BY DEF SameRows, Before
  <2>2. N(h) = N(g)
    BY <2>1 DEF SameRows
  <2>3. /\ LatestSnapshot(g, w) = IF N(g) = {} THEN None ELSE CHOOSE i \in N(g) : TRUE
        /\ LatestSnapshot(h, w) = IF N(h) = {} THEN None ELSE CHOOSE i \in N(h) : TRUE
    BY DEF LatestSnapshot
  <2> HIDE DEF N
  <2> QED BY <2>2, <2>3
<1>4. ASSUME NEW i \in Of(g, w) PROVE Children(h, i) = Children(g, i)
  <2>1. \A j \in Children(g, i) : j \in Of(g, w) /\ h[j].parent = i /\ j \in DOMAIN h
    BY DEF Children, Forest, Of, SameRows
  <2>2. \A j \in Children(h, i) : j \in Of(g, w) /\ g[j].parent = i /\ j \in DOMAIN g
    BY DEF Children, Forest, Of, SameRows
  <2> QED BY <2>1, <2>2 DEF Children
<1> QED BY <1>1, <1>2, <1>3, <1>4

-----------------------------------------------------------------------------
(***************************************************************************)
(* Subtree.                                                                *)
(***************************************************************************)
LEMMA SubtreeClosed ==
    ASSUME NEW g, NEW root
    PROVE  /\ DownClosed(g, Subtree(g, root))
           /\ root \in Subtree(g, root)
           /\ Subtree(g, root) \subseteq DOMAIN g \union {root}
<1> DEFINE Nodes == DOMAIN g \union {root}
<1>1. ASSUME NEW j \in DOMAIN g, g[j].parent \in Subtree(g, root) PROVE j \in Subtree(g, root)
  <2> SUFFICES ASSUME NEW S \in SUBSET Nodes, root \in S, DownClosed(g, S) PROVE j \in S
    BY DEF Subtree
  <2>1. g[j].parent \in S
    BY <1>1 DEF Subtree
  <2> QED BY <2>1 DEF DownClosed
<1>2. root \in Subtree(g, root) /\ Subtree(g, root) \subseteq Nodes
  BY DEF Subtree
<1> QED BY <1>1, <1>2 DEF DownClosed

\* A subtree is within any set that is closed downwards.
LEMMA SubtreeWithin ==
    ASSUME NEW g, NEW root, NEW S \in SUBSET (DOMAIN g \union {root}), root \in S, DownClosed(g, S)
    PROVE  Subtree(g, root) \subseteq S
BY DEF Subtree

\* A subtree is the root and rows that have the root on their chain.
LEMMA SubtreeDescends ==
    ASSUME NEW g, Forest(g), None \notin DOMAIN g, NEW root, root # None,
           NEW i \in Subtree(g, root), i # root
    PROVE  i \in DOMAIN g /\ root \in Ancestors(g, i)
<1> DEFINE D == {root} \union {j \in DOMAIN g : root \in Ancestors(g, j)}
<1>1. ASSUME NEW j \in DOMAIN g, g[j].parent \in D PROVE j \in D
  <2>1. g[j].parent \in DOMAIN g
    BY <1>1 DEF Forest
  <2>2. g[j].parent \in Ancestors(g, j)
    BY <2>1 DEF Ancestors, Upward
  <2>3. CASE root \in Ancestors(g, g[j].parent)
    <3> DEFINE k == g[j].parent
    <3>1. {g[k].parent} \intersect DOMAIN g \subseteq Ancestors(g, j)
      BY <2>2, UpwardClosed DEF Ancestors, UpClosed
    <3>2. Ancestors(g, k) \subseteq Ancestors(g, j)
      <4> DEFINE b == {g[j].parent} \intersect DOMAIN g
                 c == {g[k].parent} \intersect DOMAIN g
      <4>1. c \subseteq Upward(g, b)
        BY <3>1 DEF Ancestors
      <4> HIDE DEF b, c
      <4>2. Upward(g, c) \subseteq Upward(g, b)
        BY <4>1, UpwardGrows
      <4> QED BY <4>2 DEF Ancestors, b, c
    <3> QED BY <2>3, <3>2
  <2> QED BY <1>1, <2>2, <2>3
<1>2. D \in SUBSET (DOMAIN g \union {root}) /\ root \in D /\ DownClosed(g, D)
  BY <1>1 DEF DownClosed
<1> HIDE DEF D
<1>3. i \in D
  BY <1>2, SubtreeWithin
<1> QED BY <1>3 DEF D

\* A row without children is its own subtree.
LEMMA SubtreeOfLeaf ==
    ASSUME NEW g, NEW root, Children(g, root) = {}
    PROVE  Subtree(g, root) = {root}
<1>1. DownClosed(g, {root}) /\ {root} \in SUBSET (DOMAIN g \union {root})
  BY DEF DownClosed, Children
<1> QED BY <1>1, SubtreeWithin, SubtreeClosed

\* Everything in the subtree of a row is of the row's workset.
LEMMA SubtreeOfWorkset ==
    ASSUME NEW g, Forest(g), None \notin DOMAIN g, NEW root, root # None,
           NEW w, root \in DOMAIN g => g[root].ws = w,
           NEW i \in Subtree(g, root), i \in DOMAIN g
    PROVE  g[i].ws = w
<1> DEFINE S == {root} \union Of(g, w)
<1>1. ASSUME NEW j \in DOMAIN g, g[j].parent \in S PROVE j \in S
  BY <1>1 DEF Forest, Of
<1>2. S \in SUBSET (DOMAIN g \union {root}) /\ root \in S /\ DownClosed(g, S)
  BY <1>1 DEF DownClosed, Of
<1> HIDE DEF S
<1>3. i \in S
  BY <1>2, SubtreeWithin
<1> QED BY <1>3 DEF S, Of

-----------------------------------------------------------------------------
(***************************************************************************)
(* What a client reads of a graph g when only the rows in R can be read:   *)
(* each under the nearest of its ancestors that can.                       *)
(***************************************************************************)
Youngest(A) == IF A = {} THEN None ELSE CHOOSE a \in A : \A b \in A : b <= a

Nearest(g, R, i) == Youngest(Ancestors(g, i) \intersect R)

Reads(g, R) == [i \in R |-> [ws |-> g[i].ws, parent |-> Nearest(g, R, i), auto |-> g[i].auto]]

\* A row is younger than its ancestors.
LEMMA AncestorsAreEarlier ==
    ASSUME NEW g, DOMAIN g \subseteq Nat \ {0}, Forest(g), NEW i \in DOMAIN g
    PROVE  /\ Ancestors(g, i) \subseteq DOMAIN g
           /\ \A a \in Ancestors(g, i) : a < i
<1> DEFINE A == {a \in DOMAIN g : a < i}
<1>1. {g[i].parent} \intersect DOMAIN g \subseteq A
  BY DEF Forest, None
<1>2. UpClosed(g, A)
  <2> SUFFICES ASSUME NEW j \in A, g[j].parent \in DOMAIN g PROVE g[j].parent \in A
    BY DEF UpClosed
  <2>1. g[j].parent < j /\ j < i /\ j \in Nat /\ i \in Nat /\ g[j].parent \in Nat
    BY DEF Forest, None
  <2> QED BY <2>1
<1> QED BY <1>1, <1>2, UpwardWithin DEF Ancestors

\* The ancestors of a row are its parent and the parent's ancestors, and an
\* ancestor's ancestors are among them.
LEMMA AncestorsChain ==
    ASSUME NEW g, NEW i \in DOMAIN g
    PROVE  /\ g[i].parent \in DOMAIN g => g[i].parent \in Ancestors(g, i)
           /\ \A a \in Ancestors(g, i) :
                 /\ Ancestors(g, a) \subseteq Ancestors(g, i)
                 /\ a = g[i].parent \/ a \in Ancestors(g, g[i].parent)
<1> DEFINE p == g[i].parent
           b == {p} \intersect DOMAIN g
           S == b \union (IF p \in DOMAIN g THEN Ancestors(g, p) ELSE {})
<1>1. \A x : Ancestors(g, x) \subseteq DOMAIN g
  BY DEF Ancestors, Upward
<1>2. \A x : UpClosed(g, Ancestors(g, x))
  BY UpwardClosed DEF Ancestors
<1>3. \A x : {g[x].parent} \intersect DOMAIN g \subseteq Ancestors(g, x)
  BY DEF Ancestors, Upward
<1>4. ASSUME NEW a \in Ancestors(g, i) PROVE Ancestors(g, a) \subseteq Ancestors(g, i)
  <2>1. {g[a].parent} \intersect DOMAIN g \subseteq Upward(g, b)
    BY <1>2 DEF UpClosed, Ancestors
  <2> QED BY <2>1, UpwardGrows DEF Ancestors
<1>5. Ancestors(g, i) \subseteq S
  <2>1. S \in SUBSET DOMAIN g /\ b \subseteq S
    BY <1>1
  <2>2. UpClosed(g, S)
    BY <1>2, <1>3 DEF UpClosed
  <2> QED BY <2>1, <2>2, UpwardWithin DEF Ancestors
<1> QED BY <1>3, <1>4, <1>5

\* Of two ancestors of a row one is an ancestor of the other.
LEMMA AncestorsInLine ==
    ASSUME NEW g, NEW i \in DOMAIN g, NEW a \in Ancestors(g, i), NEW c \in Ancestors(g, i), a # c
    PROVE  a \in Ancestors(g, c) \/ c \in Ancestors(g, a)
<1> DEFINE S == {x \in DOMAIN g : x = a \/ x \in Ancestors(g, a) \/ a \in Ancestors(g, x)}
<1>1. a \in DOMAIN g
  BY DEF Ancestors, Upward
<1>2. UpClosed(g, S)
  <2> SUFFICES ASSUME NEW x \in S, g[x].parent \in DOMAIN g PROVE g[x].parent \in S
    BY DEF UpClosed
  <2>1. CASE x = a
    BY <1>1, <2>1, AncestorsChain
  <2>2. CASE x \in Ancestors(g, a)
    BY <2>2, UpwardClosed DEF Ancestors, UpClosed
  <2>3. CASE a \in Ancestors(g, x)
    BY <2>3, AncestorsChain
  <2> QED BY <2>1, <2>2, <2>3
<1>3. {g[i].parent} \intersect DOMAIN g \subseteq S
  BY AncestorsChain
<1>4. c \in S
  BY <1>2, <1>3, UpwardWithin DEF Ancestors
<1> QED BY <1>4

\* The nearest readable ancestor is one if there is any, and the youngest.
LEMMA NearestGives ==
    ASSUME NEW N \in Nat, NEW g, DOMAIN g \subseteq 1..N, NEW R, NEW i
    PROVE  LET A == Ancestors(g, i) \intersect R
               n == Nearest(g, R, i)
           IN  IF A = {} THEN n = None ELSE n \in A /\ \A a \in A : a <= n
<1> DEFINE A == Ancestors(g, i) \intersect R
           T == {N - a : a \in A}
           L == {ss \in Nat \X Nat : ss[1] < ss[2]}
<1>1. A \subseteq 1..N
  BY DEF Ancestors, Upward
<1>2. CASE A = {}
  BY <1>2 DEF Nearest, Youngest
<1>3. CASE A # {}
  <2>1. T \subseteq Nat /\ T # {}
    BY <1>1, <1>3
  <2>2. IsWellFoundedOn(L, Nat)
    BY NatLessThanWellFounded DEF OpToRel
  <2>3. \A x, y \in Nat : x < y => <<x, y>> \in L
    OBVIOUS
  <2> HIDE DEF L
  <2>4. PICK x \in T : \A y \in T : ~(<<y, x>> \in L)
    BY <2>1, <2>2, WFMin
  <2>5. PICK n \in A : x = N - n
    OBVIOUS
  <2>6. \A a \in A : a <= n
    <3> SUFFICES ASSUME NEW a \in A PROVE a <= n
      OBVIOUS
    <3>1. ~(N - a < N - n)
      BY <2>1, <2>3, <2>4, <2>5
    <3> QED BY <1>1, <3>1
  <2> HIDE DEF A
  <2>7. \E m \in A : \A a \in A : a <= m
    BY <2>6
  <2>8. Nearest(g, R, i) = CHOOSE m \in A : \A a \in A : a <= m
    BY <1>3 DEF Nearest, Youngest, A
  <2> QED BY <1>3, <2>7, <2>8 DEF A
<1> QED BY <1>2, <1>3

\* What can be read above a row is all there is to it.
LEMMA NearestSame ==
    ASSUME NEW g, NEW R, NEW i, NEW h, NEW S, NEW j,
           Ancestors(g, i) \intersect R = Ancestors(h, j) \intersect S
    PROVE  Nearest(g, R, i) = Nearest(h, S, j)
BY DEF Nearest

\* What is read is under something that is read, of the same workset.
LEMMA NearestOfWorkset ==
    ASSUME NEW N \in Nat, NEW g, DOMAIN g \subseteq 1..N, Forest(g),
           NEW R, R \subseteq DOMAIN g, NEW i \in DOMAIN g
    PROVE  Nearest(g, R, i) \in {None} \union {a \in R : g[a].ws = g[i].ws}
<1>1. None \notin DOMAIN g
  BY DEF None
<1> QED BY <1>1, NearestGives, AncestorsOfWorkset DEF Of

\* Chains that are the same as far as they are read are read the same.
LEMMA ReadsSame ==
    ASSUME NEW g, NEW h, NEW R,
           \A i \in R : /\ h[i].ws = g[i].ws /\ h[i].auto = g[i].auto
                        /\ Ancestors(h, i) \intersect R = Ancestors(g, i) \intersect R
    PROVE  Reads(h, R) = Reads(g, R)
BY DEF Reads, Nearest

\* An INSERT of a readable snapshot adds it under the nearest one above it.
LEMMA ReadsOneMore ==
    ASSUME NEW N \in Nat, NEW g, DOMAIN g \subseteq 1..N, Forest(g),
           NEW R, R \subseteq DOMAIN g, NEW i \in (1..N) \ DOMAIN g, NEW row,
           Forest(PutSnapshot(g, i, row))
    PROVE  LET h == PutSnapshot(g, i, row)
               under == Nearest(h, R \union {i}, i)
           IN  /\ Reads(h, R \union {i}) =
                      PutSnapshot(Reads(g, R), i, [ws |-> row.ws, parent |-> under, auto |-> row.auto])
               /\ under \in Of(Reads(g, R), row.ws) \union {None}
<1> DEFINE h == PutSnapshot(g, i, row)
           under == Nearest(h, R \union {i}, i)
           new == [ws |-> row.ws, parent |-> under, auto |-> row.auto]
<1>1. DOMAIN h = DOMAIN g \union {i} /\ h[i] = row /\ \A j \in DOMAIN g : h[j] = g[j]
  BY DEF PutSnapshot
<1>2. ASSUME NEW j \in R
      PROVE  Nearest(h, R \union {i}, j) = Nearest(g, R, j)
  <2>1. Ancestors(h, j) = Ancestors(g, j)
    BY PutKeepsChains DEF None
  <2>2. Ancestors(g, j) \subseteq DOMAIN g
    BY DEF Ancestors, Upward
  <2>3. Ancestors(h, j) \intersect (R \union {i}) = Ancestors(g, j) \intersect R
    BY <2>1, <2>2
  <2> QED BY <2>3, NearestSame
<1>3. under \in {None} \union {a \in R \union {i} : h[a].ws = row.ws}
  BY <1>1, NearestOfWorkset
<1>4. under # i
  <2>1. i \notin Ancestors(h, i)
    BY <1>1, AncestorsAreEarlier
  <2> QED BY <1>1, <2>1, NearestGives DEF None
<1> HIDE DEF under
<1>5. Reads(h, R \union {i}) = [j \in R \union {i} |-> IF j = i THEN new ELSE Reads(g, R)[j]]
  BY <1>1, <1>2 DEF Reads, under
<1>6. under \in Of(Reads(g, R), row.ws) \union {None}
  BY <1>1, <1>3, <1>4 DEF Of, Reads
<1> QED BY <1>5, <1>6 DEF PutSnapshot, Reads, under

\* Where a snapshot can no longer be read its children join its parent.
LEMMA ReadsOneLess ==
    ASSUME NEW N \in Nat, NEW g, DOMAIN g \subseteq 1..N, Forest(g),
           NEW R, R \subseteq DOMAIN g, NEW x \in R
    PROVE  Reads(g, R \ {x}) = DeleteRow(Reparent(Reads(g, R), x, Reads(g, R)[x].parent), x)
<1> DEFINE H == Reads(g, R)
           S == R \ {x}
<1>1. ASSUME NEW j \in S
      PROVE  Nearest(g, S, j) = IF Nearest(g, R, j) = x THEN Nearest(g, R, x) ELSE Nearest(g, R, j)
  <2> DEFINE A == Ancestors(g, j) \intersect R
             B == Ancestors(g, j) \intersect S
  <2>1. A \subseteq 1..N /\ B = A \ {x} /\ x \in 1..N /\ x # None
    BY DEF None
  <2>2. CASE Nearest(g, R, j) = x
    <3>1. x \in A /\ \A a \in A : a <= x
      BY <2>1, <2>2, NearestGives
    <3>2. B = Ancestors(g, x) \intersect R
      <4>1. Ancestors(g, x) \subseteq Ancestors(g, j) /\ x \notin Ancestors(g, x)
        BY <3>1, AncestorsChain, AncestorsAreEarlier
      <4>2. ASSUME NEW b \in B PROVE b \in Ancestors(g, x)
        <5>1. ~(x < b) /\ b \in DOMAIN g /\ b # x
          BY <2>1, <3>1
        <5>2. x \notin Ancestors(g, b)
          BY <5>1, AncestorsAreEarlier
        <5> QED BY <3>1, <5>1, <5>2, AncestorsInLine
      <4> QED BY <4>1, <4>2
    <3> QED BY <2>2, <3>2, NearestSame
  <2>3. CASE Nearest(g, R, j) # x
    <3> DEFINE n == Nearest(g, R, j)
    <3>1. CASE A = {}
      BY <2>1, <2>3, <3>1, NearestSame
    <3>2. CASE A # {}
      <4>1. n \in A /\ \A a \in A : a <= n
        BY <3>2, NearestGives
      <4>2. n \in B /\ \A b \in B : b <= n
        BY <2>1, <2>3, <4>1
      <4>3. Nearest(g, S, j) \in B /\ \A b \in B : b <= Nearest(g, S, j)
        BY <4>2, NearestGives
      <4>4. \A m \in B : m \in Nat
        BY <2>1
      <4> HIDE DEF n
      <4>5. n = Nearest(g, S, j)
        BY <4>2, <4>3, <4>4
      <4> QED BY <2>3, <4>5 DEF n
    <3> QED BY <3>1, <3>2
  <2> QED BY <2>2, <2>3
<1>2. DOMAIN H = R /\ H[x].parent = Nearest(g, R, x)
  BY DEF Reads
<1>3. \A j \in S : Reads(g, S)[j] = IF H[j].parent = x THEN [H[j] EXCEPT !.parent = H[x].parent] ELSE H[j]
  BY <1>1, <1>2 DEF Reads
<1>4. Reads(g, S) = [j \in S |-> Reads(g, S)[j]]
  BY DEF Reads
<1> QED BY <1>2, <1>3, <1>4 DEF DeleteRow, Reparent

\* A leaf is read as a leaf.
LEMMA ReadsLeaf ==
    ASSUME NEW N \in Nat, NEW g, DOMAIN g \subseteq 1..N, NEW R, R \subseteq DOMAIN g,
           NEW x \in R, Children(g, x) = {}
    PROVE  Children(Reads(g, R), x) = {}
<1> SUFFICES ASSUME NEW j \in R, Nearest(g, R, j) = x PROVE FALSE
  BY DEF Children, Reads
<1>1. x # None
  BY DEF None
<1> QED BY <1>1, NearestGives, LeafIsNoAncestor

\* What a manual snapshot is read to descend from it descends from.
LEMMA ReadsCover ==
    ASSUME NEW N \in Nat, NEW g, DOMAIN g \subseteq 1..N, NEW R, R \subseteq DOMAIN g, NEW w
    PROVE  ManualAncestors(Reads(g, R), w) \subseteq ManualAncestors(g, w)
<1> DEFINE H == Reads(g, R)
           M == ManualAncestors(g, w)
           base == {i \in Of(g, w) : ~g[i].auto}
<1>1. DOMAIN H = R /\ \A i \in R : H[i].ws = g[i].ws /\ H[i].auto = g[i].auto
  BY DEF Reads
<1>2. base \subseteq M /\ M \subseteq DOMAIN g /\ UpClosed(g, M)
  BY UpwardClosed DEF ManualAncestors, Upward, Of
<1>3. \A j \in M : Ancestors(g, j) \subseteq M
  <2> SUFFICES ASSUME NEW j \in M PROVE Ancestors(g, j) \subseteq M
    OBVIOUS
  <2>1. {g[j].parent} \intersect DOMAIN g \subseteq M
    BY <1>2 DEF UpClosed
  <2> QED BY <2>1, UpwardGrows DEF Ancestors, ManualAncestors
<1>4. UpClosed(H, M \intersect R)
  <2> SUFFICES ASSUME NEW j \in M \intersect R, H[j].parent \in R PROVE H[j].parent \in M \intersect R
    BY <1>1 DEF UpClosed
  <2>1. H[j].parent = Nearest(g, R, j) /\ H[j].parent # None
    BY DEF Reads, None
  <2>2. Nearest(g, R, j) \in Ancestors(g, j)
    BY <2>1, NearestGives
  <2> QED BY <1>3, <2>1, <2>2
<1>5. {i \in Of(H, w) : ~H[i].auto} \subseteq M \intersect R /\ M \intersect R \in SUBSET DOMAIN H
  BY <1>1, <1>2 DEF Of
<1> QED BY <1>4, <1>5, UpwardWithin DEF ManualAncestors
==============================================================================
