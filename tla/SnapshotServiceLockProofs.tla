----------------------- MODULE SnapshotServiceLockProofs -----------------------
(***************************************************************************)
(* What the mutex of a workset gives the goroutine that holds it, and the  *)
(* properties of SnapshotService that rest on it, for every number of      *)
(* worksets, requests, snapshots and crashes and every set of faults.      *)
(*                                                                         *)
(* The argument is one of rely and guarantee.  A goroutine changes rows of *)
(* the workset it has locked and of no other (SameRows), so what it read   *)
(* of its workset under the lock still holds when it writes (Keeps).       *)
(***************************************************************************)
EXTENDS SnapshotServiceProofs

USE DEF None

\* Under the lock.
Inside(me) == me.pc \notin {"idle", "lock"}

\* Taking rows, one after the other.
Taking(me) == me.pc \in {"free", "freeing", "reparent", "drop"}

MutexHeld == \A p \in Procs : Inside(proc[p]) => lock[proc[p].ws] = p

(***************************************************************************)
(* What a goroutine inside knows of the graph g:                           *)
(*   - its new node hangs under the newest row, or under the target once a *)
(*     restore has landed;                                                 *)
(*   - the rows it takes are of its workset;                               *)
(*   - those retention takes are covered by no manual snapshot, and the    *)
(*     one in hand is still where it was when its handle went;             *)
(*   - those a prune takes make up all there is below each of them, and    *)
(*     descend from the target; the one in hand is a leaf.                 *)
(***************************************************************************)
WritesWell(me, g) ==
    me.pc \in {"copy", "put"} => me.up = (IF me.landed THEN me.target
                                          ELSE LatestSnapshot(g, me.ws))

TakesOwn(me, g) ==
    /\ Taking(me) => \A i \in me.todo \intersect DOMAIN g : g[i].ws = me.ws
    /\ Taking(me) /\ me.pc # "free" /\ me.cur \in DOMAIN g => g[me.cur].ws = me.ws

RetainsWell(me, g) ==
    /\ me.pc \in {"list", "reparent"} => Retains(me)
    /\ Retains(me) /\ Taking(me) => me.todo \intersect ManualAncestors(g, me.ws) = {}
    /\ Retains(me) /\ me.pc \in {"freeing", "reparent"} =>
          me.cur \in DOMAIN g /\ me.up = g[me.cur].parent
    /\ Retains(me) /\ me.pc = "drop" => me.cur \in DOMAIN g

PrunesWell(me, g) ==
    /\ Taking(me) /\ ~Retains(me) =>
          /\ me.op \in Removes
          /\ DownClosed(g, me.todo)
          /\ \A i \in me.todo \ {me.target} :
                me.op = "cascade" /\ i \in DOMAIN g /\ me.target \in Ancestors(g, i)
    /\ me.pc = "freeing" /\ ~Retains(me) => Children(g, me.cur) = {}
    /\ me.pc = "drop" => Children(g, me.cur) = {}

\* Only a restore lands, and it has a target.
RestoresWell(me) ==
    /\ me.landed => Inside(me) /\ me.op = "restore"
    /\ me.op = "restore" => me.target # None
    /\ me.pc \in {"begin", "copy", "put"} => me.op \in Writes \union {"restore"}
    /\ me.pc = "restore" => me.op = "restore"

Keeps(me, g) ==
    /\ RestoresWell(me)
    /\ WritesWell(me, g)
    /\ TakesOwn(me, g)
    /\ RetainsWell(me, g)
    /\ PrunesWell(me, g)

LInv == IInv /\ MutexHeld /\ \A p \in Procs : Keeps(proc[p], rows)

\* A delete that answers no error has removed the handle: every backend but
\* one with a provider, which swallows the errors of a delete.
Reported == ProviderMax = 0 \/ "delete" \notin Faults

\* A row goes after its handle, and a request whose target is gone finds no
\* handle to read.
GoneIsGone ==
    Reported => \A p \in Procs :
        /\ proc[p].pc \in {"reparent", "drop"} => disk[proc[p].cur] = "absent"
        /\ proc[p].pc # "idle" /\ proc[p].target # None =>
              \/ proc[p].target \in DOMAIN rows
              \/ ~proc[p].landed /\ disk[proc[p].target] = "absent"

-----------------------------------------------------------------------------
\* What the type of the table says of a row.
LEMMA RowFacts ==
    ASSUME IInv
    PROVE  /\ Forest(rows) /\ None \notin DOMAIN rows /\ DOMAIN rows \subseteq Id
           /\ IsGraph(rows, Id, Worksets)
           /\ \A i \in DOMAIN rows : rows[i].ws \in Worksets /\ rows[i].parent \in Id \union {None}
BY IdFacts, GraphType DEF IInv, TypeOK, GraphIntact, Row

\* What the type of the lock says of a workset.
LEMMA LockFacts ==
    ASSUME LInv, NEW p \in Procs
    PROVE  /\ IInv /\ proc[p] \in ProcRec /\ Sound(proc[p], rows, next) /\ Keeps(proc[p], rows)
           /\ p # None
           /\ proc[p].pc # "idle" => proc[p].ws \in Worksets /\ proc[p].op # "none"
           /\ \A q \in Procs \ {p} :
                 Inside(proc[p]) /\ Inside(proc[q]) => proc[q].ws # proc[p].ws
BY ProcFacts, ProcsAssumption DEF LInv, MutexHeld, Sound

\* What a goroutine knows of its workset survives what is done to others.
LEMMA KeepsAcross ==
    ASSUME NEW me \in ProcRec, NEW g, NEW h, NEW n, Keeps(me, g), Sound(me, g, n),
           Forest(g), Forest(h), None \notin DOMAIN g, None \notin DOMAIN h,
           SameRows(g, h, me.ws),
           \A i \in Refs(me) : i \in DOMAIN h => i \in DOMAIN g /\ h[i].ws = g[i].ws
    PROVE  Keeps(me, h)
<1> DEFINE w == me.ws
<1>1. /\ \A i \in Of(g, w) : Ancestors(h, i) = Ancestors(g, i)
      /\ ManualAncestors(h, w) = ManualAncestors(g, w)
      /\ LatestSnapshot(h, w) = LatestSnapshot(g, w)
      /\ \A i \in Of(g, w) : Children(h, i) = Children(g, i)
  BY SameRowsSameChains
<1>2. RestoresWell(me) /\ WritesWell(me, h)
  BY <1>1 DEF Keeps, WritesWell
<1>3. TakesOwn(me, h)
  BY DEF Keeps, TakesOwn, Refs
<1>4. /\ Taking(me) => \A i \in me.todo \intersect DOMAIN h : i \in Of(g, w) /\ h[i] = g[i]
      /\ Taking(me) /\ me.pc # "free" /\ me.cur \in DOMAIN h =>
            me.cur \in Of(g, w) /\ h[me.cur] = g[me.cur]
  BY DEF Keeps, TakesOwn, Refs, SameRows, Of
<1>5. RetainsWell(me, h)
  <2>1. Taking(me) /\ me.pc # "free" /\ me.cur \in DOMAIN g => me.cur \in Of(g, w)
    BY DEF Keeps, TakesOwn, Of
  <2>2. \A i \in Of(g, w) : i \in DOMAIN h /\ h[i] = g[i]
    BY DEF SameRows, Of
  <2> QED BY <1>1, <2>1, <2>2 DEF Keeps, RetainsWell, Taking
<1>6. PrunesWell(me, h)
  <2>1. None \notin me.todo
    BY IdFacts DEF ProcRec
  <2>2. ASSUME Taking(me), ~Retains(me) PROVE DownClosed(h, me.todo)
    <3> SUFFICES ASSUME NEW j \in DOMAIN h, h[j].parent \in me.todo PROVE j \in me.todo
      BY DEF DownClosed
    <3>1. h[j].parent \in DOMAIN h /\ h[j].parent \in Of(g, w) /\ h[h[j].parent].ws = h[j].ws
      BY <1>4, <2>1, <2>2 DEF Forest
    <3>2. j \in Of(g, w) /\ g[j] = h[j] /\ j \in DOMAIN g
      BY <1>4, <2>2, <3>1 DEF Of, SameRows
    <3> QED BY <2>2, <3>2 DEF Keeps, PrunesWell, DownClosed
  <2>3. me.pc \in {"freeing", "drop"} /\ Children(g, me.cur) = {} => Children(h, me.cur) = {}
    <3> SUFFICES ASSUME me.pc \in {"freeing", "drop"}, Children(g, me.cur) = {},
                        NEW j \in DOMAIN h, h[j].parent = me.cur
                 PROVE  FALSE
      BY DEF Children
    <3>1. me.cur # None
      BY IdFacts DEF Sound
    <3>2. me.cur \in Of(g, w)
      BY <1>4, <3>1 DEF Forest, Taking
    <3> QED BY <1>1, <3>2 DEF Children
  <2>4. Taking(me) /\ ~Retains(me) =>
            /\ me.op \in Removes
            /\ \A i \in me.todo \ {me.target} :
                  me.op = "cascade" /\ i \in DOMAIN h /\ me.target \in Ancestors(h, i)
    <3>1. Taking(me) => \A i \in me.todo \intersect DOMAIN g : i \in Of(g, w) /\ i \in DOMAIN h
      BY DEF Keeps, TakesOwn, SameRows, Of
    <3> QED BY <1>1, <3>1 DEF Keeps, PrunesWell
  <2> QED BY <2>2, <2>3, <2>4 DEF Keeps, PrunesWell
<1> QED BY <1>2, <1>3, <1>5, <1>6 DEF Keeps

(***************************************************************************)
(* A step of a goroutine inside that stays inside: it changes rows of its  *)
(* own workset only, and adds none that another goroutine refers to.       *)
(***************************************************************************)
LEMMA InsideStep ==
    ASSUME LInv, IInv', NEW p \in Procs, Inside(proc[p]), NEW r \in ProcRec, Move(p, r),
           r.ws = proc[p].ws, lock' = lock, Keeps(r, rows'),
           \A w \in Worksets \ {proc[p].ws} : SameRows(rows, rows', w),
           \A q \in Procs \ {p} : \A i \in Refs(proc[q]) :
               i \in DOMAIN rows' => i \in DOMAIN rows /\ rows'[i].ws = rows[i].ws
    PROVE  LInv'
<1>1. proc'[p] = r /\ \A q \in Procs \ {p} : proc'[q] = proc[q]
  BY MoveGives DEF LInv, IInv
<1>2. MutexHeld'
  BY <1>1 DEF LInv, MutexHeld
<1>3. ASSUME NEW q \in Procs PROVE Keeps(proc'[q], rows')
  <2>1. CASE q = p
    BY <1>1, <2>1
  <2>2. CASE q # p /\ Inside(proc[q])
    <3>1. proc[q].ws \in Worksets \ {proc[p].ws}
      BY <2>2, LockFacts DEF Inside
    <3>2. SameRows(rows, rows', proc[q].ws)
      BY <3>1
    <3>3. Forest(rows) /\ None \notin DOMAIN rows /\ Forest(rows') /\ None \notin DOMAIN rows'
      BY RowFacts, IdFacts DEF LInv, IInv, TypeOK, GraphIntact
    <3>4. proc[q] \in ProcRec /\ Sound(proc[q], rows, next) /\ Keeps(proc[q], rows)
      BY LockFacts
    <3>5. Keeps(proc[q], rows')
      BY <2>2, <3>2, <3>3, <3>4, KeepsAcross
    <3> QED BY <1>1, <2>2, <3>5
  <2>3. CASE q # p /\ ~Inside(proc[q])
    BY <1>1, <2>3, LockFacts DEF Keeps, Inside, Taking, WritesWell, TakesOwn, RetainsWell, PrunesWell
  <2> QED BY <2>1, <2>2, <2>3
<1> QED BY <1>2, <1>3 DEF LInv

\* The same for a step that leaves the table alone.
LEMMA InsideStay ==
    ASSUME LInv, IInv', NEW p \in Procs, Inside(proc[p]), NEW r \in ProcRec, Move(p, r),
           r.ws = proc[p].ws, lock' = lock, rows' = rows, Keeps(r, rows)
    PROVE  LInv'
BY InsideStep DEF SameRows

\* A point of a goroutine where it knows nothing of the graph.
LEMMA KeepsNothing ==
    ASSUME NEW me \in ProcRec, NEW r \in ProcRec, NEW g, RestoresWell(r),
           r.pc \in {"idle", "lock", "begin", "restore", "select", "unlock"}
    PROVE  Keeps(r, g)
BY DEF Keeps, Inside, Taking, WritesWell, TakesOwn, RetainsWell, PrunesWell

-----------------------------------------------------------------------------
(***************************************************************************)
(* Requests and the lock.                                                  *)
(***************************************************************************)
LEMMA OutsideStep ==
    ASSUME LInv, IInv', NEW p \in Procs, NEW r \in ProcRec, Move(p, r), ~Inside(r),
           RestoresWell(r), rows' = rows,
           \A q \in Procs \ {p} : Inside(proc[q]) => lock'[proc[q].ws] = q
    PROVE  LInv'
<1>1. proc'[p] = r /\ \A q \in Procs \ {p} : proc'[q] = proc[q]
  BY MoveGives DEF LInv, IInv
<1>2. MutexHeld'
  BY <1>1 DEF MutexHeld
<1>3. Keeps(r, rows)
  BY KeepsNothing DEF Inside
<1>4. \A q \in Procs : Keeps(proc'[q], rows')
  BY <1>1, <1>3 DEF LInv
<1> QED BY <1>2, <1>4 DEF LInv

\* A request that arrives holds nothing yet.
LEMMA ArriveKeeps ==
    ASSUME LInv, IInv', NEW p \in Procs, NEW r \in ProcRec, Arrive(p, r), r.pc = "lock",
           r.landed = FALSE, r.op = "restore" => r.target # None
    PROVE  LInv'
<1>1. Move(p, r) /\ rows' = rows /\ lock' = lock /\ ~Inside(r) /\ RestoresWell(r)
  BY DEF Arrive, Inside, RestoresWell
<1> QED BY <1>1, OutsideStep DEF LInv, MutexHeld

\* Nor one that has been decoded.
LEMMA RequestKeeps ==
    ASSUME LInv, IInv', NEW c \in Clients, Request(c)
    PROVE  LInv'
<1>0. c \in Procs
  BY DEF Procs
<1>1. ASSUME NEW w \in Worksets, NEW op \in Writes, CreateSnapshot(c, w, op)
      PROVE  LInv'
  <2> DEFINE r == [Idle EXCEPT !.op = op, !.pc = "lock", !.ws = w]
  <2>1. r \in ProcRec /\ r.op \in Writes /\ r.pc = "lock" /\ r.landed = FALSE
    BY DEF Idle, ProcRec, Pcs, Ops, Writes
  <2>2. Arrive(c, r)
    BY <1>1 DEF CreateSnapshot
  <2> HIDE DEF r
  <2> QED BY <1>0, <2>1, <2>2, ArriveKeeps DEF Writes
<1>2. ASSUME NEW t \in DOMAIN rows, NEW op \in Removes \union {"restore"},
             RestoreOrPrune(c, t, op)
      PROVE  LInv'
  <2> DEFINE r == [Idle EXCEPT !.op = op, !.pc = "lock", !.ws = rows[t].ws, !.target = t]
  <2>1. rows[t].ws \in Worksets /\ t \in Id /\ t # None
    BY RowFacts DEF LInv
  <2>2. r \in ProcRec /\ r.pc = "lock" /\ r.target = t /\ r.landed = FALSE
    BY <2>1 DEF Idle, ProcRec, Pcs, Ops, Removes
  <2>3. Arrive(c, r)
    BY <1>2 DEF RestoreOrPrune
  <2> HIDE DEF r
  <2> QED BY <1>0, <2>1, <2>2, <2>3, ArriveKeeps
<1> QED BY <1>1, <1>2 DEF Request

\* Nor the pass of the timer between two worksets.
LEMMA PruneAllKeeps ==
    ASSUME LInv, IInv', NEW w \in Worksets, PruneAll(w)
    PROVE  LInv'
<1> DEFINE r == [Idle EXCEPT !.op = "retain", !.pc = "lock", !.ws = w]
<1>1. r \in ProcRec /\ r.op = "retain" /\ r.pc = "lock" /\ r.landed = FALSE
  BY DEF Idle, ProcRec, Pcs, Ops
<1>2. Timer \in Procs /\ Arrive(Timer, r)
  BY DEF Procs, PruneAll
<1> HIDE DEF r
<1> QED BY <1>1, <1>2, ArriveKeeps

\* A goroutine takes a free lock, and is the only one to hold it.
LEMMA LockKeeps ==
    ASSUME LInv, IInv', NEW p \in Procs, Lock(p)
    PROVE  LInv'
<1> DEFINE pc == Entry(proc[p].op)
           r == [proc[p] EXCEPT !.pc = pc]
<1>1. /\ proc[p].pc = "lock" /\ lock[proc[p].ws] = None /\ rows' = rows
      /\ lock' = [lock EXCEPT ![proc[p].ws] = p] /\ Move(p, r)
  BY DEF Lock, At, GoTo
<1>2. proc[p].op \in Ops \ {"none"} /\ proc[p].ws \in Worksets
  BY <1>1, LockFacts, ProcFacts DEF LInv
<1>3. /\ pc \in {"begin", "select", "list"}
      /\ pc = "list" => Retains(proc[p])
      /\ pc = "begin" => proc[p].op \in Writes \union {"restore"}
  BY <1>2 DEF Entry, Ops, Writes, Removes, Retains
<1>4. proc[p] \in ProcRec /\ Keeps(proc[p], rows) /\ lock \in [Worksets -> Procs \union {None}]
  BY LockFacts, ProcFacts DEF LInv
<1> HIDE DEF pc
<1>5. /\ r \in ProcRec /\ r.pc = pc /\ r.ws = proc[p].ws /\ r.op = proc[p].op
      /\ r.landed = proc[p].landed /\ r.target = proc[p].target
  BY <1>3, <1>4 DEF ProcRec, Pcs
<1> HIDE DEF r
<1>6. proc'[p] = r /\ \A q \in Procs \ {p} : proc'[q] = proc[q]
  BY <1>1, <1>5, MoveGives DEF LInv, IInv
<1>7. Keeps(r, rows)
  BY <1>1, <1>3, <1>4, <1>5 DEF Keeps, RestoresWell, WritesWell, TakesOwn, RetainsWell, PrunesWell,
     Inside, Taking, Retains
<1>8. MutexHeld'
  <2> SUFFICES ASSUME NEW q \in Procs, Inside(proc'[q]) PROVE lock'[proc'[q].ws] = q
    BY DEF MutexHeld
  <2>1. CASE q = p
    BY <1>1, <1>2, <1>4, <1>5, <1>6, <2>1
  <2>2. CASE q # p
    <3>1. lock[proc[q].ws] = q /\ q # None
      BY <1>6, <2>2, LockFacts DEF LInv, MutexHeld
    <3> QED BY <1>1, <1>6, <2>2, <3>1
  <2> QED BY <2>1, <2>2
<1>9. \A q \in Procs : Keeps(proc'[q], rows')
  BY <1>1, <1>6, <1>7 DEF LInv
<1> QED BY <1>8, <1>9 DEF LInv

\* It gives back its own.
LEMMA UnlockKeeps ==
    ASSUME LInv, IInv', NEW p \in Procs, Unlock(p)
    PROVE  LInv'
<1>1. /\ proc[p].pc = "unlock" /\ rows' = rows /\ Move(p, Idle)
      /\ lock' = [lock EXCEPT ![proc[p].ws] = None]
  BY DEF Unlock, At
<1>2. Idle \in ProcRec /\ Idle.pc = "idle" /\ Idle.landed = FALSE /\ Idle.op = "none"
  BY IdleIsSound DEF LInv, Idle
<1>3. \A q \in Procs \ {p} : Inside(proc[q]) => lock'[proc[q].ws] = q
  BY <1>1, LockFacts DEF LInv, MutexHeld, Inside
<1> QED BY <1>1, <1>2, <1>3, OutsideStep DEF Inside, RestoresWell

-----------------------------------------------------------------------------
(***************************************************************************)
(* The steps under the lock that leave the table alone.                    *)
(***************************************************************************)
\* A step to a point where a goroutine knows nothing of the graph.
LEMMA PlainKeeps ==
    ASSUME LInv, IInv', NEW p \in Procs, Inside(proc[p]), NEW r \in ProcRec, Move(p, r),
           r.ws = proc[p].ws, r.op = proc[p].op, r.target = proc[p].target,
           r.landed = proc[p].landed \/ r.op = "restore",
           r.pc \in {"begin", "restore", "unlock"},
           r.pc \in {"begin", "restore"} => r.op = "restore",
           lock' = lock, rows' = rows
    PROVE  LInv'
<1>1. Keeps(proc[p], rows) /\ proc[p] \in ProcRec
  BY LockFacts
<1>2. RestoresWell(r)
  BY <1>1 DEF Keeps, RestoresWell, Inside
<1>3. Keeps(r, rows)
  BY <1>1, <1>2, KeepsNothing
<1> QED BY <1>3, InsideStay

\* A crash and a stop leave nobody holding anything.
LEMMA StopKeeps ==
    ASSUME LInv, IInv', NEW p \in Procs, Inside(proc[p]), Stop(p)
    PROVE  LInv'
<1> DEFINE r == [proc[p] EXCEPT !.pc = "unlock"]
<1>1. /\ r \in ProcRec /\ r.pc = "unlock" /\ r.ws = proc[p].ws /\ r.op = proc[p].op
      /\ r.target = proc[p].target /\ r.landed = proc[p].landed
  BY LockFacts DEF ProcRec, Pcs
<1>2. Move(p, r) /\ lock' = lock /\ rows' = rows
  BY DEF Stop, GoTo
<1> HIDE DEF r
<1> QED BY <1>1, <1>2, PlainKeeps

\* A call that fails moves its goroutine on within the lock.
LEMMA GiveUpKeeps ==
    ASSUME LInv, IInv', NEW p \in Procs, Inside(proc[p]), GiveUpWrite(p), lock' = lock, rows' = rows
    PROVE  LInv'
<1> DEFINE pc == AfterFailedWrite(proc[p])
           r == [proc[p] EXCEPT !.pc = pc, !.id = None, !.up = None]
<1>1. pc \in {"restore", "unlock"} /\ Move(p, r) /\ (pc = "restore" => proc[p].op = "restore")
  BY DEF AfterFailedWrite, GiveUpWrite
<1> HIDE DEF pc
<1>2. /\ r \in ProcRec /\ r.pc = pc /\ r.ws = proc[p].ws /\ r.op = proc[p].op
      /\ r.target = proc[p].target /\ r.landed = proc[p].landed
  BY <1>1, LockFacts DEF ProcRec, Pcs
<1> HIDE DEF r
<1> QED BY <1>1, <1>2, PlainKeeps

\* A create under the lock notes the parent of its node.
LEMMA BeginCreateKeeps ==
    ASSUME LInv, IInv', NEW p \in Procs, BeginCreate(p)
    PROVE  LInv'
<1> DEFINE up == ParentFor(proc[p])
           r == [proc[p] EXCEPT !.pc = "copy", !.id = next, !.up = up]
<1>1. /\ proc[p].pc = "begin" /\ Move(p, r) /\ lock' = lock /\ rows' = rows /\ next \in Id
  BY DEF BeginCreate, At
<1>2. proc[p] \in ProcRec /\ Keeps(proc[p], rows)
  BY LockFacts
<1>3. up \in Id \union {None}
  <2>1. LatestSnapshot(rows, proc[p].ws) \in Id \union {None}
    BY LatestIsARow, RowFacts DEF Of, LInv
  <2> QED BY <1>2, <2>1 DEF ParentFor, ProcRec
<1>4. up = IF proc[p].landed THEN proc[p].target ELSE LatestSnapshot(rows, proc[p].ws)
  BY DEF ParentFor
<1> HIDE DEF up
<1>5. /\ r \in ProcRec /\ r.pc = "copy" /\ r.ws = proc[p].ws /\ r.op = proc[p].op
      /\ r.target = proc[p].target /\ r.landed = proc[p].landed /\ r.up = up
  BY <1>1, <1>2, <1>3 DEF ProcRec, Pcs
<1> HIDE DEF r
<1>6. Keeps(r, rows)
  BY <1>1, <1>2, <1>4, <1>5 DEF Keeps, RestoresWell, WritesWell, TakesOwn, RetainsWell, PrunesWell,
     Inside, Taking
<1> QED BY <1>1, <1>5, <1>6, InsideStay DEF Inside

\* Its handle is complete; the table is as it was.
LEMMA EndCreateKeeps ==
    ASSUME LInv, IInv', NEW p \in Procs, EndCreate(p)
    PROVE  LInv'
<1> DEFINE r == [proc[p] EXCEPT !.pc = "put"]
<1>1. proc[p].pc = "copy" /\ Move(p, r) /\ lock' = lock /\ rows' = rows
  BY DEF EndCreate, At, GoTo
<1>2. proc[p] \in ProcRec /\ Keeps(proc[p], rows)
  BY LockFacts
<1>3. /\ r \in ProcRec /\ r.pc = "put" /\ r.ws = proc[p].ws /\ r.op = proc[p].op
      /\ r.target = proc[p].target /\ r.landed = proc[p].landed /\ r.up = proc[p].up
  BY <1>2 DEF ProcRec, Pcs
<1> HIDE DEF r
<1>4. Keeps(r, rows)
  BY <1>1, <1>2, <1>3 DEF Keeps, RestoresWell, WritesWell, TakesOwn, RetainsWell, PrunesWell,
     Inside, Taking
<1> QED BY <1>1, <1>3, <1>4, InsideStay DEF Inside

\* A restore that lands leaves the table alone.
LEMMA EngineRestoreKeeps ==
    ASSUME LInv, IInv', NEW p \in Procs, EngineRestore(p)
    PROVE  LInv'
<1> DEFINE r == [proc[p] EXCEPT !.pc = "begin", !.landed = TRUE, !.id = None]
<1>1. proc[p].pc = "restore" /\ Move(p, r) /\ lock' = lock /\ rows' = rows
  BY DEF EngineRestore, At
<1>2. /\ r \in ProcRec /\ r.pc = "begin" /\ r.ws = proc[p].ws /\ r.op = proc[p].op
      /\ r.target = proc[p].target /\ r.landed
  BY LockFacts, ZenonT(60) DEF ProcRec, Pcs
<1>3. proc[p].op = "restore"
  BY <1>1, LockFacts DEF Keeps, RestoresWell
<1> HIDE DEF r
<1> QED BY <1>1, <1>2, <1>3, PlainKeeps DEF Inside

-----------------------------------------------------------------------------
(***************************************************************************)
(* Choosing and taking rows.                                               *)
(***************************************************************************)
LEMMA ListExcessKeeps ==
    ASSUME LInv, IInv', NEW p \in Procs, ListExcess(p)
    PROVE  LInv'
<1>1. PICK keep \in Budgets : Choose(p, Excess(rows, proc[p].ws, keep))
  BY DEF ListExcess
<1> DEFINE S == Excess(rows, proc[p].ws, keep)
           r == [proc[p] EXCEPT !.pc = "free", !.todo = S]
<1>2. proc[p].pc = "list" /\ Move(p, r) /\ lock' = lock /\ rows' = rows
  BY <1>1 DEF ListExcess, At, Choose
<1>3. /\ proc[p] \in ProcRec /\ Keeps(proc[p], rows) /\ Retains(proc[p])
      /\ DOMAIN rows \subseteq Id
  BY <1>2, LockFacts, RowFacts DEF Keeps, RetainsWell, LInv
<1>4. S \subseteq Of(rows, proc[p].ws) \ ManualAncestors(rows, proc[p].ws)
  BY DEF Excess, Candidates
<1>5. S \in SUBSET Id /\ \A i \in S : rows[i].ws = proc[p].ws
  BY <1>3, <1>4 DEF Of
<1> HIDE DEF S
<1>6. /\ r \in ProcRec /\ r.pc = "free" /\ r.ws = proc[p].ws /\ r.op = proc[p].op
      /\ r.target = proc[p].target /\ r.landed = proc[p].landed /\ r.todo = S
  BY <1>3, <1>5 DEF ProcRec, Pcs
<1> HIDE DEF r
<1>7. Keeps(r, rows)
  BY <1>2, <1>3, <1>4, <1>5, <1>6 DEF Keeps, RestoresWell, WritesWell, TakesOwn, RetainsWell,
     PrunesWell, Inside, Taking, Retains
<1> QED BY <1>2, <1>6, <1>7, InsideStay DEF Inside

\* A prune lists what it will take while it holds the lock.
LEMMA SelectSubtreeKeeps ==
    ASSUME LInv, IInv', NEW p \in Procs, SelectSubtree(p)
    PROVE  LInv'
<1> DEFINE t == proc[p].target
           S == Subtree(rows, t)
           r == [proc[p] EXCEPT !.pc = "free", !.todo = S]
<1>1. /\ proc[p].pc = "select" /\ Move(p, r) /\ lock' = lock /\ rows' = rows
      /\ Children(rows, t) = {} \/ proc[p].op = "cascade"
  BY DEF SelectSubtree, At, Choose
<1>2. /\ proc[p] \in ProcRec /\ Keeps(proc[p], rows) /\ proc[p].op \in Removes /\ t # None
      /\ t \in Id
      /\ t \in DOMAIN rows => rows[t].ws = proc[p].ws
  BY <1>1, LockFacts DEF Sound, ProcRec
<1>3. Forest(rows) /\ None \notin DOMAIN rows /\ DOMAIN rows \subseteq Id
  BY RowFacts DEF LInv
<1>4. S \in SUBSET Id /\ DownClosed(rows, S)
  BY <1>2, <1>3, SubtreeClosed
<1>5. \A i \in S \intersect DOMAIN rows : rows[i].ws = proc[p].ws
  BY <1>2, <1>3, SubtreeOfWorkset
<1>6. \A i \in S \ {t} : proc[p].op = "cascade" /\ i \in DOMAIN rows /\ t \in Ancestors(rows, i)
  BY <1>1, <1>2, <1>3, SubtreeDescends, SubtreeOfLeaf
<1>7. ~Retains(proc[p])
  BY <1>2 DEF Retains, Removes, Writes
<1> HIDE DEF S
<1>8. /\ r \in ProcRec /\ r.pc = "free" /\ r.ws = proc[p].ws /\ r.op = proc[p].op
      /\ r.target = t /\ r.landed = proc[p].landed /\ r.todo = S
  BY <1>2, <1>4 DEF ProcRec, Pcs
<1> HIDE DEF r
<1>9. Keeps(r, rows)
  BY <1>1, <1>2, <1>4, <1>5, <1>6, <1>7, <1>8 DEF Keeps, RestoresWell, WritesWell, TakesOwn,
     RetainsWell, PrunesWell, Inside, Taking, Retains
<1> HIDE DEF t
<1> QED BY <1>1, <1>8, <1>9, InsideStay DEF Inside

\* A row that is next goes with nothing below it, or is still in the table.
LEMMA NextRow ==
    ASSUME LInv, NEW p \in Procs, proc[p].pc = "free", NEW i \in proc[p].todo, IsNext(proc[p], i)
    PROVE  /\ i \in Id /\ (i \in DOMAIN rows => rows[i].ws = proc[p].ws)
           /\ Retains(proc[p]) => i \in DOMAIN rows /\ i \notin ManualAncestors(rows, proc[p].ws)
           /\ ~Retains(proc[p]) => Children(rows, i) = {} /\ proc[p].op \in Removes
<1>1. Keeps(proc[p], rows) /\ proc[p] \in ProcRec
  BY LockFacts
<1>2. i \in Id /\ (i \in DOMAIN rows => rows[i].ws = proc[p].ws)
  BY <1>1 DEF Keeps, TakesOwn, Taking, ProcRec
<1>3. Retains(proc[p]) => i \in DOMAIN rows /\ i \notin ManualAncestors(rows, proc[p].ws)
  BY <1>1 DEF IsNext, Keeps, RetainsWell, Taking
<1>4. ~Retains(proc[p]) => Children(rows, i) = {} /\ proc[p].op \in Removes
  BY <1>1 DEF IsNext, Keeps, PrunesWell, Taking, Children, DownClosed
<1> QED BY <1>2, <1>3, <1>4

\* The handle of the row in hand is opened for removal.
LEMMA BeginFreeKeeps ==
    ASSUME LInv, IInv', NEW p \in Procs, BeginFree(p)
    PROVE  LInv'
<1>1. PICK i \in proc[p].todo :
          /\ IsNext(proc[p], i)
          /\ Move(p, [proc[p] EXCEPT !.pc = "freeing", !.cur = i,
                                     !.up = IF Retains(proc[p]) THEN rows[i].parent ELSE None])
  BY DEF BeginFree
<1> DEFINE up == IF Retains(proc[p]) THEN rows[i].parent ELSE None
           r == [proc[p] EXCEPT !.pc = "freeing", !.cur = i, !.up = up]
<1>2. proc[p].pc = "free" /\ Move(p, r) /\ lock' = lock /\ rows' = rows
  BY <1>1 DEF BeginFree, At
<1>3. /\ i \in Id /\ (i \in DOMAIN rows => rows[i].ws = proc[p].ws)
      /\ Retains(proc[p]) => i \in DOMAIN rows
      /\ ~Retains(proc[p]) => Children(rows, i) = {}
  BY <1>1, <1>2, NextRow
<1>4. up \in Id \union {None}
  BY <1>3, RowFacts DEF LInv
<1>5. proc[p] \in ProcRec /\ Keeps(proc[p], rows)
  BY LockFacts
<1>6. Retains(proc[p]) => up = rows[i].parent
  OBVIOUS
<1> HIDE DEF up
<1>7. /\ r \in ProcRec /\ r.pc = "freeing" /\ r.ws = proc[p].ws /\ r.op = proc[p].op
      /\ r.target = proc[p].target /\ r.landed = proc[p].landed /\ r.todo = proc[p].todo
      /\ r.cur = i /\ r.up = up
  BY <1>3, <1>4, <1>5 DEF ProcRec, Pcs
<1> HIDE DEF r
<1>8. Keeps(r, rows)
  BY <1>2, <1>3, <1>5, <1>6, <1>7 DEF Keeps, RestoresWell, WritesWell, TakesOwn, RetainsWell,
     PrunesWell, Inside, Taking, Retains
<1> QED BY <1>2, <1>7, <1>8, InsideStay DEF Inside

\* And it is gone.
LEMMA EndFreeKeeps ==
    ASSUME LInv, IInv', NEW p \in Procs, EndFree(p)
    PROVE  LInv'
<1> DEFINE pc == IF Retains(proc[p]) THEN "reparent" ELSE "drop"
           r == [proc[p] EXCEPT !.pc = pc]
<1>1. proc[p].pc = "freeing" /\ Move(p, r) /\ lock' = lock /\ rows' = rows
  BY DEF EndFree, At, GoTo
<1>2. proc[p] \in ProcRec /\ Keeps(proc[p], rows)
  BY LockFacts
<1>3. /\ r \in ProcRec /\ r.pc = pc /\ r.ws = proc[p].ws /\ r.op = proc[p].op
      /\ r.target = proc[p].target /\ r.landed = proc[p].landed /\ r.todo = proc[p].todo
      /\ r.cur = proc[p].cur /\ r.up = proc[p].up
  BY <1>2 DEF ProcRec, Pcs
<1> HIDE DEF r
<1>4. Keeps(r, rows)
  BY <1>1, <1>2, <1>3 DEF Keeps, RestoresWell, WritesWell, TakesOwn, RetainsWell, PrunesWell,
     Inside, Taking, Retains
<1> QED BY <1>1, <1>3, <1>4, InsideStay DEF Inside

\* Or it will not go, and the row stays.
LEMMA StuckKeeps ==
    ASSUME LInv, IInv', NEW p \in Procs, proc[p].pc \in {"free", "freeing"}, NEW i, Stuck(p, i)
    PROVE  LInv'
<1> DEFINE pc == IF Retains(proc[p]) THEN "free" ELSE "unlock"
           r == [proc[p] EXCEPT !.pc = pc, !.cur = None, !.up = None, !.todo = @ \ {i}]
<1>1. Move(p, r) /\ lock' = lock /\ rows' = rows
  BY DEF Stuck
<1>2. proc[p] \in ProcRec /\ Keeps(proc[p], rows)
  BY LockFacts
<1>3. /\ r \in ProcRec /\ r.pc = pc /\ r.ws = proc[p].ws /\ r.op = proc[p].op
      /\ r.target = proc[p].target /\ r.landed = proc[p].landed /\ r.todo = proc[p].todo \ {i}
  BY <1>2 DEF ProcRec, Pcs
<1> HIDE DEF r
<1>4. Keeps(r, rows)
  BY <1>2, <1>3 DEF Keeps, RestoresWell, WritesWell, TakesOwn, RetainsWell, PrunesWell,
     Inside, Taking, Retains
<1> QED BY <1>1, <1>3, <1>4, InsideStay DEF Inside

-----------------------------------------------------------------------------
(***************************************************************************)
(* The three statements.                                                   *)
(***************************************************************************)
LEMMA MoveChildrenKeeps ==
    ASSUME LInv, IInv', NEW p \in Procs, MoveChildren(p)
    PROVE  LInv'
<1> DEFINE cur == proc[p].cur
           w == proc[p].ws
           r == [proc[p] EXCEPT !.pc = "drop"]
<1>1. /\ proc[p].pc = "reparent" /\ Move(p, r) /\ lock' = lock
      /\ rows' = Reparent(rows, cur, proc[p].up)
  BY DEF MoveChildren, At, GoTo
<1>2. /\ proc[p] \in ProcRec /\ Keeps(proc[p], rows) /\ proc[p].up < cur
      /\ Inside(proc[p]) /\ Taking(proc[p])
  BY <1>1, LockFacts DEF Sound, Inside, Taking
<1>3. /\ cur \in DOMAIN rows /\ rows[cur].ws = w /\ proc[p].up = rows[cur].parent
      /\ Retains(proc[p])
  BY <1>1, <1>2 DEF Keeps, RetainsWell, TakesOwn
<1>4. Forest(rows) /\ None \notin DOMAIN rows /\ DOMAIN rows \subseteq Id
  BY RowFacts DEF LInv
<1>5. /\ DOMAIN rows' = DOMAIN rows
      /\ \A j \in DOMAIN rows : /\ rows'[j].ws = rows[j].ws
                                /\ rows'[j].parent = IF rows[j].parent = cur THEN proc[p].up
                                                     ELSE rows[j].parent
                                /\ rows[j].parent # cur => rows'[j] = rows[j]
  BY <1>1 DEF Reparent
<1>6. \A v \in Worksets \ {w} : SameRows(rows, rows', v)
  BY <1>3, <1>4, <1>5 DEF SameRows, Of, Forest
<1>7. /\ r \in ProcRec /\ r.pc = "drop" /\ r.ws = w /\ r.op = proc[p].op
      /\ r.target = proc[p].target /\ r.landed = proc[p].landed /\ r.todo = proc[p].todo
      /\ r.cur = cur /\ r.up = proc[p].up
  BY <1>2 DEF ProcRec, Pcs
<1>8. ManualAncestors(rows', w) \subseteq ManualAncestors(rows, w)
  BY <1>1, <1>3, ReparentShrinksCover
<1>9. Children(rows', cur) = {}
  <2>1. cur \in Nat /\ proc[p].up \in Nat
    <3>1. cur \in Id \union {None} /\ proc[p].up \in Id \union {None}
      BY <1>2 DEF ProcRec
    <3>2. Id \union {None} \subseteq Nat
      BY IdFacts
    <3> QED BY <3>1, <3>2
  <2>2. proc[p].up # cur
    BY <1>2, <2>1
  <2>3. \A j \in DOMAIN rows' : rows'[j].parent # cur
    BY <1>5, <2>2
  <2> QED BY <2>3 DEF Children
<1> HIDE DEF r
<1>10. Keeps(r, rows')
  <2>1. RestoresWell(r) /\ WritesWell(r, rows')
    BY <1>2, <1>7 DEF Keeps, RestoresWell, WritesWell, Inside
  <2>2. TakesOwn(r, rows')
    BY <1>2, <1>3, <1>5, <1>7 DEF Keeps, TakesOwn, Taking
  <2>3. RetainsWell(r, rows')
    BY <1>2, <1>3, <1>5, <1>7, <1>8 DEF Keeps, RetainsWell, Taking, Retains
  <2>4. PrunesWell(r, rows')
    BY <1>3, <1>7, <1>9 DEF PrunesWell, Retains
  <2> QED BY <2>1, <2>2, <2>3, <2>4 DEF Keeps
<1>11. r.ws = proc[p].ws /\ \A q \in Procs \ {p} : \A i \in Refs(proc[q]) :
           i \in DOMAIN rows' => i \in DOMAIN rows /\ rows'[i].ws = rows[i].ws
  BY <1>5, <1>7
<1> QED BY <1>1, <1>2, <1>6, <1>7, <1>10, <1>11, InsideStep

\* Then the row goes, which is the holder's to take.
LEMMA DropRowKeeps ==
    ASSUME LInv, IInv', NEW p \in Procs, DropRow(p)
    PROVE  LInv'
<1> DEFINE cur == proc[p].cur
           w == proc[p].ws
           r == [proc[p] EXCEPT !.pc = "free", !.cur = None, !.up = None, !.todo = @ \ {cur}]
<1>1. /\ proc[p].pc = "drop" /\ Move(p, r) /\ lock' = lock
      /\ rows' = DeleteRow(rows, cur) /\ cur \in DOMAIN rows /\ Children(rows, cur) = {}
  BY DEF DropRow, At, MayDelete
<1>2. /\ proc[p] \in ProcRec /\ Keeps(proc[p], rows) /\ Inside(proc[p]) /\ Taking(proc[p])
  BY <1>1, LockFacts DEF Inside, Taking
<1>3. rows[cur].ws = w
  BY <1>1, <1>2 DEF Keeps, TakesOwn
<1>4. DOMAIN rows' = DOMAIN rows \ {cur} /\ \A j \in DOMAIN rows' : rows'[j] = rows[j]
  BY <1>1 DEF DeleteRow
<1>5. \A v \in Worksets \ {w} : SameRows(rows, rows', v)
  BY <1>3, <1>4 DEF SameRows, Of
<1>6. /\ r \in ProcRec /\ r.pc = "free" /\ r.ws = w /\ r.op = proc[p].op
      /\ r.target = proc[p].target /\ r.landed = proc[p].landed
      /\ r.todo = proc[p].todo \ {cur}
  BY <1>2 DEF ProcRec, Pcs
<1>7. ManualAncestors(rows', w) \subseteq ManualAncestors(rows, w)
  BY <1>1, DeleteShrinksCover
<1>8. \A j \in DOMAIN rows' : Ancestors(rows', j) = Ancestors(rows, j)
  BY <1>1, <1>4, DeleteKeepsChains
<1> HIDE DEF r
<1>9. Keeps(r, rows')
  <2>1. RestoresWell(r) /\ WritesWell(r, rows')
    BY <1>2, <1>6 DEF Keeps, RestoresWell, WritesWell, Inside
  <2>2. TakesOwn(r, rows')
    BY <1>2, <1>4, <1>6 DEF Keeps, TakesOwn, Taking
  <2>3. RetainsWell(r, rows')
    BY <1>2, <1>6, <1>7 DEF Keeps, RetainsWell, Taking, Retains
  <2>4. PrunesWell(r, rows')
    BY <1>2, <1>4, <1>6, <1>8 DEF Keeps, PrunesWell, Taking, Retains, DownClosed
  <2> QED BY <2>1, <2>2, <2>3, <2>4 DEF Keeps
<1>10. r.ws = proc[p].ws /\ \A q \in Procs \ {p} : \A i \in Refs(proc[q]) :
           i \in DOMAIN rows' => i \in DOMAIN rows /\ rows'[i].ws = rows[i].ws
  BY <1>4, <1>6
<1> QED BY <1>1, <1>2, <1>5, <1>6, <1>9, <1>10, InsideStep

\* What PutRow does to the table.
LEMMA PutRowGives ==
    ASSUME LInv, NEW p \in Procs, PutRow(p)
    PROVE  /\ proc[p].pc = "put" /\ MayPut(rows, proc[p].up)
           /\ proc[p].id \notin DOMAIN rows /\ proc[p].id \in Id
           /\ DOMAIN rows' = DOMAIN rows \union {proc[p].id}
           /\ \A j \in DOMAIN rows : rows'[j] = rows[j]
           /\ rows'[proc[p].id].ws = proc[p].ws /\ rows'[proc[p].id].parent = proc[p].up
           /\ rows'[proc[p].id].auto = (proc[p].op # "manual")
           /\ rows'[proc[p].id].at \in Places(proc[p].id)
<1> DEFINE me == proc[p]
<1>1. PICK at \in Places(me.id) :
          rows' = PutSnapshot(rows, me.id,
                     [ws |-> me.ws, parent |-> me.up, auto |-> me.op # "manual", at |-> at])
  BY DEF PutRow
<1>2. me.pc = "put" /\ MayPut(rows, me.up)
  BY DEF PutRow, At
<1>3. me.id \in Id \ DOMAIN rows
  BY <1>2, LockFacts DEF Sound
<1> DEFINE row == [ws |-> me.ws, parent |-> me.up, auto |-> me.op # "manual", at |-> at]
<1>4. row.ws = me.ws /\ row.parent = me.up /\ row.auto = (me.op # "manual") /\ row.at = at
  OBVIOUS
<1> HIDE DEF row
<1>5. /\ DOMAIN rows' = DOMAIN rows \union {me.id} /\ rows'[me.id] = row
      /\ \A j \in DOMAIN rows : rows'[j] = rows[j]
  <2>1. rows' = PutSnapshot(rows, me.id, row)
    BY <1>1 DEF row
  <2> QED BY <1>3, <2>1 DEF PutSnapshot
<1> QED BY <1>1, <1>2, <1>3, <1>4, <1>5

\* A node goes where its parent was noted.
LEMMA PutRowKeeps ==
    ASSUME LInv, IInv', NEW p \in Procs, PutRow(p)
    PROVE  LInv'
<1> DEFINE w == proc[p].ws
           pc == AfterWrite(proc[p])
           r == [proc[p] EXCEPT !.pc = pc, !.up = None]
<1>1. /\ proc[p].pc = "put" /\ Move(p, r) /\ lock' = lock
      /\ proc[p].id \notin DOMAIN rows
      /\ DOMAIN rows' = DOMAIN rows \union {proc[p].id}
      /\ \A j \in DOMAIN rows : rows'[j] = rows[j]
      /\ rows'[proc[p].id].ws = w
  BY PutRowGives DEF PutRow
<1>2. proc[p] \in ProcRec /\ Keeps(proc[p], rows) /\ Inside(proc[p])
  BY <1>1, LockFacts DEF Inside
<1>3. /\ pc \in {"list", "restore", "unlock"}
      /\ pc = "list" => Retains(proc[p])
      /\ pc = "restore" => proc[p].op = "restore"
  BY <1>1, <1>2 DEF AfterWrite, Retains, Keeps, RestoresWell
<1> HIDE DEF pc
<1>4. /\ r \in ProcRec /\ r.pc = pc /\ r.ws = w /\ r.op = proc[p].op
      /\ r.target = proc[p].target /\ r.landed = proc[p].landed
  BY <1>2, <1>3 DEF ProcRec, Pcs
<1> HIDE DEF r
<1>5. Keeps(r, rows')
  BY <1>2, <1>3, <1>4 DEF Keeps, RestoresWell, WritesWell, TakesOwn, RetainsWell,
     PrunesWell, Inside, Taking, Retains
<1>6. \A v \in Worksets \ {w} : SameRows(rows, rows', v)
  BY <1>1 DEF SameRows, Of
<1>7. \A q \in Procs \ {p} : proc[p].id \notin Refs(proc[q])
  BY <1>1 DEF LInv, IInv, Fresh
<1>8. r.ws = proc[p].ws /\ \A q \in Procs \ {p} : \A i \in Refs(proc[q]) :
           i \in DOMAIN rows' => i \in DOMAIN rows /\ rows'[i].ws = rows[i].ws
  BY <1>1, <1>4, <1>7
<1> QED BY <1>1, <1>2, <1>4, <1>5, <1>6, <1>8, InsideStep

-----------------------------------------------------------------------------
\* Every step of a goroutine at work keeps the lock, and what the other goroutines rely on.
LEMMA WorkKeeps ==
    ASSUME LInv, IInv', NEW p \in Procs, Work(p)
    PROVE  LInv'
<1>1. CASE BeginCreate(p) \/ EndCreate(p) \/ EngineRestore(p)
  BY <1>1, BeginCreateKeeps, EndCreateKeeps, EngineRestoreKeeps
<1>2. CASE RefuseCreate(p) \/ FailCreate(p) \/ FailPut(p)
  BY <1>2, GiveUpKeeps DEF RefuseCreate, FailCreate, FailPut, At, Inside
<1>3. CASE PutRow(p) \/ MoveChildren(p) \/ DropRow(p)
  BY <1>3, PutRowKeeps, MoveChildrenKeeps, DropRowKeeps
<1>4. CASE ListExcess(p) \/ SelectSubtree(p) \/ BeginFree(p) \/ EndFree(p)
  BY <1>4, ListExcessKeeps, SelectSubtreeKeeps, BeginFreeKeeps, EndFreeKeeps
<1>5. CASE FailRestore(p) \/ SkipRetention(p) \/ RefusePrune(p) \/ FailReread(p)
  BY <1>5, StopKeeps DEF FailRestore, SkipRetention, RefusePrune, FailReread, At, Inside, Stop
<1>6. CASE FailMoveChildren(p) \/ FailDrop(p) \/ FinishRemoval(p)
  BY <1>6, StopKeeps DEF FailMoveChildren, FailDrop, FinishRemoval, At, Inside
<1>7. CASE RefuseFree(p)
  <2>1. PICK i \in proc[p].todo : Stuck(p, i)
    BY <1>7 DEF RefuseFree
  <2> QED BY <1>7, <2>1, StuckKeeps DEF RefuseFree, At
<1>8. CASE FailFree(p)
  BY <1>8, StuckKeeps DEF FailFree, At
<1>9. CASE Unlock(p)
  BY <1>9, UnlockKeeps
<1> QED BY <1>1, <1>2, <1>3, <1>4, <1>5, <1>6, <1>7, <1>8, <1>9 DEF Work

\* Without a goroutine at work nobody knows anything.
LEMMA IdleKeeps ==
    ASSUME IInv', \A p \in Procs : proc'[p] = Idle \/ (proc'[p] = proc[p] /\ LInv),
           \A p \in Procs : proc'[p].pc = "idle"
    PROVE  LInv'
<1>1. MutexHeld'
  BY DEF MutexHeld, Inside
<1>2. ASSUME NEW p \in Procs PROVE Keeps(proc'[p], rows')
  <2>1. RestoresWell(proc'[p])
    BY LockFacts DEF Keeps, RestoresWell, Idle, Inside
  <2>2. proc'[p] \in ProcRec
    BY DEF IInv, TypeOK
  <2> QED BY <2>1, <2>2, KeepsNothing
<1> QED BY <1>1, <1>2 DEF LInv

\* The initial states have it.
LEMMA InitLInv == Init => LInv
<1> SUFFICES ASSUME Init PROVE LInv
  OBVIOUS
<1>1. IInv
  BY InitIInv
<1>2. \A p \in Procs : proc[p] = Idle /\ Idle.pc = "idle" /\ Idle.landed = FALSE /\ Idle.op = "none"
  BY DEF Init, Idle
<1>3. MutexHeld
  BY <1>2 DEF MutexHeld, Inside
<1>4. \A p \in Procs : Keeps(proc[p], rows)
  BY <1>2 DEF Keeps, RestoresWell, WritesWell, TakesOwn, RetainsWell, PrunesWell, Inside, Taking
<1> QED BY <1>1, <1>3, <1>4 DEF LInv

\* Every step keeps it: a holder's step leaves the other worksets alone, everybody else's leaves the holder's.
LEMMA NextLInv == LInv /\ [Next]_vars => LInv'
<1> SUFFICES ASSUME LInv, [Next]_vars PROVE LInv'
  OBVIOUS
<1>0. IInv /\ IInv'
  BY NextIInv DEF LInv
<1>1. CASE \E c \in Clients : Request(c)
  BY <1>0, <1>1, RequestKeeps
<1>2. CASE TimerTicks
  BY <1>0, <1>2 DEF TimerTicks, LInv, MutexHeld
<1>3. CASE \E w \in Worksets : PruneAll(w)
  BY <1>0, <1>3, PruneAllKeeps
<1>4. CASE \E p \in Procs : Lock(p) \/ Work(p)
  BY <1>0, <1>4, LockKeeps, WorkKeeps
<1>5. CASE Boot
  <2>1. phase # "serving" /\ proc' = proc
    BY <1>5 DEF Boot, Start, ReconcileScan, ReconcileRefuses, ReconcileReparent, ReconcileDrop,
       ReconcileRowFails, ReconcileHandle, ReconcileHandleFails, Serve, Daemon
  <2>2. \A p \in Procs : proc'[p].pc = "idle"
    BY <1>0, <2>1 DEF IInv
  <2> QED BY <1>0, <2>1, <2>2, IdleKeeps
<1>6. CASE Crash
  <2>1. \A p \in Procs : proc'[p] = Idle
    BY <1>6 DEF Crash
  <2> QED BY <1>0, <2>1, IdleKeeps DEF Idle
<1>7. CASE UNCHANGED vars
  BY <1>0, <1>7 DEF vars, LInv, MutexHeld
<1> QED BY <1>1, <1>2, <1>3, <1>4, <1>5, <1>6, <1>7 DEF Next

\* So every reachable state has it.
THEOREM LInvHolds == Spec => []LInv
BY InitLInv, NextLInv, PTL DEF Spec

(***************************************************************************)
(* The mutex of a workset (store.Lock as service.go takes it) excludes: of *)
(* the goroutines past their Lock no two are at work on one workset.       *)
(***************************************************************************)
Exclusive ==
    \A p, q \in Procs : Inside(proc[p]) /\ Inside(proc[q]) /\ proc[p].ws = proc[q].ws => p = q

\* sync.Mutex as locks uses it: no two goroutines are ever at work on one workset.
THEOREM MutualExclusion == Spec => []Exclusive
<1>1. LInv => Exclusive
  BY DEF LInv, MutexHeld, Exclusive
<1> QED BY <1>1, LInvHolds, PTL

-----------------------------------------------------------------------------
(***************************************************************************)
(* Which steps change the table, and which start to remove a handle.       *)
(***************************************************************************)
LEMMA TableSteps ==
    ASSUME [Next]_vars
    PROVE  \/ rows' = rows
           \/ \E p \in Procs : PutRow(p) \/ MoveChildren(p) \/ DropRow(p)
           \/ ReconcileReparent \/ ReconcileDrop
<1>1. CASE \E c \in Clients : Request(c)
  BY <1>1 DEF Request, CreateSnapshot, RestoreOrPrune, Arrive
<1>2. CASE TimerTicks \/ \E w \in Worksets : PruneAll(w)
  BY <1>2 DEF TimerTicks, PruneAll, Arrive
<1>3. ASSUME NEW p \in Procs, Lock(p) \/ Work(p)
      PROVE  rows' = rows \/ PutRow(p) \/ MoveChildren(p) \/ DropRow(p)
  BY <1>3 DEF Lock, Work, BeginCreate, RefuseCreate, EndCreate, FailCreate, FailPut, EngineRestore,
     FailRestore, ListExcess, SkipRetention, SelectSubtree, RefusePrune, BeginFree, RefuseFree,
     EndFree, FailFree, FailReread, FailMoveChildren, FailDrop, FinishRemoval, Unlock, Stop, Stuck,
     Choose
<1>4. CASE Boot \/ Crash
  BY <1>4 DEF Boot, Start, ReconcileScan, ReconcileRefuses, ReconcileRowFails, ReconcileHandle,
     ReconcileHandleFails, Serve, Crash
<1> QED BY <1>1, <1>2, <1>3, <1>4 DEF Next, vars

\* A row goes in the hands of the goroutine, or of Reconcile, that drops it.
LEMMA RowsGone ==
    ASSUME [Next]_vars, NEW i \in DOMAIN rows \ DOMAIN rows'
    PROVE  \/ \E p \in Procs : DropRow(p) /\ proc[p].cur = i
           \/ ReconcileDrop /\ rec.cur = i
BY TableSteps DEF PutRow, PutSnapshot, MoveChildren, DropRow, ReconcileReparent, ReconcileDrop,
   Reparent, DeleteRow

\* Only PutRow adds a row.
LEMMA RowsAdded ==
    ASSUME LInv, [Next]_vars, NEW i \in DOMAIN rows' \ DOMAIN rows
    PROVE  \E p \in Procs : PutRow(p) /\ proc[p].id = i
<1>1. CASE \E p \in Procs : PutRow(p)
  BY <1>1, PutRowGives
<1>2. ~\E p \in Procs : MoveChildren(p) \/ DropRow(p)
  BY DEF MoveChildren, DropRow, Reparent, DeleteRow
<1>3. ~ReconcileReparent /\ ~ReconcileDrop
  BY DEF ReconcileReparent, ReconcileDrop, Reparent, DeleteRow
<1> QED BY <1>1, <1>2, <1>3, TableSteps

(***************************************************************************)
(* A new node hangs under the newest row of its workset at the moment it   *)
(* is written, and the node that records a restore under the restored row, *)
(* which still stands: no other request of the workset comes in between    *)
(* (service.go 106-107 and 193-194).                                       *)
(***************************************************************************)
THEOREM NodesHangThere == Spec => NodesHangWhereTheyShould
<1>1. LInv /\ [Next]_vars =>
          [\A p \in Procs :
              LET me == proc[p] IN
              me.pc = "put" /\ me.id \in DOMAIN rows' \ DOMAIN rows =>
                  IF me.landed
                  THEN rows'[me.id].parent = me.target /\ me.target \in DOMAIN rows
                  ELSE rows'[me.id].parent = LatestSnapshot(rows, me.ws)]_vars
  <2> SUFFICES ASSUME LInv, [Next]_vars, NEW p \in Procs, proc[p].pc = "put",
                      proc[p].id \in DOMAIN rows' \ DOMAIN rows
               PROVE  IF proc[p].landed
                      THEN /\ rows'[proc[p].id].parent = proc[p].target
                           /\ proc[p].target \in DOMAIN rows
                      ELSE rows'[proc[p].id].parent = LatestSnapshot(rows, proc[p].ws)
    OBVIOUS
  <2>1. PICK q \in Procs : PutRow(q) /\ proc[q].id = proc[p].id
    BY RowsAdded
  <2>2. q = p
    BY <2>1 DEF PutRow, At, LInv, IInv, Fresh
  <2>3. rows'[proc[p].id].parent = proc[p].up /\ MayPut(rows, proc[p].up)
    BY <2>1, <2>2, PutRowGives
  <2>4. /\ proc[p].up = IF proc[p].landed THEN proc[p].target ELSE LatestSnapshot(rows, proc[p].ws)
        /\ proc[p].landed => proc[p].target # None
    BY LockFacts DEF Keeps, WritesWell, RestoresWell
  <2> QED BY <2>3, <2>4 DEF MayPut
<1> QED BY <1>1, LInvHolds, PTL DEF Spec, NodesHangWhereTheyShould

-----------------------------------------------------------------------------
\* The locals of a goroutine change in its own steps, or go in a crash.
LEMMA MoveIsOwn ==
    ASSUME TypeOK, NEW q \in Procs, Lock(q) \/ Work(q), NEW p \in Procs, p # q
    PROVE  proc'[p] = proc[p]
<1>1. PICK r : Move(q, r)
  BY DEF Lock, Work, BeginCreate, RefuseCreate, EndCreate, FailCreate, PutRow, FailPut,
     EngineRestore, FailRestore, ListExcess, SkipRetention, SelectSubtree, RefusePrune, BeginFree,
     RefuseFree, EndFree, FailFree, FailReread, MoveChildren, FailMoveChildren, DropRow, FailDrop,
     FinishRemoval, Unlock, Stop, Stuck, Choose, GiveUpWrite, GoTo
<1> QED BY <1>1 DEF Move, TypeOK

\* A step that frees or moves a row is that of a goroutine at work on its workset.
LEMMA OwnStep ==
    ASSUME TypeOK, [Next]_vars, NEW p \in Procs, proc'[p] # proc[p]
    PROVE  \/ Work(p) \/ Lock(p)
           \/ /\ phase = "serving" /\ proc[p].pc = "idle" /\ proc'[p].pc = "lock"
              /\ rows' = rows /\ disk' = disk /\ proc'[p].target \in DOMAIN rows \union {None}
           \/ Crash /\ proc'[p] = Idle
<1> DEFINE Arrives(q, r) == Arrive(q, r) /\ r.pc = "lock" /\ r.target \in DOMAIN rows \union {None}
<1>1. ASSUME NEW q \in Procs, NEW r, Arrives(q, r)
      PROVE  /\ phase = "serving" /\ proc[p].pc = "idle" /\ proc'[p].pc = "lock"
             /\ rows' = rows /\ disk' = disk /\ proc'[p].target \in DOMAIN rows \union {None}
  BY <1>1 DEF Arrive, At, Move, TypeOK
<1>2. CASE \E c \in Clients : Request(c)
  <2>1. PICK c \in Clients : Request(c)
    BY <1>2
  <2>2. c \in Procs
    BY DEF Procs
  <2>3. ASSUME NEW w \in Worksets, NEW op \in Writes, CreateSnapshot(c, w, op)
        PROVE  \E r : Arrives(c, r)
    <3> DEFINE r == [Idle EXCEPT !.op = op, !.pc = "lock", !.ws = w]
    <3>1. Arrive(c, r) /\ r.pc = "lock" /\ r.target = None
      BY <2>3 DEF CreateSnapshot, Idle
    <3> HIDE DEF r
    <3> QED BY <3>1
  <2>4. ASSUME NEW t \in DOMAIN rows, NEW op \in Removes \union {"restore"}, RestoreOrPrune(c, t, op)
        PROVE  \E r : Arrives(c, r)
    <3> DEFINE r == [Idle EXCEPT !.op = op, !.pc = "lock", !.ws = rows[t].ws, !.target = t]
    <3>1. Arrive(c, r) /\ r.pc = "lock" /\ r.target = t
      BY <2>4 DEF RestoreOrPrune, Idle
    <3> HIDE DEF r
    <3> QED BY <3>1
  <2> HIDE DEF Arrives
  <2> QED BY <1>1, <2>1, <2>2, <2>3, <2>4 DEF Request
<1>3. CASE \E w \in Worksets : PruneAll(w)
  <2>1. \E r : Arrives(Timer, r)
    <3>1. PICK w \in Worksets : PruneAll(w)
      BY <1>3
    <3> DEFINE r == [Idle EXCEPT !.op = "retain", !.pc = "lock", !.ws = w]
    <3>2. Arrive(Timer, r) /\ r.pc = "lock" /\ r.target = None
      BY <3>1 DEF PruneAll, Idle
    <3> HIDE DEF r
    <3> QED BY <3>2
  <2> HIDE DEF Arrives
  <2> QED BY <1>1, <2>1 DEF Procs
<1>4. CASE TimerTicks \/ UNCHANGED vars
  BY <1>4 DEF TimerTicks, vars
<1>5. CASE \E q \in Procs : Lock(q) \/ Work(q)
  BY <1>5, MoveIsOwn
<1>6. CASE Boot
  BY <1>6 DEF Boot, Start, ReconcileScan, ReconcileRefuses, ReconcileReparent, ReconcileDrop,
     ReconcileRowFails, ReconcileHandle, ReconcileHandleFails, Serve, Daemon
<1>7. CASE Crash
  BY <1>7 DEF Crash
<1> QED BY <1>2, <1>3, <1>4, <1>5, <1>6, <1>7 DEF Next

\* Only BeginFree takes a goroutine from choosing a row to removing its handle.
LEMMA FreeingStarts ==
    ASSUME TypeOK, [Next]_vars, NEW p \in Procs, proc[p].pc = "free", proc'[p].pc = "freeing"
    PROVE  BeginFree(p)
<1>1. Work(p)
  BY OwnStep DEF Lock, At, Idle
<1>2. proc[p] \in ProcRec
  BY DEF TypeOK
<1>3. ~RefuseFree(p) /\ ~FailReread(p) /\ ~FinishRemoval(p)
  <2>1. ASSUME NEW i, Stuck(p, i) PROVE FALSE
    BY <1>2, <2>1 DEF Stuck, Move, TypeOK, ProcRec
  <2>2. ~Stop(p)
    BY <1>2 DEF Stop, GoTo, Move, TypeOK, ProcRec
  <2> QED BY <2>1, <2>2 DEF RefuseFree, FailReread, FinishRemoval
<1> QED BY <1>1, <1>3 DEF Work, BeginCreate, RefuseCreate, EndCreate, FailCreate, PutRow, FailPut,
     EngineRestore, FailRestore, ListExcess, SkipRetention, SelectSubtree, RefusePrune, EndFree,
     FailFree, MoveChildren, FailMoveChildren, DropRow, FailDrop, Unlock, At

(***************************************************************************)
(* A prune frees what its caller named and nothing else: the target, or    *)
(* with cascade a descendant of it, and never a snapshot that still has a  *)
(* child, also when the graph changed while the request waited             *)
(* (service.go 405-406, USE-CASES "Free disk space").                      *)
(***************************************************************************)
THEOREM PruneTakesOnlyThat == Spec => PruneTakesWhatWasAsked
<1>1. LInv /\ [Next]_vars =>
          [\A p \in Procs :
              LET me == proc[p]
                  i == proc'[p].cur
              IN  me.op \in Removes /\ me.pc = "free" /\ proc'[p].pc = "freeing" =>
                      /\ Children(rows, i) = {}
                      /\ i # me.target =>
                            me.op = "cascade" /\ me.target \in Ancestors(rows, i)]_vars
  <2> SUFFICES ASSUME LInv, [Next]_vars, NEW p \in Procs, proc[p].op \in Removes,
                      proc[p].pc = "free", proc'[p].pc = "freeing"
               PROVE  /\ Children(rows, proc'[p].cur) = {}
                      /\ proc'[p].cur # proc[p].target =>
                            /\ proc[p].op = "cascade"
                            /\ proc[p].target \in Ancestors(rows, proc'[p].cur)
    OBVIOUS
  <2>1. BeginFree(p) /\ proc[p] \in ProcRec /\ Keeps(proc[p], rows)
    BY FreeingStarts, LockFacts DEF LInv, IInv
  <2>2. PICK i \in proc[p].todo : IsNext(proc[p], i) /\ proc'[p].cur = i
    BY <2>1 DEF BeginFree, Move, LInv, IInv, TypeOK, ProcRec
  <2>3. ~Retains(proc[p])
    BY DEF Retains, Removes, Writes
  <2>4. Children(rows, i) = {}
    BY <2>2, <2>3, NextRow
  <2>5. i # proc[p].target =>
            proc[p].op = "cascade" /\ proc[p].target \in Ancestors(rows, i)
    BY <2>1, <2>2, <2>3 DEF Keeps, PrunesWell, Taking
  <2> QED BY <2>2, <2>4, <2>5
<1> QED BY <1>1, LInvHolds, PTL DEF Spec, PruneTakesWhatWasAsked
==============================================================================
