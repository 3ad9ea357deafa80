----------------------- MODULE SnapshotServiceDiskProofs -----------------------
(***************************************************************************)
(* What the graph, the snapshot root and Reconcile's list have to do with  *)
(* each other, and the properties of SnapshotService that rest on it.      *)
(*                                                                         *)
(* SnapshotServiceLockProofs gives what a goroutine knows of the graph;    *)
(* here the handles come in.  A handle is written by the goroutine that    *)
(* took its identifier and by no other, and goes before its row does, so   *)
(* a handle that is gone stays gone.  What holds only when a delete that   *)
(* answers no error has removed the handle, only on a backend without a    *)
(* provider, or only under a clock that never goes back, says so.          *)
(* At the end: the daemon implements SnapshotHistory, and Reconcile serves. *)
(***************************************************************************)
EXTENDS SnapshotServiceLockProofs, SnapshotServiceRefinement, FiniteSetTheorems

USE DEF None

-----------------------------------------------------------------------------
\* The step that takes a goroutine to each of the points that touch a handle
\* or a row.
LEMMA WorkTurns ==
    ASSUME TypeOK, NEW p \in Procs, Work(p)
    PROVE  /\ proc'[p].pc = "copy" => BeginCreate(p)
           /\ proc'[p].pc = "put" => EndCreate(p)
           /\ proc'[p].pc = "list" => PutRow(p)
           /\ proc'[p].pc = "freeing" => BeginFree(p)
           /\ proc'[p].pc = "reparent" => EndFree(p)
           /\ proc'[p].pc = "drop" => EndFree(p) \/ MoveChildren(p)
           /\ proc'[p].landed => proc[p].landed \/ EngineRestore(p)
           /\ proc'[p].pc # "idle" => proc'[p].target = proc[p].target
           /\ proc'[p].pc # "idle" => proc'[p].ws = proc[p].ws /\ proc'[p].op = proc[p].op
           /\ proc[p].pc \notin {"idle", "lock"}
<1> DEFINE me == proc[p]
           Turn(pcs, landed) ==
               /\ me.pc \notin {"idle", "lock"}
               /\ proc'[p].pc \in pcs
               /\ proc'[p].landed = landed
               /\ proc'[p].pc # "idle" =>
                      /\ proc'[p].target = me.target
                      /\ proc'[p].ws = me.ws /\ proc'[p].op = me.op
<1>1. proc \in [Procs -> ProcRec] /\ me \in ProcRec
  BY DEF TypeOK
<1>2. ASSUME NEW pc, GoTo(p, pc)
      PROVE  /\ proc'[p].pc = pc /\ proc'[p].landed = me.landed
             /\ proc'[p].target = me.target /\ proc'[p].ws = me.ws /\ proc'[p].op = me.op
  BY <1>1, <1>2 DEF GoTo, Move, ProcRec
<1>3. Stop(p) /\ me.pc \notin {"idle", "lock"} => Turn({"unlock"}, me.landed)
  BY <1>1, <1>2 DEF Stop, ProcRec
<1>4. GiveUpWrite(p) /\ me.pc \notin {"idle", "lock"} => Turn({"restore", "unlock"}, me.landed)
  BY <1>1 DEF GiveUpWrite, Move, ProcRec, AfterFailedWrite
<1>5. \A i : Stuck(p, i) /\ me.pc \notin {"idle", "lock"} => Turn({"free", "unlock"}, me.landed)
  BY <1>1 DEF Stuck, Move, ProcRec
<1>6. BeginCreate(p) => Turn({"copy"}, me.landed)
  BY <1>1 DEF BeginCreate, Move, ProcRec, At
<1>7. EndCreate(p) => Turn({"put"}, me.landed)
  BY <1>1, <1>2 DEF EndCreate, ProcRec, At
<1>8. PutRow(p) => Turn({"list", "unlock", "restore"}, me.landed)
  BY <1>1 DEF PutRow, Move, ProcRec, At, AfterWrite
<1>9. EngineRestore(p) => Turn({"begin"}, TRUE)
  BY <1>1 DEF EngineRestore, Move, ProcRec, At
<1>10. ListExcess(p) \/ SelectSubtree(p) => Turn({"free"}, me.landed)
  <2>1. ASSUME NEW S, Choose(p, S), me.pc \notin {"idle", "lock"} PROVE Turn({"free"}, me.landed)
    BY <1>1, <2>1 DEF Choose, Move, ProcRec
  <2> QED BY <2>1 DEF ListExcess, SelectSubtree, At
<1>11. BeginFree(p) => Turn({"freeing"}, me.landed)
  BY <1>1 DEF BeginFree, Move, ProcRec, At
<1>12. EndFree(p) => Turn({"reparent", "drop"}, me.landed)
  BY <1>1, <1>2 DEF EndFree, ProcRec, At
<1>13. MoveChildren(p) => Turn({"drop"}, me.landed)
  BY <1>1, <1>2 DEF MoveChildren, ProcRec, At
<1>14. DropRow(p) => Turn({"free"}, me.landed)
  BY <1>1 DEF DropRow, Move, ProcRec, At
<1>15. Unlock(p) => Turn({"idle"}, FALSE)
  BY <1>1 DEF Unlock, Move, At, Idle
<1>16. RefuseCreate(p) \/ FailCreate(p) \/ FailPut(p) => Turn({"restore", "unlock"}, me.landed)
  BY <1>4 DEF RefuseCreate, FailCreate, FailPut, At
<1>17. FailRestore(p) \/ SkipRetention(p) \/ RefusePrune(p) \/ FailReread(p) \/ FailMoveChildren(p)
       \/ FailDrop(p) \/ FinishRemoval(p) => Turn({"unlock"}, me.landed)
  BY <1>3 DEF FailRestore, SkipRetention, RefusePrune, FailReread, FailMoveChildren, FailDrop,
     FinishRemoval, At, Stop
<1>18. RefuseFree(p) \/ FailFree(p) => Turn({"free", "unlock"}, me.landed)
  BY <1>5 DEF RefuseFree, FailFree, At
<1> HIDE DEF Turn
<1>19. \/ EngineRestore(p) /\ Turn({"begin"}, TRUE)
       \/ Unlock(p) /\ Turn({"idle"}, FALSE)
       \/ BeginCreate(p) /\ Turn({"copy"}, me.landed)
       \/ EndCreate(p) /\ Turn({"put"}, me.landed)
       \/ PutRow(p) /\ Turn({"list", "unlock", "restore"}, me.landed)
       \/ BeginFree(p) /\ Turn({"freeing"}, me.landed)
       \/ EndFree(p) /\ Turn({"reparent", "drop"}, me.landed)
       \/ MoveChildren(p) /\ Turn({"drop"}, me.landed)
       \/ Turn({"free"}, me.landed) \/ Turn({"free", "unlock"}, me.landed)
       \/ Turn({"unlock"}, me.landed) \/ Turn({"restore", "unlock"}, me.landed)
  BY <1>6, <1>7, <1>8, <1>9, <1>10, <1>11, <1>12, <1>13, <1>14, <1>15, <1>16, <1>17, <1>18 DEF Work
<1>20. CASE EndFree(p) /\ Turn({"reparent", "drop"}, me.landed)
  BY <1>20, <1>1, <1>2 DEF Turn, EndFree, ProcRec
<1> QED BY <1>19, <1>20 DEF Turn

\* What taking and giving back a lock does to the locals of a goroutine.
LEMMA LockTurns ==
    ASSUME IInv, NEW p \in Procs, Lock(p)
    PROVE  /\ proc'[p].pc \in {"begin", "select", "list"}
           /\ proc'[p].landed = proc[p].landed /\ proc'[p].target = proc[p].target
           /\ proc'[p].id = proc[p].id /\ proc'[p].ws = proc[p].ws /\ proc'[p].op = proc[p].op
           /\ proc'[p].pc = "list" => proc[p].op = "retain"
           /\ proc[p].pc = "lock"
<1>1. proc \in [Procs -> ProcRec] /\ proc[p] \in ProcRec
  BY DEF IInv, TypeOK
<1>2. proc[p].op \in Ops \ {"none"} /\ proc[p].pc = "lock"
  BY ProcFacts DEF Lock, At, Sound
<1>3. /\ Entry(proc[p].op) \in {"begin", "select", "list"}
      /\ Entry(proc[p].op) = "list" => proc[p].op = "retain"
  BY <1>2 DEF Entry, Ops, Writes, Removes
<1>4. proc'[p] = [proc[p] EXCEPT !.pc = Entry(proc[p].op)]
  BY <1>1 DEF Lock, GoTo, Move
<1> QED BY <1>1, <1>2, <1>3, <1>4 DEF ProcRec

-----------------------------------------------------------------------------
\* Which steps touch the handle of one snapshot, and what they make of it.
LEMMA DiskSteps ==
    ASSUME TypeOK, [Next]_vars, NEW i \in Id
    PROVE  \/ disk'[i] = disk[i]
           \/ \E p \in Procs :
                 \/ BeginCreate(p) /\ i = next
                 \/ (EndCreate(p) \/ FailCreate(p) \/ FailPut(p)) /\ i = proc[p].id
                 \/ EndCreate(p) /\ i \in Evicted /\ disk'[i] = "hollow"
                 \/ /\ BeginFree(p) /\ i \in proc[p].todo /\ IsNext(proc[p], i)
                    /\ disk'[i] = IF disk[i] = "absent" THEN "absent" ELSE "damaged"
                    /\ proc'[p].pc = "freeing" /\ proc'[p].cur = i
                 \/ EndFree(p) /\ i = proc[p].cur /\ disk'[i] \in Leavings
           \/ ReconcileHandle /\ i \in Orphans /\ disk'[i] \in Leavings
<1>0. disk \in [Id -> Handle]
  BY DEF TypeOK
<1>1. CASE \E c \in Clients : Request(c)
  BY <1>1 DEF Request, CreateSnapshot, RestoreOrPrune, Arrive
<1>2. CASE TimerTicks \/ \E w \in Worksets : PruneAll(w)
  BY <1>2 DEF TimerTicks, PruneAll, Arrive
<1>3. ASSUME NEW p \in Procs, BeginCreate(p) PROVE disk'[i] = disk[i] \/ i = next
  BY <1>0, <1>3 DEF BeginCreate
<1>4. ASSUME NEW p \in Procs, EndCreate(p)
      PROVE  disk'[i] = disk[i] \/ i = proc[p].id \/ (i \in Evicted /\ disk'[i] = "hollow")
  BY <1>0, <1>4 DEF EndCreate
<1>5. ASSUME NEW p \in Procs, FailCreate(p) \/ FailPut(p)
      PROVE  disk'[i] = disk[i] \/ i = proc[p].id
  BY <1>0, <1>5 DEF FailCreate, FailPut
<1>6. ASSUME NEW p \in Procs, BeginFree(p)
      PROVE  \/ disk'[i] = disk[i]
             \/ /\ i \in proc[p].todo /\ IsNext(proc[p], i)
                /\ disk'[i] = IF disk[i] = "absent" THEN "absent" ELSE "damaged"
                /\ proc'[p].pc = "freeing" /\ proc'[p].cur = i
  <2>1. PICK j \in proc[p].todo :
            /\ IsNext(proc[p], j)
            /\ disk' = [disk EXCEPT ![j] = IF @ = "absent" THEN @ ELSE "damaged"]
            /\ Move(p, [proc[p] EXCEPT !.pc = "freeing", !.cur = j,
                                       !.up = IF Retains(proc[p]) THEN rows[j].parent ELSE None])
    BY <1>6 DEF BeginFree
  <2>2. proc'[p].pc = "freeing" /\ proc'[p].cur = j
    BY <2>1 DEF Move, TypeOK, ProcRec
  <2> QED BY <1>0, <2>1, <2>2
<1>7. ASSUME NEW p \in Procs, EndFree(p)
      PROVE  disk'[i] = disk[i] \/ (i = proc[p].cur /\ disk'[i] \in Leavings)
  BY <1>0, <1>7 DEF EndFree
<1>8. ASSUME NEW p \in Procs, Lock(p) \/ Work(p)
      PROVE  \/ disk' = disk
             \/ BeginCreate(p) \/ EndCreate(p) \/ FailCreate(p) \/ FailPut(p)
             \/ BeginFree(p) \/ EndFree(p)
  BY <1>8 DEF Lock, Work, RefuseCreate, PutRow, EngineRestore, FailRestore, ListExcess,
     SkipRetention, SelectSubtree, RefusePrune, RefuseFree, FailFree, FailReread, MoveChildren,
     FailMoveChildren, DropRow, FailDrop, FinishRemoval, Unlock, Stop, Stuck, Choose
<1>9. CASE \E p \in Procs : Lock(p) \/ Work(p)
  BY <1>3, <1>4, <1>5, <1>6, <1>7, <1>8, <1>9
<1>10. CASE ReconcileHandle
  BY <1>0, <1>10 DEF ReconcileHandle
<1>11. CASE Boot /\ ~ReconcileHandle
  BY <1>11 DEF Boot, Start, ReconcileScan, ReconcileRefuses, ReconcileReparent, ReconcileDrop,
     ReconcileRowFails, ReconcileHandleFails, Serve
<1>12. CASE Crash \/ UNCHANGED vars
  BY <1>12 DEF Crash, vars
<1> QED BY <1>1, <1>2, <1>9, <1>10, <1>11, <1>12 DEF Next

\* An identifier that is a row, or that a goroutine refers to, is not one
\* that is being written.
LEMMA Settled ==
    ASSUME IInv, NEW i \in Id, i \in DOMAIN rows \/ \E p \in Procs : i \in Refs(proc[p])
    PROVE  /\ i < next
           /\ \A p \in Procs : proc[p].pc \in {"copy", "put"} => proc[p].id # i
BY DEF IInv, Sound, Fresh

\* A handle that is not complete never becomes complete again, and one that
\* is gone stays gone.
LEMMA SettledStays ==
    ASSUME IInv, [Next]_vars, NEW i \in Id, i < next,
           \A p \in Procs : proc[p].pc \in {"copy", "put"} => proc[p].id # i
    PROVE  /\ disk[i] # "whole" => disk'[i] # "whole"
           /\ Reported /\ disk[i] = "absent" => disk'[i] = "absent"
<1>1. TypeOK /\ next \in Nat
  BY IdFacts DEF IInv, TypeOK
<1>2. Leavings \subseteq {"absent", "damaged"} /\ (Reported => Leavings = {"absent"})
  BY BoundsAssumption DEF Leavings, Reported, Fails
<1>3. \A p \in Procs :
          ~(BeginCreate(p) /\ i = next) /\ ~((EndCreate(p) \/ FailCreate(p) \/ FailPut(p)) /\ i = proc[p].id)
  BY <1>1 DEF EndCreate, FailCreate, FailPut, At
<1>4. i \in Evicted => disk[i] = "whole"
  BY DEF Evicted, Held
<1>5. i \in Orphans => disk[i] # "absent"
  BY DEF Orphans
<1> QED BY <1>1, <1>2, <1>3, <1>4, <1>5, DiskSteps

-----------------------------------------------------------------------------
(***************************************************************************)
(* What Reconcile knows: it took every row for known, each row it still    *)
(* has to remove hangs where it did when the list was read unless that     *)
(* parent has gone, and the row in hand is the last of its workset on the  *)
(* list and has no child left.                                             *)
(***************************************************************************)
RecWell ==
    /\ phase \in {"rows", "drop"} =>
          /\ DOMAIN rows \subseteq rec.known
          /\ \A i \in rec.missing :
                rec.parent[i] \in {None} \union (DOMAIN rows \ {rec.cur}) =>
                    rows[i].parent = rec.parent[i]
    /\ phase = "rows" => rec.cur = None
    /\ phase = "drop" =>
          /\ rec.cur \in rec.missing
          /\ IsLast(rec.cur, rec.missing)
          /\ Children(rows, rec.cur) = {}

\* A goroutine that is past the start of a removal has taken the handle.
HandlesFirst ==
    \A p \in Procs : proc[p].pc \in {"freeing", "reparent", "drop"} => disk[proc[p].cur] # "whole"

GInv == LInv /\ RecWell /\ HandlesFirst /\ GoneIsGone

\* A goroutine whose copy is made goes on to the row.
LEMMA EndsCopy ==
    ASSUME TypeOK, NEW p \in Procs, EndCreate(p)
    PROVE  proc[p].pc = "copy" /\ proc'[p].pc = "put"
BY DEF EndCreate, GoTo, Move, At, TypeOK, ProcRec

\* What the steps around a handle do to the locals that name it.
LEMMA NamesKept ==
    ASSUME TypeOK, NEW p \in Procs
    PROVE  /\ BeginCreate(p) => proc'[p].pc = "copy" /\ proc'[p].id = next
           /\ EndCreate(p) => proc'[p].pc = "put" /\ proc'[p].id = proc[p].id
           /\ FailCreate(p) \/ FailPut(p) => proc'[p].pc \in {"restore", "unlock"}
           /\ EndFree(p) => proc'[p].pc \in {"reparent", "drop"} /\ proc'[p].cur = proc[p].cur
           /\ MoveChildren(p) => proc'[p].pc = "drop" /\ proc'[p].cur = proc[p].cur
<1>1. proc \in [Procs -> ProcRec] /\ proc[p] \in ProcRec
  BY DEF TypeOK
<1>2. BeginCreate(p) => proc'[p].pc = "copy" /\ proc'[p].id = next
  BY <1>1 DEF BeginCreate, Move, ProcRec
<1>3. ASSUME NEW pc, GoTo(p, pc)
      PROVE  proc'[p].pc = pc /\ proc'[p].id = proc[p].id /\ proc'[p].cur = proc[p].cur
  BY <1>1, <1>3 DEF GoTo, Move, ProcRec
<1>4. GiveUpWrite(p) => proc'[p].pc \in {"restore", "unlock"}
  BY <1>1 DEF GiveUpWrite, Move, ProcRec, AfterFailedWrite
<1>5. EndCreate(p) => GoTo(p, "put")
  BY DEF EndCreate
<1>6. MoveChildren(p) => GoTo(p, "drop")
  BY DEF MoveChildren
<1>7. EndFree(p) => GoTo(p, "reparent") \/ GoTo(p, "drop")
  BY DEF EndFree
<1>8. FailCreate(p) \/ FailPut(p) => GiveUpWrite(p)
  BY SMTT(40) DEF FailCreate, FailPut
<1> QED BY <1>2, <1>3, <1>4, <1>5, <1>6, <1>7, <1>8

\* Every step keeps HandlesFirst.
LEMMA HandlesFirstKept ==
    ASSUME LInv, IInv', HandlesFirst, [Next]_vars
    PROVE  HandlesFirst'
<1> SUFFICES ASSUME NEW p \in Procs, proc'[p].pc \in {"freeing", "reparent", "drop"}
             PROVE  disk'[proc'[p].cur] # "whole"
  BY DEF HandlesFirst
<1>0. IInv /\ TypeOK /\ disk \in [Id -> Handle] /\ Keeps(proc[p], rows)
  BY LockFacts DEF LInv, IInv, TypeOK
<1>1. CASE proc'[p] = proc[p]
  <2>1. proc[p].cur \in Id /\ proc[p].cur \in Refs(proc[p])
    BY <1>0, <1>1 DEF IInv, Sound, Refs
  <2> QED BY <1>0, <1>1, <2>1, Settled, SettledStays DEF HandlesFirst
<1>2. CASE proc'[p] # proc[p]
  <2>1. Work(p)
    BY <1>0, <1>2, OwnStep, LockTurns DEF Idle
  <2>2. CASE BeginFree(p)
    <3>1. PICK i \in proc[p].todo :
              /\ disk' = [disk EXCEPT ![i] = IF @ = "absent" THEN @ ELSE "damaged"]
              /\ Move(p, [proc[p] EXCEPT !.pc = "freeing", !.cur = i,
                                         !.up = IF Retains(proc[p]) THEN rows[i].parent ELSE None])
      BY <2>2 DEF BeginFree
    <3>2. i \in Id /\ proc'[p].cur = i
      BY <1>0, <3>1 DEF Move, TypeOK, ProcRec
    <3> QED BY <1>0, <3>1, <3>2
  <2>3. CASE EndFree(p)
    <3>1. proc[p].cur \in Id /\ proc'[p].cur = proc[p].cur
      BY <1>0, <2>3, NamesKept DEF EndFree, At, IInv, Sound
    <3>2. PICK left \in Leavings : disk' = [disk EXCEPT ![proc[p].cur] = left]
      BY <2>3 DEF EndFree
    <3>3. left # "whole"
      BY <3>2 DEF Leavings
    <3> QED BY <1>0, <3>1, <3>2, <3>3
  <2>4. CASE MoveChildren(p)
    BY <1>0, <2>4, NamesKept DEF MoveChildren, At, HandlesFirst
  <2> QED BY <1>0, <2>1, <2>2, <2>3, <2>4, WorkTurns
<1> QED BY <1>1, <1>2

\* Every step keeps GoneIsGone: nothing makes a handle under an identifier that is used up.
LEMMA GoneKept ==
    ASSUME LInv, IInv', GoneIsGone, [Next]_vars
    PROVE  GoneIsGone'
<1> SUFFICES ASSUME Reported, NEW p \in Procs
             PROVE  /\ proc'[p].pc \in {"reparent", "drop"} => disk'[proc'[p].cur] = "absent"
                    /\ proc'[p].pc # "idle" /\ proc'[p].target # None =>
                          \/ proc'[p].target \in DOMAIN rows'
                          \/ ~proc'[p].landed /\ disk'[proc'[p].target] = "absent"
  BY DEF GoneIsGone, Reported
<1>0. IInv /\ TypeOK /\ disk \in [Id -> Handle] /\ proc[p] \in ProcRec
  BY DEF LInv, IInv, TypeOK
<1>1. ASSUME proc'[p].pc \in {"reparent", "drop"} PROVE disk'[proc'[p].cur] = "absent"
  <2>1. CASE proc'[p] = proc[p]
    <3>1. proc[p].cur \in Id /\ proc[p].cur \in Refs(proc[p])
      BY <1>0, <1>1, <2>1 DEF IInv, Sound, Refs
    <3> QED BY <1>0, <1>1, <2>1, <3>1, Settled, SettledStays DEF GoneIsGone
  <2>2. CASE proc'[p] # proc[p]
    <3>1. EndFree(p) \/ MoveChildren(p)
      BY <1>0, <1>1, <2>2, OwnStep, LockTurns, WorkTurns DEF Idle
    <3>2. proc'[p].cur = proc[p].cur
      BY <1>0, <3>1 DEF EndFree, MoveChildren, GoTo, Move, TypeOK, ProcRec
    <3>3. CASE EndFree(p)
      <4>1. Leavings = {"absent"}
        BY BoundsAssumption DEF Leavings, Reported, Fails
      <4>2. proc[p].cur \in Id
        BY <1>0, <3>3 DEF EndFree, At, IInv, Sound
      <4> QED BY <1>0, <3>2, <3>3, <4>1, <4>2 DEF EndFree
    <3>4. CASE MoveChildren(p)
      BY <3>2, <3>4 DEF MoveChildren, At, GoneIsGone
    <3> QED BY <3>1, <3>3, <3>4
  <2> QED BY <2>1, <2>2
<1>2. ASSUME proc'[p].pc # "idle", proc'[p].target # None, proc'[p].target \notin DOMAIN rows'
      PROVE  ~proc'[p].landed /\ disk'[proc'[p].target] = "absent"
  <2> DEFINE t == proc[p].target
  <2>1. /\ proc'[p].target = t /\ proc[p].pc # "idle"
        /\ proc'[p].landed => proc[p].landed \/ EngineRestore(p)
    BY <1>0, <1>2, OwnStep, LockTurns, WorkTurns DEF Idle
  <2>2. t \in Id /\ t \in Refs(proc[p]) /\ phase = "serving"
    BY <1>0, <1>2, <2>1 DEF ProcRec, Refs, IInv
  <2>3. CASE t \in DOMAIN rows
    <3>1. PICK q \in Procs : DropRow(q) /\ proc[q].cur = t
      BY <1>2, <2>1, <2>2, <2>3, RowsGone DEF ReconcileDrop
    <3>2. proc[q].pc = "drop" /\ disk' = disk /\ disk[t] = "absent"
      BY <3>1 DEF DropRow, At, GoneIsGone
    <3>3. ~proc[p].landed
      <4>1. Inside(proc[q]) /\ rows[t].ws = proc[q].ws /\ proc[q].op # "restore"
        BY <2>3, <3>1, <3>2, LockFacts DEF Keeps, TakesOwn, PrunesWell, Taking, Inside, Retains,
           Writes, Removes
      <4>2. rows[t].ws = proc[p].ws /\ (proc[p].landed => Inside(proc[p]) /\ proc[p].op = "restore")
        BY <2>3, LockFacts DEF Sound, Keeps, RestoresWell
      <4> QED BY <4>1, <4>2, LockFacts
    <3>4. ~EngineRestore(p)
      BY <1>2, <2>1, <2>3 DEF EngineRestore
    <3> QED BY <2>1, <3>2, <3>3, <3>4
  <2>4. CASE t \notin DOMAIN rows
    <3>1. ~proc[p].landed /\ disk[t] = "absent"
      BY <1>2, <2>1, <2>4 DEF GoneIsGone
    <3>2. ~EngineRestore(p)
      BY <3>1 DEF EngineRestore
    <3>3. disk'[t] = "absent"
      BY <1>0, <2>2, <3>1, Settled, SettledStays, SMTT(40)
    <3> QED BY <2>1, <3>1, <3>2, <3>3
  <2> QED BY <2>3, <2>4
<1> QED BY <1>1, <1>2

-----------------------------------------------------------------------------
\* Outside Boot only a crash changes the phase, and it clears the list.
LEMMA PhaseSteps ==
    ASSUME [Next]_vars
    PROVE  \/ Boot
           \/ Crash
           \/ phase' = phase /\ phase = "serving"
           \/ UNCHANGED vars
BY ZenonT(60) DEF Next, Request, CreateSnapshot, RestoreOrPrune, Arrive, TimerTicks, PruneAll, Lock, Work,
   BeginCreate, RefuseCreate, EndCreate, FailCreate, PutRow, FailPut, EngineRestore, FailRestore,
   ListExcess, SkipRetention, SelectSubtree, RefusePrune, BeginFree, RefuseFree, EndFree, FailFree,
   FailReread, MoveChildren, FailMoveChildren, DropRow, FailDrop, FinishRemoval, Unlock, Stop,
   Stuck, Choose, GiveUpWrite, GoTo, Move, At

\* The list Reconcile makes.
LEMMA ScanGives ==
    ASSUME IInv, ReconcileScan
    PROVE  /\ rec'.known = DOMAIN rows /\ rec'.cur = None
           /\ \A i \in DOMAIN rows : rec'.parent[i] = rows[i].parent
           /\ Absent \subseteq rec'.missing /\ rec'.missing \subseteq Absent \union Lost
           /\ phase' = "rows" /\ rows' = rows /\ disk' = disk
<1>1. PICK lost \in SUBSET Lost :
          rec' = [known   |-> DOMAIN rows,
                  parent  |-> [i \in Id |-> IF i \in DOMAIN rows THEN rows[i].parent ELSE None],
                  missing |-> Absent \union lost,
                  cur     |-> None]
  BY DEF ReconcileScan, Daemon
<1>2. DOMAIN rows \subseteq Id
  BY DEF IInv, TypeOK
<1> QED BY <1>1, <1>2 DEF ReconcileScan, Daemon

\* Reconcile takes a row in hand: its children go to the parent it was under.
LEMMA ReparentTakes ==
    ASSUME IInv, RecWell, ReconcileReparent
    PROVE  \E i \in rec.missing :
              /\ IsLast(i, rec.missing) /\ i \in DOMAIN rows
              /\ rows' = Reparent(rows, i, rows[i].parent)
              /\ rec.parent[i] # i
              /\ rec'.known = rec.known /\ rec'.parent = rec.parent
              /\ rec'.missing = rec.missing /\ rec'.cur = i
              /\ phase = "rows" /\ phase' = "drop" /\ disk' = disk
<1>1. PICK i \in rec.missing :
          /\ IsLast(i, rec.missing)
          /\ MayReparent(rows, i, rec.parent[i])
          /\ rows' = Reparent(rows, i, rec.parent[i])
          /\ Daemon("drop", [rec EXCEPT !.cur = i])
  BY DEF ReconcileReparent
<1>2. phase = "rows" /\ rec \in RecRec /\ disk' = disk
  BY DEF ReconcileReparent, IInv, TypeOK
<1>3. i \in DOMAIN rows /\ i \in Nat \ {0} /\ rec.parent[i] \in Nat /\ rec.parent[i] < i
  BY <1>2, IdFacts DEF IInv, RecSound, RecRec
<1>4. /\ rec'.known = rec.known /\ rec'.parent = rec.parent
      /\ rec'.missing = rec.missing /\ rec'.cur = i /\ phase' = "drop"
  BY <1>1, <1>2 DEF Daemon, RecRec
<1>5. rows' = Reparent(rows, i, rows[i].parent)
  <2>1. CASE Children(rows, i) = {}
    BY <1>1, <2>1 DEF Children, Reparent
  <2>2. CASE Children(rows, i) # {}
    <3>1. rec.parent[i] \in DOMAIN rows \union {None} /\ None \notin DOMAIN rows /\ rec.cur = None
      BY <1>1, <1>2, <2>2, IdFacts DEF MayReparent, IInv, TypeOK, RecWell
    <3> QED BY <1>1, <1>2, <3>1 DEF RecWell
  <2> QED BY <2>1, <2>2
<1> QED BY <1>1, <1>2, <1>3, <1>4, <1>5

\* Every step keeps RecWell: of the passes of Reconcile, and of the end of one.
LEMMA RecWellKept ==
    ASSUME IInv, IInv', RecWell, [Next]_vars
    PROVE  RecWell'
<1>1. CASE ReconcileScan
  <2>1. \A i \in rec'.missing : i \in DOMAIN rows
    BY <1>1, ScanGives DEF Absent, Lost
  <2> QED BY <1>1, <2>1, ScanGives DEF RecWell
<1>2. CASE ReconcileReparent
  <2>1. PICK i \in rec.missing :
            /\ IsLast(i, rec.missing) /\ i \in DOMAIN rows
            /\ rows' = Reparent(rows, i, rows[i].parent)
            /\ rec.parent[i] # i
            /\ rec'.known = rec.known /\ rec'.parent = rec.parent
            /\ rec'.missing = rec.missing /\ rec'.cur = i
            /\ phase = "rows" /\ phase' = "drop" /\ disk' = disk
    BY <1>2, ReparentTakes
  <2>2. /\ DOMAIN rows' = DOMAIN rows
        /\ \A j \in DOMAIN rows :
              /\ rows'[j].ws = rows[j].ws /\ rows'[j].at = rows[j].at
              /\ rows[j].parent # i => rows'[j].parent = rows[j].parent
              /\ rows[j].parent = i => rows'[j].parent = rows[i].parent
    BY <2>1 DEF Reparent
  <2>3. rec.missing \subseteq DOMAIN rows /\ None \notin DOMAIN rows /\ Forest(rows)
        /\ rec.cur = None
    BY <2>1, IdFacts DEF IInv, RecSound, TypeOK, GraphIntact, RecWell
  <2>4. \A j \in rec.missing :
            rec.parent[j] \in {None} \union (DOMAIN rows \ {i}) => rows'[j].parent = rec.parent[j]
    BY <2>1, <2>2, <2>3 DEF RecWell
  <2>5. IsLast(i, rec.missing)'
    BY <2>1, <2>2, <2>3 DEF IsLast, Before
  <2>6. Children(rows', i) = {}
    <3>1. i \in Nat \ {0} /\ rows[i].parent # i
      <4>1. i \in Nat \ {0} /\ rows[i].parent \in Nat
        BY <2>1, RowFacts, IdFacts
      <4> QED BY <2>1, <2>3, <4>1 DEF Forest
    <3> QED BY <2>2, <3>1 DEF Children
  <2> QED BY <2>1, <2>2, <2>4, <2>5, <2>6 DEF RecWell
<1>3. CASE ReconcileDrop
  <2>1. /\ phase = "drop" /\ phase' = "rows" /\ rows' = DeleteRow(rows, rec.cur)
        /\ rec' = [rec EXCEPT !.missing = @ \ {rec.cur}, !.cur = None]
    BY <1>3 DEF ReconcileDrop, Daemon
  <2>2. /\ rec'.known = rec.known /\ rec'.parent = rec.parent /\ rec'.cur = None
        /\ rec'.missing = rec.missing \ {rec.cur}
    BY <2>1 DEF IInv, TypeOK, RecRec
  <2>3. DOMAIN rows' = DOMAIN rows \ {rec.cur} /\ \A j \in DOMAIN rows' : rows'[j] = rows[j]
    BY <2>1 DEF DeleteRow
  <2>4. rec.missing \subseteq DOMAIN rows
    BY <2>1 DEF IInv, RecSound
  <2> QED BY <2>1, <2>2, <2>3, <2>4 DEF RecWell
<1>4. CASE ReconcileHandle
  <2>1. PICK i \in Orphans : Daemon("rows", [rec EXCEPT !.known = @ \union {i}])
    BY <1>4 DEF ReconcileHandle
  <2>2. /\ rec'.known = rec.known \union {i} /\ rec'.parent = rec.parent /\ rec'.cur = rec.cur
        /\ rec'.missing = rec.missing /\ phase = "rows" /\ phase' = "rows" /\ rows' = rows
    BY <1>4, <2>1 DEF ReconcileHandle, Daemon, IInv, TypeOK, RecRec
  <2> QED BY <2>2 DEF RecWell
<1>5. CASE Start \/ ReconcileRefuses \/ ReconcileRowFails \/ ReconcileHandleFails \/ Serve \/ Crash
  BY <1>5 DEF Start, ReconcileRefuses, ReconcileRowFails, ReconcileHandleFails, Serve, Crash,
     Daemon, RecWell
<1>6. CASE phase' = phase /\ phase = "serving"
  BY <1>6 DEF RecWell
<1>7. CASE UNCHANGED vars
  BY <1>7 DEF vars, RecWell, IsLast
<1> QED BY <1>1, <1>2, <1>3, <1>4, <1>5, <1>6, <1>7, PhaseSteps DEF Boot

-----------------------------------------------------------------------------
\* The initial states have it.
LEMMA InitGInv == Init => GInv
<1> SUFFICES ASSUME Init PROVE GInv
  OBVIOUS
<1>1. \A p \in Procs : proc[p].pc = "idle"
  BY DEF Init, Idle
<1>2. RecWell /\ HandlesFirst /\ GoneIsGone
  BY <1>1 DEF Init, RecWell, HandlesFirst, GoneIsGone
<1> QED BY <1>2, InitLInv DEF GInv

\* Every step keeps it: of a request, of retention, of a crash and of a start.
LEMMA NextGInv == GInv /\ [Next]_vars => GInv'
<1> SUFFICES ASSUME GInv, [Next]_vars PROVE GInv'
  OBVIOUS
<1>1. LInv' /\ IInv /\ IInv'
  BY NextLInv DEF GInv, LInv
<1> QED BY <1>1, RecWellKept, HandlesFirstKept, GoneKept DEF GInv

\* So every reachable state has it.
THEOREM GInvHolds == Spec => []GInv
BY InitGInv, NextGInv, PTL DEF Spec

(***************************************************************************)
(* No statement of a request or of the timer ever trips the foreign key or *)
(* ErrHasChildren, on every backend whose delete reports what it could not *)
(* remove: the parent an insert names still stands, the parent retention   *)
(* hands children to still stands (retention.go 51-52), and a row that     *)
(* goes has no child left.                                                 *)
(***************************************************************************)
THEOREM StatementsAlwaysFit ==
    ASSUME Reported
    PROVE  Spec => []StatementsFit
<1>1. GInv => StatementsFit
  <2> SUFFICES ASSUME GInv, NEW p \in Procs
               PROVE  /\ proc[p].pc = "put" => MayPut(rows, proc[p].up)
                      /\ proc[p].pc = "reparent" => MayReparent(rows, proc[p].cur, proc[p].up)
                      /\ proc[p].pc = "drop" => Children(rows, proc[p].cur) = {}
    BY DEF StatementsFit
  <2>1. LInv /\ Keeps(proc[p], rows) /\ Forest(rows)
    BY LockFacts, RowFacts DEF GInv, LInv
  <2>2. ASSUME proc[p].pc = "put" PROVE MayPut(rows, proc[p].up)
    <3>1. CASE proc[p].landed
      <4>1. proc[p].target # None /\ proc[p].up = proc[p].target
        BY <2>1, <2>2, <3>1 DEF Keeps, RestoresWell, WritesWell
      <4> QED BY <2>2, <3>1, <4>1 DEF GInv, GoneIsGone, MayPut
    <3>2. CASE ~proc[p].landed
      <4>1. proc[p].up = LatestSnapshot(rows, proc[p].ws)
        BY <2>1, <2>2, <3>2 DEF Keeps, WritesWell
      <4> QED BY <4>1, LatestIsARow DEF MayPut, Of
    <3> QED BY <3>1, <3>2
  <2>3. proc[p].pc = "reparent" => MayReparent(rows, proc[p].cur, proc[p].up)
    BY <2>1 DEF Keeps, RetainsWell, MayReparent, Forest
  <2>4. proc[p].pc = "drop" => Children(rows, proc[p].cur) = {}
    BY <2>1 DEF Keeps, PrunesWell
  <2> QED BY <2>2, <2>3, <2>4
<1> QED BY <1>1, GInvHolds, PTL

-----------------------------------------------------------------------------
\* Where no goroutine is at work only ReconcileHandle touches a handle.
LEMMA OrphansAreNoRows ==
    ASSUME GInv, ReconcileHandle, NEW i \in Orphans
    PROVE  i \notin DOMAIN rows
BY DEF ReconcileHandle, GInv, RecWell, Orphans

(***************************************************************************)
(* On every backend no step of retention, of a prune, of a restart or of a *)
(* failure takes the handle of a snapshot that a manual one descends from, *)
(* at that moment and not just when retention made its list (START.md      *)
(* section 6, retention.go 15-23).  What a provider deletes to make room,  *)
(* a handle that turns hollow, is the provider's choice.                   *)
(***************************************************************************)
THEOREM ManualChainsAreSpared == Spec => ManualChainsSpared
<1>1. GInv /\ [Next]_vars =>
          [\A i \in DOMAIN rows :
              disk[i] = "whole" /\ disk'[i] \notin {"whole", "hollow"} =>
                  \A m \in DOMAIN rows : ~rows[m].auto => i \notin Ancestors(rows, m)]_vars
  <2> SUFFICES ASSUME GInv, [Next]_vars, NEW i \in DOMAIN rows, disk[i] = "whole",
                      disk'[i] \notin {"whole", "hollow"}, NEW m \in DOMAIN rows, ~rows[m].auto,
                      i \in Ancestors(rows, m)
               PROVE  FALSE
    OBVIOUS
  <2>1. LInv /\ IInv /\ TypeOK /\ i \in Id
    BY RowFacts DEF GInv, LInv, IInv
  <2>2. i < next /\ \A p \in Procs : proc[p].pc \in {"copy", "put"} => proc[p].id # i
    BY <2>1, Settled
  <2>3. ~ReconcileHandle \/ i \notin Orphans
    BY OrphansAreNoRows
  <2>5. next \in Nat
    BY <2>1, IdFacts DEF TypeOK
  <2>6. ASSUME NEW p \in Procs, EndFree(p), i = proc[p].cur PROVE FALSE
    BY <2>6 DEF EndFree, At, GInv, HandlesFirst
  <2>7. PICK p \in Procs : BeginFree(p) /\ i \in proc[p].todo /\ IsNext(proc[p], i)
    BY <2>1, <2>2, <2>3, <2>5, <2>6, DiskSteps DEF EndCreate, FailCreate, FailPut, At
  <2>8. proc[p].pc = "free"
    BY <2>7 DEF BeginFree, At
  <2>9. CASE Retains(proc[p])
    <3>1. rows[i].ws = proc[p].ws /\ i \notin ManualAncestors(rows, proc[p].ws)
      BY <2>1, <2>7, <2>8, <2>9, NextRow
    <3>2. rows[i].ws = rows[m].ws
      BY <2>1, RowFacts, AncestorsOfWorkset DEF Of
    <3> QED BY <3>1, <3>2, ManualCoversChain
  <2>10. CASE ~Retains(proc[p])
    BY <2>1, <2>7, <2>8, <2>10, NextRow, LeafIsNoAncestor
  <2> QED BY <2>9, <2>10
<1> QED BY <1>1, GInvHolds, PTL DEF Spec, ManualChainsSpared

(***************************************************************************)
(* What can no longer be restored: there is no handle or, on a backend     *)
(* whose copies a provider holds, none that is whole.  What Reconcile      *)
(* removes is gone in that sense.                                          *)
(***************************************************************************)
Gone(i) == disk[i] = "absent" \/ (ProviderMax > 0 /\ disk[i] # "whole")

MissingGone == phase \in {"rows", "drop"} => \A i \in rec.missing : Gone(i)

\* What Reconcile found missing stays missing for the rest of the start.
LEMMA MissingGoneKept == GInv /\ MissingGone /\ [Next]_vars => MissingGone'
<1> SUFFICES ASSUME GInv, MissingGone, [Next]_vars, phase' \in {"rows", "drop"},
                    NEW i \in rec'.missing
             PROVE  Gone(i)'
  BY DEF MissingGone
<1>0. IInv /\ RecWell /\ RecSound /\ DOMAIN rows \subseteq Id /\ ProviderMax \in Nat
  BY RowFacts, BoundsAssumption DEF GInv, LInv, IInv
<1>1. CASE ReconcileScan
  BY <1>0, <1>1, ScanGives DEF Absent, Lost, Gone
<1>2. CASE ReconcileReparent
  BY <1>0, <1>2, ReparentTakes DEF MissingGone, Gone
<1>3. CASE ReconcileDrop
  BY <1>0, <1>3 DEF ReconcileDrop, Daemon, MissingGone, IInv, TypeOK, RecRec, Gone
<1>4. CASE ReconcileHandle
  <2>1. PICK o \in Orphans, left \in Leavings :
            /\ disk' = [disk EXCEPT ![o] = left]
            /\ Daemon("rows", [rec EXCEPT !.known = @ \union {o}])
    BY <1>4 DEF ReconcileHandle
  <2>2. rec'.missing = rec.missing /\ phase = "rows"
    BY <1>0, <1>4, <2>1 DEF ReconcileHandle, Daemon, IInv, TypeOK, RecRec
  <2>3. disk' = [disk EXCEPT ![o] = left] /\ disk \in [Id -> Handle] /\ o \in Id
    BY <1>0, <2>1 DEF IInv, TypeOK, Orphans
  <2>4. Gone(i) /\ (left = "absent" \/ (ProviderMax > 0 /\ left = "damaged"))
    BY <2>1, <2>2 DEF MissingGone, Leavings
  <2> QED BY <2>3, <2>4 DEF Gone
<1>5. CASE Start \/ ReconcileRefuses \/ ReconcileRowFails \/ ReconcileHandleFails \/ Serve \/ Crash
  BY <1>5 DEF Start, ReconcileRefuses, ReconcileRowFails, ReconcileHandleFails, Serve, Crash, Daemon
<1>6. CASE phase' = phase /\ phase = "serving"
  BY <1>6
<1>7. CASE UNCHANGED vars
  BY <1>7 DEF vars, MissingGone, Gone
<1> QED BY <1>1, <1>2, <1>3, <1>4, <1>5, <1>6, <1>7, PhaseSteps DEF Boot

\* A row that is out of its goroutine's hands is gone from the disk before it
\* is from the graph.
LEMMA TakenIsGone ==
    ASSUME GInv, NEW p \in Procs, proc[p].pc \in {"reparent", "drop"}
    PROVE  Gone(proc[p].cur)
BY BoundsAssumption DEF GInv, GoneIsGone, HandlesFirst, Reported, Gone

\* No step puts a row on another chain, and a row drops out of a chain only
\* once its handle is gone.
LEMMA ChainsKept ==
    ASSUME GInv, MissingGone, [Next]_vars,
           NEW i \in DOMAIN rows, i \in DOMAIN rows'
    PROVE  /\ Ancestors(rows', i) \subseteq Ancestors(rows, i)
           /\ \A a \in Ancestors(rows, i) \ Ancestors(rows', i) : Gone(a)
<1>0. /\ LInv /\ IInv /\ RecWell /\ Forest(rows) /\ None \notin DOMAIN rows
  BY RowFacts DEF GInv, LInv
<1>1. CASE rows' = rows
  BY <1>1
<1>2. ASSUME NEW p \in Procs, PutRow(p) PROVE Ancestors(rows', i) = Ancestors(rows, i)
  <2>1. PICK row : rows' = PutSnapshot(rows, proc[p].id, row)
    BY <1>2 DEF PutRow
  <2>2. proc[p].id \notin DOMAIN rows /\ proc[p].id # None
    BY <1>0, <1>2, PutRowGives, IdFacts
  <2> QED BY <1>0, <2>1, <2>2, PutKeepsChains
<1>3. ASSUME NEW old \in DOMAIN rows, rows' = Reparent(rows, old, rows[old].parent),
             Gone(old)
      PROVE  /\ Ancestors(rows', i) \subseteq Ancestors(rows, i)
             /\ \A a \in Ancestors(rows, i) \ Ancestors(rows', i) : Gone(a)
  BY <1>3, ReparentKeepsChains
<1>4. ASSUME NEW p \in Procs, MoveChildren(p)
      PROVE  /\ proc[p].cur \in DOMAIN rows /\ Gone(proc[p].cur)
             /\ rows' = Reparent(rows, proc[p].cur, rows[proc[p].cur].parent)
  BY <1>0, <1>4, LockFacts, TakenIsGone DEF MoveChildren, At, Keeps, RetainsWell
<1>5. ASSUME NEW p \in Procs, DropRow(p) PROVE Ancestors(rows', i) = Ancestors(rows, i)
  BY <1>5, DeleteKeepsChains DEF DropRow, MayDelete, DeleteRow
<1>6. CASE ReconcileReparent
  BY <1>0, <1>3, <1>6, ReparentTakes DEF MissingGone
<1>7. CASE ReconcileDrop
  BY <1>7, DeleteKeepsChains DEF ReconcileDrop, MayDelete, DeleteRow
<1> QED BY <1>1, <1>2, <1>3, <1>4, <1>5, <1>6, <1>7, TableSteps

(***************************************************************************)
(* On every backend the chain a client reads stays connected: a step never *)
(* puts a row on another chain, and a row drops out of a chain only after  *)
(* its own handle has been freed.  True of retention, prune and Reconcile  *)
(* alike (retention.go 22-23, README "its children join its parent"),      *)
(* whatever the clock does.                                                *)
(***************************************************************************)
THEOREM ChainsAlwaysConnected == Spec => ChainsStayConnected
<1>1. Init => MissingGone
  BY DEF Init, MissingGone
<1>2. GInv /\ MissingGone /\ [Next]_vars =>
          [\A i \in DOMAIN rows \intersect DOMAIN rows' :
              LET before == Ancestors(rows, i)
                  after == Ancestors(rows', i)
              IN  /\ after \subseteq before
                  /\ \A a \in before \ after :
                         disk[a] = "absent" \/ (ProviderMax > 0 /\ disk[a] # "whole")]_vars
  BY ChainsKept DEF Gone
<1> QED BY <1>1, <1>2, MissingGoneKept, GInvHolds, PTL DEF Spec, ChainsStayConnected

-----------------------------------------------------------------------------
(***************************************************************************)
(* Under a clock that never goes back a row's place in the list is that of *)
(* its identifier, and the parents Reconcile noted still stand.            *)
(***************************************************************************)
Placed ==
    ClockSteps = FALSE =>
        /\ \A i \in DOMAIN rows : rows[i].at = i
        /\ phase \in {"rows", "drop"} => \A i \in rec.missing : rec.parent[i] \in DOMAIN rows \union {None}

\* Every step keeps the order Reconcile relies on.
LEMMA PlacedKept == GInv /\ Placed /\ [Next]_vars => Placed'
<1> SUFFICES ASSUME GInv, Placed, [Next]_vars, ClockSteps = FALSE PROVE Placed'
  BY DEF Placed
<1>0. LInv /\ IInv /\ RecWell /\ RecSound /\ \A i \in DOMAIN rows : rows[i].at = i
  BY DEF GInv, LInv, IInv, Placed
<1>1. \A i \in DOMAIN rows' : rows'[i].at = i
  <2>1. ASSUME NEW p \in Procs, PutRow(p) PROVE \A i \in DOMAIN rows' : rows'[i].at = i
    BY <1>0, <2>1, PutRowGives, ZenonT(60) DEF Places
  <2>2. ASSUME NEW p \in Procs, MoveChildren(p) PROVE \A i \in DOMAIN rows' : rows'[i].at = i
    BY <1>0, <2>2 DEF MoveChildren, Reparent
  <2>3. ASSUME NEW p \in Procs, DropRow(p) PROVE \A i \in DOMAIN rows' : rows'[i].at = i
    BY <1>0, <2>3 DEF DropRow, DeleteRow
  <2>4. CASE ReconcileReparent
    BY <1>0, <2>4 DEF ReconcileReparent, Reparent
  <2>5. CASE ReconcileDrop
    BY <1>0, <2>5 DEF ReconcileDrop, DeleteRow
  <2> QED BY <1>0, <2>1, <2>2, <2>3, <2>4, <2>5, TableSteps
<1>2. ASSUME phase' \in {"rows", "drop"}, NEW i \in rec'.missing
      PROVE  rec'.parent[i] \in DOMAIN rows' \union {None}
  <2>1. CASE ReconcileScan
    BY <1>0, <1>2, <2>1, ScanGives, RowFacts DEF Absent, Lost, Forest
  <2>2. CASE ReconcileReparent
    BY <1>0, <1>2, <2>2, ReparentTakes DEF Reparent, Placed
  <2>3. CASE ReconcileDrop
    <3>1. /\ phase = "drop" /\ rows' = DeleteRow(rows, rec.cur) /\ rec'.parent = rec.parent
          /\ rec'.missing = rec.missing \ {rec.cur}
      BY <1>0, <2>3 DEF ReconcileDrop, Daemon, IInv, TypeOK, RecRec
    <3>2. /\ rec.cur \in rec.missing /\ i \in rec.missing /\ i # rec.cur
          /\ rec.missing \subseteq DOMAIN rows
      BY <1>0, <1>2, <3>1 DEF RecWell, RecSound
    <3>3. rec.cur \in Nat \ {0} /\ i \in Nat \ {0} /\ rec.parent[i] \in Nat
      <4>1. rec.cur \in Id /\ i \in Id /\ rec.parent[i] \in Id \union {None}
        BY <1>0, <3>2, RecFacts
      <4>2. \A x \in Id : x \in Nat \ {0}
        BY IdFacts
      <4>3. \A x \in Id \union {None} : x \in Nat
        BY IdFacts
      <4> QED BY <4>1, <4>2, <4>3
    <3>4. rec.parent[i] # rec.cur
      <4> SUFFICES ASSUME rec.parent[i] = rec.cur PROVE FALSE
        OBVIOUS
      <4>1. rec.cur < i /\ rows[i].ws = rows[rec.cur].ws
        BY <1>0, <3>1, <3>2 DEF RecSound
      <4>2. rows[i].at = i /\ rows[rec.cur].at = rec.cur
        BY <1>0, <3>2
      <4> QED BY <1>0, <3>1, <3>2, <4>1, <4>2 DEF RecWell, IsLast, Before
    <3> QED BY <3>1, <3>2, <3>4 DEF DeleteRow, Placed
  <2>4. CASE ReconcileHandle
    BY <1>0, <1>2, <2>4 DEF ReconcileHandle, Daemon, IInv, TypeOK, RecRec, Placed
  <2>5. CASE Start \/ ReconcileRefuses \/ ReconcileRowFails \/ ReconcileHandleFails \/ Serve \/ Crash
    BY <1>2, <2>5 DEF Start, ReconcileRefuses, ReconcileRowFails, ReconcileHandleFails, Serve,
       Crash, Daemon
  <2>6. CASE phase' = phase /\ phase = "serving"
    BY <1>2, <2>6
  <2>7. CASE UNCHANGED vars
    BY <1>2, <2>7 DEF vars, Placed
  <2> QED BY <2>1, <2>2, <2>3, <2>4, <2>5, <2>6, <2>7, PhaseSteps DEF Boot
<1> QED BY <1>1, <1>2 DEF Placed

\* While the clock does not go back, rows stand in the order of their identifiers.
THEOREM PlacedHolds == Spec => []Placed
<1>1. Init => Placed
  BY DEF Init, Placed
<1> QED BY <1>1, PlacedKept, GInvHolds, PTL DEF Spec

(***************************************************************************)
(* Under a clock that never goes back no statement of Reconcile trips the  *)
(* foreign key or ErrHasChildren: the parent a row had when the list was   *)
(* read still stands when its children are handed to it, because rows go   *)
(* newest first (reconcile.go 108-109).                                    *)
(***************************************************************************)
THEOREM ReconcileAlwaysFits ==
    ASSUME ClockSteps = FALSE
    PROVE  Spec => []ReconcileFits
<1>1. GInv /\ Placed => ReconcileFits
  <2> SUFFICES ASSUME GInv, Placed PROVE ReconcileFits
    OBVIOUS
  <2>1. RecWell /\ RecSound
    BY DEF GInv, LInv, IInv
  <2>2. phase = "rows" => \A i \in rec.missing : MayReparent(rows, i, rec.parent[i])
    BY DEF Placed, MayReparent
  <2>3. phase = "drop" => MayDelete(rows, rec.cur)
    BY <2>1 DEF RecWell, RecSound, MayDelete
  <2> QED BY <2>2, <2>3 DEF ReconcileFits
<1> QED BY <1>1, GInvHolds, PlacedHolds, PTL

-----------------------------------------------------------------------------
(***************************************************************************)
(* Without crashes and with deletes that work, a handle is in pieces only  *)
(* while the goroutine that removes it is at it.                           *)
(***************************************************************************)
Undisturbed == MaxCrashes = 0 /\ "delete" \notin Faults

BeingFreed ==
    Undisturbed =>
        \A i \in Id : disk[i] = "damaged" => \E p \in Procs : proc[p].pc = "freeing" /\ proc[p].cur = i

\* Every step keeps it: a handle is damaged by the removal of it only.
LEMMA BeingFreedKept == GInv /\ BeingFreed /\ [Next]_vars => BeingFreed'
<1> SUFFICES ASSUME GInv, BeingFreed, [Next]_vars, Undisturbed, NEW i \in Id, disk'[i] = "damaged"
             PROVE  \E p \in Procs : proc'[p].pc = "freeing" /\ proc'[p].cur = i
  BY DEF BeingFreed, Undisturbed
<1>0. IInv /\ TypeOK /\ disk \in [Id -> Handle]
  BY DEF GInv, LInv, IInv, TypeOK
<1>1. Leavings = {"absent"} /\ ~Fails("delete")
  BY DEF Leavings, Fails, Undisturbed
<1>2. ~Crash
  BY <1>0, BoundsAssumption DEF Crash, Undisturbed, TypeOK
<1>3. ASSUME NEW p \in Procs, BeginCreate(p), i = next PROVE disk'[i] = "partial"
  BY <1>0, <1>3 DEF BeginCreate
<1>4. ASSUME NEW p \in Procs, EndCreate(p) \/ FailCreate(p) \/ FailPut(p), i = proc[p].id
      PROVE  disk'[i] \in {"whole", "absent"}
  BY <1>0, <1>1, <1>4 DEF EndCreate, FailCreate, FailPut
<1>5. CASE disk'[i] = disk[i]
  <2>1. PICK p \in Procs : proc[p].pc = "freeing" /\ proc[p].cur = i
    BY <1>5 DEF BeingFreed
  <2>2. CASE proc'[p] = proc[p]
    BY <2>1, <2>2
  <2>3. CASE proc'[p] # proc[p]
    <3>1. Work(p)
      BY <1>0, <1>2, <2>1, <2>3, OwnStep, LockTurns
    <3>2. EndFree(p)
      BY <1>1, <2>1, <3>1 DEF Work, BeginCreate, RefuseCreate, EndCreate, FailCreate, PutRow,
         FailPut, EngineRestore, FailRestore, ListExcess, SkipRetention, SelectSubtree, RefusePrune,
         BeginFree, RefuseFree, FailFree, FailReread, MoveChildren, FailMoveChildren, DropRow,
         FailDrop, FinishRemoval, Unlock, Stuck, At
    <3> QED BY <1>0, <1>1, <2>1, <3>2 DEF EndFree
  <2> QED BY <2>2, <2>3
<1> QED BY <1>0, <1>1, <1>3, <1>4, <1>5, DiskSteps

\* So every incomplete handle of a row is in the hands of the goroutine that frees it.
THEOREM BeingFreedHolds == Spec => []BeingFreed
<1>1. Init => BeingFreed
  BY DEF Init, BeingFreed
<1> QED BY <1>1, BeingFreedKept, GInvHolds, PTL DEF Spec

(***************************************************************************)
(* While no crash and no failed delete comes in between, a restore that    *)
(* lands has read a complete snapshot, on every backend: no prune or       *)
(* retention pass has taken part of the handle.                            *)
(***************************************************************************)
THEOREM RestoresReadWholeSnapshots ==
    ASSUME Undisturbed
    PROVE  Spec => RestoreReadsWholeSnapshot
<1>1. GInv /\ BeingFreed /\ [Next]_vars =>
          [\A p \in Procs :
              ~proc[p].landed /\ proc'[p].landed => disk[proc[p].target] = "whole"]_vars
  <2> SUFFICES ASSUME GInv, BeingFreed, [Next]_vars, NEW p \in Procs, ~proc[p].landed,
                      proc'[p].landed, disk[proc[p].target] # "whole"
               PROVE  FALSE
    OBVIOUS
  <2> DEFINE t == proc[p].target
  <2>0. LInv /\ IInv /\ IInv' /\ TypeOK /\ Reported /\ GoneIsGone
    BY NextIInv DEF GInv, LInv, IInv, Reported, Undisturbed
  <2>1. proc'[p] # proc[p]
    OBVIOUS
  <2>2. LInv'
    BY NextGInv DEF GInv
  <2>3. proc'[p].pc # "idle" /\ proc'[p].pc # "lock"
    BY <2>2 DEF LInv, Keeps, RestoresWell, Inside
  <2>4. Work(p)
    BY <2>0, <2>1, <2>3, OwnStep, LockTurns DEF Idle
  <2>5. EngineRestore(p)
    BY <2>0, <2>4, WorkTurns
  <2>6. proc[p].pc = "restore" /\ disk[t] = "damaged" /\ t # None /\ t \in Id
    <3>1. proc[p].pc = "restore" /\ disk[t] \in {"whole", "damaged"}
      BY <2>5 DEF EngineRestore, At
    <3>2. t # None /\ proc[p] \in ProcRec
      BY <2>0, <3>1, LockFacts DEF Keeps, RestoresWell
    <3> QED BY <3>1, <3>2 DEF ProcRec
  <2>7. t \in DOMAIN rows
    BY <2>0, <2>6 DEF GoneIsGone
  <2>8. PICK q \in Procs : proc[q].pc = "freeing" /\ proc[q].cur = t
    BY <2>6 DEF BeingFreed
  <2>9. rows[t].ws = proc[q].ws /\ rows[t].ws = proc[p].ws /\ Inside(proc[p]) /\ Inside(proc[q])
    BY <2>0, <2>6, <2>7, <2>8, LockFacts DEF Keeps, TakesOwn, Taking, Inside, Sound
  <2> QED BY <2>0, <2>6, <2>8, <2>9, LockFacts
<1> QED BY <1>1, BeingFreedHolds, GInvHolds, PTL DEF Spec, RestoreReadsWholeSnapshot

-----------------------------------------------------------------------------
\* Which steps a goroutine takes at the points of a write and of the table.
LEMMA StepsAt ==
    ASSUME NEW p \in Procs, Work(p)
    PROVE  /\ proc[p].pc = "copy" => EndCreate(p) \/ FailCreate(p)
           /\ proc[p].pc = "put" => PutRow(p) \/ FailPut(p)
           /\ proc[p].pc = "free" => BeginFree(p) \/ RefuseFree(p) \/ FailReread(p) \/ FinishRemoval(p)
           /\ proc[p].pc = "freeing" => EndFree(p) \/ FailFree(p)
           /\ proc[p].pc = "reparent" => MoveChildren(p) \/ FailMoveChildren(p)
           /\ proc[p].pc = "drop" => DropRow(p) \/ FailDrop(p)
           /\ proc[p].pc = "list" => ListExcess(p) \/ SkipRetention(p)
           /\ proc[p].pc = "unlock" => Unlock(p)
BY DEF Work, BeginCreate, RefuseCreate, EndCreate, FailCreate, PutRow, FailPut, EngineRestore,
   FailRestore, ListExcess, SkipRetention, SelectSubtree, RefusePrune, BeginFree, RefuseFree,
   EndFree, FailFree, FailReread, MoveChildren, FailMoveChildren, DropRow, FailDrop, FinishRemoval,
   Unlock, Stop, Stuck, At

(***************************************************************************)
(* Where no delete fails and no statement is lost, a row without a handle  *)
(* is being removed, or Reconcile has it on its list.  Without a provider, *)
(* in addition, what Reconcile knows and the root differ by what it has    *)
(* still to remove, and while the daemon serves the graph and the root     *)
(* agree.  A goroutine that writes a node has a handle, and a whole one    *)
(* where no other one can make the provider delete it: without a provider, *)
(* or with one that has room for two copies of the only workset.           *)
(***************************************************************************)
Sure == "delete" \notin Faults /\ "store" \notin Faults

Clean == ProviderMax = 0 /\ Sure

Alone == \A v, w \in Worksets : v = w

Roomy == ProviderMax = 0 \/ (ProviderMax > 1 /\ Alone)

Listed ==
    phase \in {"rows", "drop"} => \A i \in rec.known \ DOMAIN rows : disk[i] = "absent"

InHand(i) == \E p \in Procs : proc[p].pc \in {"reparent", "drop"} /\ proc[p].cur = i

RowsBacked ==
    \A i \in DOMAIN rows : disk[i] = "absent" =>
        /\ phase \in {"rows", "drop"} => i \in rec.missing
        /\ phase = "serving" => InHand(i)

WritesHold ==
    \A p \in Procs : /\ proc[p].pc \in {"copy", "put"} => disk[proc[p].id] # "absent"
                     /\ Roomy /\ proc[p].pc = "put" => disk[proc[p].id] = "whole"

AInv ==
    /\ GInv /\ MissingGone /\ WritesHold
    /\ Sure => RowsBacked
    /\ Clean => Listed /\ GraphAgreesWithDisk

\* Every step of a start keeps what its lists say of the disk.
LEMMA ListedKept ==
    ASSUME GInv, MissingGone, Clean, Listed, [Next]_vars
    PROVE  Listed'
<1> SUFFICES ASSUME phase' \in {"rows", "drop"} PROVE Listed'
  BY DEF Listed
<1>0. IInv /\ RecWell /\ disk \in [Id -> Handle] /\ Leavings = {"absent"}
  BY DEF GInv, LInv, IInv, TypeOK, Clean, Sure, Leavings
<1>1. CASE ReconcileScan
  BY <1>0, <1>1, ScanGives DEF Listed
<1>2. CASE ReconcileReparent
  BY <1>0, <1>2, ReparentTakes DEF Listed, Reparent
<1>3. CASE ReconcileDrop
  <2>1. /\ phase = "drop" /\ rows' = DeleteRow(rows, rec.cur) /\ rec'.known = rec.known
        /\ rec'.missing = rec.missing \ {rec.cur} /\ disk' = disk
    BY <1>0, <1>3 DEF ReconcileDrop, Daemon, IInv, TypeOK, RecRec
  <2>2. disk[rec.cur] = "absent"
    BY <1>0, <2>1 DEF RecWell, MissingGone, Gone, Clean
  <2> QED BY <2>1, <2>2 DEF Listed, DeleteRow
<1>4. CASE ReconcileHandle
  <2>1. PICK i \in Orphans : /\ disk' = [disk EXCEPT ![i] = "absent"]
                             /\ Daemon("rows", [rec EXCEPT !.known = @ \union {i}])
    BY <1>0, <1>4 DEF ReconcileHandle
  <2>2. /\ rec'.known = rec.known \union {i} /\ rec'.missing = rec.missing /\ phase = "rows"
        /\ rows' = rows
    BY <1>0, <1>4, <2>1 DEF ReconcileHandle, Daemon, IInv, TypeOK, RecRec
  <2>3. i \in Id /\ i \notin DOMAIN rows /\ rec.known \subseteq Id /\ DOMAIN rows \subseteq Id
    BY <1>0, <1>4, OrphansAreNoRows, RecFacts DEF Orphans
  <2> QED BY <1>0, <2>1, <2>2, <2>3 DEF Listed
<1>5. CASE Start \/ ReconcileRefuses \/ ReconcileRowFails \/ ReconcileHandleFails \/ Serve \/ Crash
  BY <1>5 DEF Start, ReconcileRefuses, ReconcileRowFails, ReconcileHandleFails, Serve, Crash, Daemon
<1>6. CASE phase' = phase /\ phase = "serving"
  BY <1>6
<1>7. CASE UNCHANGED vars
  BY <1>7 DEF vars, Listed
<1> QED BY <1>1, <1>2, <1>3, <1>4, <1>5, <1>6, <1>7, PhaseSteps DEF Boot

\* Where the provider has room no step of another goroutine makes it delete a
\* handle while one is inside a workset.
LEMMA NothingEvicted ==
    ASSUME LInv, Roomy, NEW p \in Procs, Inside(proc[p]), NEW q \in Procs \ {p}, EndCreate(q)
    PROVE  Evicted = {}
<1>1. CASE ProviderMax = 0
  BY <1>1 DEF Evicted
<1>2. CASE Alone
  <2>1. proc[q].pc = "copy" /\ Inside(proc[q])
    BY DEF EndCreate, At, Inside
  <2>2. proc[p].ws \in Worksets /\ proc[q].ws \in Worksets
    BY <2>1, LockFacts DEF Inside
  <2>3. proc[p].ws # proc[q].ws
    BY <2>1, LockFacts
  <2> QED BY <1>2, <2>2, <2>3 DEF Alone
<1> QED BY <1>1, <1>2 DEF Roomy

\* Every step leaves the handle that a goroutine writes to that goroutine.
LEMMA WritesHoldKept ==
    ASSUME GInv, IInv', WritesHold, [Next]_vars
    PROVE  WritesHold'
<1> SUFFICES ASSUME NEW p \in Procs, proc'[p].pc \in {"copy", "put"}
             PROVE  /\ disk'[proc'[p].id] # "absent"
                    /\ Roomy /\ proc'[p].pc = "put" => disk'[proc'[p].id] = "whole"
  BY DEF WritesHold
<1>0. IInv /\ TypeOK /\ disk \in [Id -> Handle] /\ next \in Nat
  BY IdFacts DEF GInv, LInv, IInv, TypeOK
<1>1. CASE proc'[p] = proc[p]
  <2> DEFINE i == proc[p].id
  <2>1. /\ proc[p].pc \in {"copy", "put"} /\ i \in Id /\ i < next /\ disk[i] # "absent"
        /\ Roomy /\ proc[p].pc = "put" => disk[i] = "whole"
        /\ phase = "serving"
    BY <1>0, <1>1 DEF IInv, Sound, WritesHold
  <2>2. \A q \in Procs : i \notin Refs(proc[q])
    BY <1>0, <2>1 DEF IInv, Fresh
  <2>3. \A q \in Procs : ~(BeginFree(q) /\ i \in proc[q].todo) /\ ~(EndFree(q) /\ i = proc[q].cur)
    BY <2>2 DEF Refs
  <2>4. ASSUME NEW q \in Procs, FailCreate(q) \/ FailPut(q), i = proc[q].id PROVE FALSE
    <3>1. q = p
      BY <1>0, <2>1, <2>4 DEF FailCreate, FailPut, At, IInv, Fresh
    <3> QED BY <1>0, <1>1, <2>1, <2>4, <3>1, NamesKept
  <2>5. ASSUME NEW q \in Procs, EndCreate(q), i = proc[q].id PROVE disk'[i] = "whole"
    BY <2>1, <2>5 DEF EndCreate
  <2>6. ~ReconcileHandle /\ i # next
    BY <1>0, <2>1 DEF ReconcileHandle
  <2>7. ASSUME NEW q \in Procs, EndCreate(q), i \in Evicted PROVE ~Roomy
    <3>1. q # p
      BY <1>0, <1>1, <2>7, EndsCopy
    <3> QED BY <2>1, <2>7, <3>1, NothingEvicted DEF GInv, Inside
  <2> QED BY <1>0, <1>1, <2>1, <2>3, <2>4, <2>5, <2>6, <2>7, DiskSteps
<1>2. CASE proc'[p] # proc[p]
  <2>1. Work(p)
    BY <1>0, <1>2, OwnStep, LockTurns DEF Idle
  <2>2. CASE BeginCreate(p)
    BY <1>0, <2>2, NamesKept DEF BeginCreate
  <2>3. CASE EndCreate(p)
    <3>1. proc[p].id \in Id
      BY <1>0, <2>3 DEF EndCreate, At, IInv, Sound
    <3> QED BY <1>0, <2>3, <3>1, NamesKept DEF EndCreate
  <2> QED BY <1>0, <2>1, <2>2, <2>3, WorkTurns
<1> QED BY <1>1, <1>2

\* While requests are served a handle without a row is being written.
LEMMA HandleHasReason ==
    ASSUME GInv, Clean, WritesHold, GraphAgreesWithDisk, [Next]_vars, phase = "serving", phase' = phase,
           NEW i \in Id, disk'[i] # "absent", i \notin DOMAIN rows'
    PROVE  \E p \in Procs : proc'[p].pc \in {"copy", "put"} /\ proc'[p].id = i
<1>0. /\ IInv /\ TypeOK /\ disk \in [Id -> Handle] /\ GoneIsGone /\ Reported
      /\ Leavings = {"absent"} /\ Evicted = {} /\ ~Fails("delete") /\ ~Fails("store")
  BY DEF GInv, LInv, IInv, TypeOK, Clean, Sure, Reported, Leavings, Evicted, Fails
<1>1. i \notin DOMAIN rows
  <2> SUFFICES ASSUME i \in DOMAIN rows PROVE FALSE
    OBVIOUS
  <2>1. PICK q \in Procs : DropRow(q) /\ proc[q].cur = i
    BY RowsGone DEF ReconcileDrop
  <2> QED BY <1>0, <2>1 DEF DropRow, At, GoneIsGone
<1>2. ASSUME NEW p \in Procs, FailCreate(p) \/ FailPut(p), i = proc[p].id PROVE FALSE
  BY <1>0, <1>2 DEF FailCreate, FailPut
<1>3. CASE disk[i] # "absent"
  <2>1. PICK p \in Procs : proc[p].pc \in {"copy", "put"} /\ proc[p].id = i
    BY <1>1, <1>3 DEF GraphAgreesWithDisk
  <2>2. CASE proc'[p] = proc[p]
    BY <2>1, <2>2
  <2>3. CASE proc'[p] # proc[p]
    <3>1. Work(p)
      BY <1>0, <2>1, <2>3, OwnStep, LockTurns DEF Crash
    <3>2. ~PutRow(p)
      BY <2>1, PutRowGives DEF GInv
    <3> QED BY <1>0, <1>2, <2>1, <3>1, <3>2, StepsAt, NamesKept
  <2> QED BY <2>2, <2>3
<1>4. CASE disk[i] = "absent"
  <2>1. ~ReconcileHandle
    BY DEF ReconcileHandle
  <2> QED BY <1>0, <1>2, <1>4, <2>1, DiskSteps, NamesKept
<1> QED BY <1>3, <1>4

\* While requests are served a row without a handle is being removed.
LEMMA RowHasReason ==
    ASSUME GInv, Sure, WritesHold, RowsBacked, [Next]_vars, phase = "serving", phase' = phase,
           NEW i \in Id, disk'[i] = "absent", i \in DOMAIN rows'
    PROVE  InHand(i)'
<1>0. /\ LInv /\ IInv /\ TypeOK /\ disk \in [Id -> Handle] /\ GoneIsGone /\ Reported
      /\ Leavings = {"absent"} /\ ~Fails("delete") /\ ~Fails("store")
  BY DEF GInv, LInv, IInv, TypeOK, Sure, Reported, Leavings, Fails
<1>1. i \in DOMAIN rows
  <2> SUFFICES ASSUME i \notin DOMAIN rows PROVE FALSE
    OBVIOUS
  <2>1. PICK p \in Procs : PutRow(p) /\ proc[p].id = i
    BY <1>0, RowsAdded
  <2> QED BY <2>1 DEF PutRow, At, WritesHold
<1>2. CASE disk[i] = "absent"
  <2>1. PICK p \in Procs : proc[p].pc \in {"reparent", "drop"} /\ proc[p].cur = i
    BY <1>1, <1>2 DEF RowsBacked, InHand
  <2>2. CASE proc'[p] = proc[p]
    BY <2>1, <2>2 DEF InHand
  <2>3. CASE proc'[p] # proc[p]
    <3>1. Work(p) /\ Keeps(proc[p], rows) /\ Forest(rows)
      BY <1>0, <2>1, <2>3, OwnStep, LockTurns, LockFacts, RowFacts DEF Crash
    <3>2. ~DropRow(p)
      BY <2>1 DEF DropRow, DeleteRow
    <3>3. proc[p].pc = "drop" => MayDelete(rows, i)
      BY <1>1, <2>1, <3>1 DEF Keeps, PrunesWell, MayDelete
    <3>4. proc[p].pc = "reparent" => MayReparent(rows, i, proc[p].up)
      BY <2>1, <3>1 DEF Keeps, RetainsWell, MayReparent, Forest
    <3>5. ~FailDrop(p) /\ ~FailMoveChildren(p)
      BY <1>0, <2>1, <3>3, <3>4 DEF FailDrop, FailMoveChildren, At
    <3> QED BY <1>0, <2>1, <3>1, <3>2, <3>5, StepsAt, NamesKept DEF InHand
  <2> QED BY <2>2, <2>3
<1>3. CASE disk[i] # "absent"
  <2>1. i < next /\ next \in Nat /\ \A p \in Procs : proc[p].pc \in {"copy", "put"} => proc[p].id # i
    BY <1>0, <1>1, Settled, IdFacts DEF TypeOK
  <2>2. ~ReconcileHandle
    BY DEF ReconcileHandle
  <2>3. \A p \in Procs : ~((EndCreate(p) \/ FailCreate(p) \/ FailPut(p)) /\ i = proc[p].id)
    BY <2>1 DEF EndCreate, FailCreate, FailPut, At
  <2> QED BY <1>0, <1>3, <2>1, <2>2, <2>3, DiskSteps, NamesKept DEF InHand
<1> QED BY <1>2, <1>3

\* Every step keeps each row without a handle in somebody's hands, or on the
\* list of what Reconcile removes.
LEMMA RowsBackedKept ==
    ASSUME GInv, GInv', WritesHold, Sure, RowsBacked, [Next]_vars
    PROVE  RowsBacked'
<1> SUFFICES ASSUME NEW i \in DOMAIN rows', disk'[i] = "absent"
             PROVE  /\ phase' \in {"rows", "drop"} => i \in rec'.missing
                    /\ phase' = "serving" => InHand(i)'
  BY DEF RowsBacked
<1>0. IInv /\ RecWell /\ TypeOK /\ disk \in [Id -> Handle] /\ i \in Id
  BY DEF GInv, LInv, IInv, TypeOK
<1>1. CASE ReconcileScan
  BY <1>0, <1>1, ScanGives DEF Absent
<1>2. CASE ReconcileReparent
  BY <1>0, <1>2, ReparentTakes DEF RowsBacked, Reparent
<1>3. CASE ReconcileDrop
  <2>1. /\ phase = "drop" /\ phase' = "rows" /\ rows' = DeleteRow(rows, rec.cur)
        /\ rec'.missing = rec.missing \ {rec.cur} /\ disk' = disk
    BY <1>0, <1>3 DEF ReconcileDrop, Daemon, TypeOK, RecRec
  <2> QED BY <2>1 DEF RowsBacked, DeleteRow
<1>4. CASE ReconcileHandle
  <2>1. PICK o \in Orphans, left \in Leavings :
            /\ disk' = [disk EXCEPT ![o] = left]
            /\ Daemon("rows", [rec EXCEPT !.known = @ \union {o}])
    BY <1>4 DEF ReconcileHandle
  <2>2. rec'.missing = rec.missing /\ phase = "rows" /\ phase' = "rows" /\ rows' = rows
    BY <1>0, <1>4, <2>1 DEF ReconcileHandle, Daemon, TypeOK, RecRec
  <2>3. disk[i] = "absent"
    BY <1>0, <1>4, <2>1, <2>2, OrphansAreNoRows
  <2> QED BY <2>2, <2>3 DEF RowsBacked
<1>5. CASE Serve
  BY <1>5 DEF Serve, Daemon, RowsBacked
<1>6. CASE Start \/ ReconcileRefuses \/ ReconcileRowFails \/ ReconcileHandleFails \/ Crash
  BY <1>6 DEF Start, ReconcileRefuses, ReconcileRowFails, ReconcileHandleFails, Crash, Daemon
<1>7. CASE phase' = phase /\ phase = "serving"
  BY <1>0, <1>7, RowHasReason
<1>8. CASE UNCHANGED vars
  BY <1>8 DEF vars, RowsBacked, InHand
<1> QED BY <1>1, <1>2, <1>3, <1>4, <1>5, <1>6, <1>7, <1>8, PhaseSteps DEF Boot

\* Every step keeps the agreement of the graph with the disk.
LEMMA NextAInv == AInv /\ [Next]_vars => AInv'
<1> SUFFICES ASSUME AInv, [Next]_vars PROVE AInv'
  OBVIOUS
<1>1. GInv /\ GInv' /\ IInv' /\ MissingGone' /\ MissingGone
  BY NextGInv, MissingGoneKept DEF AInv, GInv, LInv
<1>2. WritesHold' /\ (Clean => Listed') /\ (Sure => RowsBacked')
  BY <1>1, ListedKept, WritesHoldKept, RowsBackedKept DEF AInv
<1>3. ASSUME Clean PROVE GraphAgreesWithDisk'
  <2> SUFFICES ASSUME phase' = "serving" PROVE GraphAgreesWithDisk'
    BY DEF GraphAgreesWithDisk
  <2>1. CASE Serve
    <3>1. phase = "rows" /\ rec.missing = {} /\ Orphans = {} /\ rows' = rows /\ disk' = disk
      BY <2>1 DEF Serve, Daemon
    <3>2. \A i \in Id : disk[i] = "absent" <=> i \notin DOMAIN rows
      <4>1. Listed /\ RowsBacked /\ DOMAIN rows \subseteq rec.known
        BY <1>1, <1>3, <3>1 DEF AInv, GInv, RecWell, Clean
      <4> QED BY <3>1, <4>1 DEF Listed, RowsBacked, Orphans
    <3> QED BY <3>1, <3>2 DEF GraphAgreesWithDisk
  <2>2. CASE phase = "serving" /\ phase' = phase
    <3>1. WritesHold /\ GraphAgreesWithDisk
      BY <1>3 DEF AInv
    <3>2. \A i \in DOMAIN rows' : disk'[i] = "absent" => InHand(i)'
      BY <1>2, <1>3, <2>2 DEF Clean, RowsBacked
    <3> QED BY <1>1, <1>3, <2>2, <3>1, <3>2, HandleHasReason DEF GraphAgreesWithDisk, InHand
  <2>3. CASE Boot /\ ~Serve
    BY <2>3 DEF Boot, Start, ReconcileScan, ReconcileRefuses, ReconcileReparent, ReconcileDrop,
       ReconcileRowFails, ReconcileHandle, ReconcileHandleFails, Daemon
  <2>4. CASE Crash
    BY <2>4 DEF Crash
  <2>5. CASE UNCHANGED vars
    BY <1>3, <2>5 DEF vars, AInv, GraphAgreesWithDisk
  <2> QED BY <2>1, <2>2, <2>3, <2>4, <2>5, PhaseSteps
<1> QED BY <1>1, <1>2, <1>3 DEF AInv, Clean, Sure

\* So every reachable state has it.
THEOREM AInvHolds == Spec => []AInv
<1>1. Init => AInv
  <2> SUFFICES ASSUME Init PROVE AInv
    OBVIOUS
  <2>1. phase = "down" /\ \A p \in Procs : proc[p].pc = "idle"
    BY DEF Init, Idle
  <2> QED BY <2>1, InitGInv DEF AInv, MissingGone, Listed, RowsBacked, WritesHold, GraphAgreesWithDisk
<1> QED BY <1>1, NextAInv, PTL DEF Spec

(***************************************************************************)
(* Where no delete fails, no statement is lost and no provider holds the   *)
(* handles, the graph and the snapshot root agree whenever the daemon      *)
(* serves, across any number of crashes and starts and with creates and    *)
(* restores that fail: a handle without a row is a snapshot being written, *)
(* and a row without a handle is one being removed (reconcile.go 31-36,    *)
(* ROADMAP item 9).                                                        *)
(***************************************************************************)
THEOREM GraphAndDiskAgree ==
    ASSUME Clean
    PROVE  Spec => []GraphAgreesWithDisk
<1>1. AInv => GraphAgreesWithDisk
  BY DEF AInv
<1> QED BY <1>1, AInvHolds, PTL

-----------------------------------------------------------------------------
(***************************************************************************)
(* A goroutine that has written its node, and answers once retention is    *)
(* through, holds the newest row of its workset, with a handle, and does   *)
(* not have it among the rows it takes.                                    *)
(***************************************************************************)
Answering(me) ==
    /\ me.op \in Writes /\ me.id # None
    /\ me.pc \in {"list", "free", "freeing", "reparent", "drop", "unlock"}

Newest(me, g) ==
    /\ me.pc \in {"copy", "put"} => \A j \in Of(g, me.ws) : j < me.id
    /\ Answering(me) => \A j \in Of(g, me.ws) : j <= me.id

Kept(me, g, d) ==
    Answering(me) => me.id \in Of(g, me.ws) /\ d[me.id] = "whole" /\ me.id # me.cur /\ me.id \notin me.todo

NewbornKept ==
    /\ \A p \in Procs : Newest(proc[p], rows)
    /\ Roomy /\ ClockSteps = FALSE => \A p \in Procs : Kept(proc[p], rows, disk)

\* The newest of the rows retention may take is not one it takes.
LEMMA ExcessSparesNewest ==
    ASSUME NEW g, IsFiniteSet(DOMAIN g), NEW w, NEW keep \in Nat, keep > 0, NEW i \in Nat,
           \A j \in Of(g, w) \ {i} : Before(g, j, i), g[i].at = i
    PROVE  i \notin Excess(g, w, keep)
<1> DEFINE C == Candidates(g, w)
           Rank(k) == Cardinality({j \in C : Before(g, j, k)})
<1> SUFFICES ASSUME i \in C, Rank(i) < Cardinality(C) - keep PROVE FALSE
  BY DEF Excess
<1>1. C \subseteq Of(g, w) /\ C \subseteq DOMAIN g
  BY DEF Candidates, Of
<1>2. IsFiniteSet(C)
  BY <1>1, FS_Subset
<1>3. ~Before(g, i, i)
  BY DEF Before
<1>4. {j \in C : Before(g, j, i)} = C \ {i}
  BY <1>1, <1>3
<1>5. Cardinality(C \ {i}) = Cardinality(C) - 1 /\ Cardinality(C) \in Nat
  BY <1>2, FS_RemoveElement, FS_CardinalityType
<1> HIDE DEF C
<1> QED BY <1>4, <1>5

\* The rows of the workset of a goroutine inside, across the steps that do
\* not take it out of the point it is at.
LEMMA OwnRows ==
    ASSUME GInv, [Next]_vars, phase = "serving", phase' = phase, NEW p \in Procs, Inside(proc[p]),
           ~PutRow(p)
    PROVE  /\ Of(rows', proc[p].ws) \subseteq Of(rows, proc[p].ws)
           /\ \A i \in Of(rows, proc[p].ws) \ Of(rows', proc[p].ws) : i = proc[p].cur
<1> DEFINE w == proc[p].ws
<1>0. LInv /\ IInv
  BY DEF GInv, LInv
<1>1. ASSUME NEW q \in Procs, PutRow(q)
      PROVE  Of(rows', w) = Of(rows, w)
  <2>1. proc[q].ws # w
    BY <1>0, <1>1, LockFacts DEF PutRow, At, Inside
  <2>2. /\ DOMAIN rows' = DOMAIN rows \union {proc[q].id} /\ rows'[proc[q].id].ws = proc[q].ws
        /\ proc[q].id \notin DOMAIN rows /\ \A j \in DOMAIN rows : rows'[j] = rows[j]
    BY <1>0, <1>1, PutRowGives
  <2> HIDE DEF w
  <2> QED BY <2>1, <2>2 DEF Of
<1>2. ASSUME NEW q \in Procs, MoveChildren(q)
      PROVE  Of(rows', w) = Of(rows, w)
  BY <1>2 DEF MoveChildren, Reparent, Of
<1>3. ASSUME NEW q \in Procs, DropRow(q)
      PROVE  /\ Of(rows', w) \subseteq Of(rows, w)
             /\ \A i \in Of(rows, w) \ Of(rows', w) : i = proc[p].cur
  <2>1. rows' = DeleteRow(rows, proc[q].cur) /\ proc[q].cur \in DOMAIN rows /\ proc[q].pc = "drop"
    BY <1>3 DEF DropRow, At, MayDelete
  <2>2. rows[proc[q].cur].ws = proc[q].ws
    BY <1>0, <2>1, LockFacts DEF Keeps, TakesOwn, Taking
  <2>3. proc[q].ws = w => q = p
    BY <1>0, <2>1, LockFacts DEF Inside
  <2> QED BY <2>1, <2>2, <2>3 DEF DeleteRow, Of
<1>4. ~ReconcileReparent /\ ~ReconcileDrop
  BY DEF ReconcileReparent, ReconcileDrop
<1> QED BY <1>1, <1>2, <1>3, <1>4, TableSteps

\* The handle of the node a goroutine answers with stays complete.
LEMMA KeptHandle ==
    ASSUME GInv, [Next]_vars, phase = "serving", phase' = phase, Roomy,
           NEW p \in Procs, Answering(proc[p]), Kept(proc[p], rows, disk)
    PROVE  disk'[proc[p].id] = "whole"
<1> DEFINE i == proc[p].id
<1>0. LInv /\ IInv /\ TypeOK
  BY DEF GInv, LInv, IInv
<1>1. i \in DOMAIN rows /\ rows[i].ws = proc[p].ws /\ i \in Id /\ Inside(proc[p])
      /\ i # proc[p].cur /\ i \notin proc[p].todo /\ disk[i] = "whole"
  BY <1>0, RowFacts DEF Kept, Of, Answering, Inside
<1>2. i < next /\ next \in Nat /\ \A q \in Procs : proc[q].pc \in {"copy", "put"} => proc[q].id # i
  BY <1>0, <1>1, Settled, IdFacts DEF TypeOK
<1>3. ~ReconcileHandle /\ \A q \in Procs : ~(EndCreate(q) /\ i \in Evicted)
  <2>1. ASSUME NEW q \in Procs, EndCreate(q), i \in Evicted PROVE FALSE
    <3>1. q # p
      BY <2>1 DEF EndCreate, At, Answering
    <3> QED BY <1>0, <1>1, <2>1, <3>1, NothingEvicted
  <2> QED BY <2>1 DEF ReconcileHandle
<1>4. \A q \in Procs : ~((EndCreate(q) \/ FailCreate(q) \/ FailPut(q)) /\ i = proc[q].id)
  BY <1>2 DEF EndCreate, FailCreate, FailPut, At
<1>5. ASSUME NEW q \in Procs, BeginFree(q), i \in proc[q].todo, IsNext(proc[q], i) PROVE FALSE
  <2>1. proc[q].pc = "free" /\ rows[i].ws = proc[q].ws /\ q # p
    BY <1>0, <1>1, <1>5, NextRow DEF BeginFree, At
  <2> QED BY <1>0, <1>1, <2>1, LockFacts DEF Inside
<1>6. ASSUME NEW q \in Procs, EndFree(q), i = proc[q].cur PROVE FALSE
  <2>1. proc[q].pc = "freeing" /\ rows[i].ws = proc[q].ws /\ q # p
    BY <1>0, <1>1, <1>6, LockFacts DEF EndFree, At, Keeps, TakesOwn, Taking
  <2> QED BY <1>0, <1>1, <2>1, LockFacts DEF Inside
<1> QED BY <1>0, <1>1, <1>2, <1>3, <1>4, <1>5, <1>6, DiskSteps

\* The steps of a goroutine that has a node to answer with.
LEMMA AnswerSteps ==
    ASSUME LInv, NEW p \in Procs, Work(p), Answering(proc'[p])
    PROVE  /\ proc'[p].id = proc[p].id /\ proc'[p].ws = proc[p].ws
           /\ \/ PutRow(p) /\ {proc'[p].cur} \union proc'[p].todo \subseteq Refs(proc[p])
              \/ /\ Answering(proc[p])
                 /\ \/ /\ AutoKeep > 0 /\ proc'[p].cur = proc[p].cur /\ rows' = rows
                       /\ \E keep \in Budgets : proc'[p].todo = Excess(rows, proc[p].ws, keep)
                    \/ /\ proc'[p].todo \subseteq proc[p].todo
                       /\ proc'[p].cur \in proc[p].todo \union {proc[p].cur, None}
<1> DEFINE me == proc[p]
           pcs == {"list", "free", "freeing", "reparent", "drop", "unlock"}
           Goes(pc) == /\ me.pc \in pcs /\ proc'[p].pc = pc
                       /\ proc'[p].id = me.id /\ proc'[p].ws = me.ws /\ proc'[p].op = me.op
           Falls == Goes(proc'[p].pc) /\ proc'[p].todo \subseteq me.todo
                                      /\ proc'[p].cur \in me.todo \union {me.cur, None}
<1>1. proc \in [Procs -> ProcRec] /\ me \in ProcRec /\ Keeps(me, rows)
  BY LockFacts, ProcFacts DEF LInv, IInv, TypeOK
<1>2. ASSUME NEW pc, GoTo(p, pc), me.pc \in pcs PROVE Falls
  BY <1>1, <1>2 DEF GoTo, Move, ProcRec
<1>3. Stop(p) /\ me.pc \in pcs => Falls
  BY <1>2 DEF Stop
<1>4. ~GiveUpWrite(p)
  BY <1>1 DEF GiveUpWrite, Move, ProcRec, Answering
<1>5. \A i : Stuck(p, i) /\ me.pc \in pcs => Falls
  BY <1>1 DEF Stuck, Move, ProcRec
<1>6. ~BeginCreate(p) /\ ~RefuseCreate(p) /\ ~FailCreate(p) /\ ~FailPut(p)
  BY <1>4, NamesKept DEF RefuseCreate, FailCreate, FailPut, Answering, LInv, IInv
<1>7. ~EndCreate(p) /\ ~EngineRestore(p) /\ ~Unlock(p)
  <2>1. ~EndCreate(p)
    BY NamesKept DEF Answering, LInv, IInv
  <2>2. EngineRestore(p) => proc'[p].pc = "begin"
    BY <1>1 DEF EngineRestore, Move, ProcRec
  <2>3. Unlock(p) => proc'[p].pc = "idle"
    BY <1>1 DEF Unlock, Move, Idle
  <2> QED BY <2>1, <2>2, <2>3 DEF Answering
<1>8. proc'[p].op = me.op /\ me.op \in Writes
  BY WorkTurns DEF Answering, LInv, IInv
<1>9. me.pc \notin {"restore", "select"}
  BY <1>1, <1>8, LockFacts DEF Keeps, RestoresWell, Sound, Writes, Removes
<1>10. ~FailRestore(p) /\ ~SelectSubtree(p) /\ ~RefusePrune(p)
  BY <1>9 DEF FailRestore, SelectSubtree, RefusePrune, At
<1>11. PutRow(p) => /\ proc'[p].id = me.id /\ proc'[p].ws = me.ws
                    /\ {proc'[p].cur} \union proc'[p].todo \subseteq Refs(me)
  BY <1>1 DEF PutRow, Move, ProcRec, Refs
<1>12. ListExcess(p) => /\ Goes("free") /\ AutoKeep > 0 /\ proc'[p].cur = me.cur /\ rows' = rows
                        /\ \E keep \in Budgets : proc'[p].todo = Excess(rows, me.ws, keep)
  <2>1. ASSUME NEW S, Choose(p, S)
        PROVE  /\ proc'[p].pc = "free" /\ proc'[p].id = me.id /\ proc'[p].ws = me.ws
               /\ proc'[p].op = me.op /\ proc'[p].cur = me.cur /\ proc'[p].todo = S /\ rows' = rows
    BY <1>1, <2>1 DEF Choose, Move, ProcRec
  <2>2. ASSUME ListExcess(p)
        PROVE  me.pc = "list" /\ AutoKeep > 0 /\ \E keep \in Budgets : Choose(p, Excess(rows, me.ws, keep))
    BY <2>2 DEF ListExcess, At
  <2> QED BY <2>1, <2>2
<1>13. BeginFree(p) => Falls
  BY <1>1 DEF BeginFree, At, Move, ProcRec
<1>14. EndFree(p) \/ MoveChildren(p) => Falls
  BY <1>2 DEF EndFree, MoveChildren, At
<1>15. DropRow(p) => Falls
  BY <1>1 DEF DropRow, At, Move, ProcRec
<1>16. SkipRetention(p) \/ FailReread(p) \/ FailMoveChildren(p) \/ FailDrop(p) \/ FinishRemoval(p) => Falls
  BY <1>3 DEF SkipRetention, FailReread, FailMoveChildren, FailDrop, FinishRemoval, At
<1>17. RefuseFree(p) \/ FailFree(p) => Falls
  BY <1>5 DEF RefuseFree, FailFree, At
<1> HIDE DEF Falls
<1>18. PutRow(p) \/ ListExcess(p) \/ Falls
  BY <1>6, <1>7, <1>10, <1>13, <1>14, <1>15, <1>16, <1>17, SMTT(40) DEF Work
<1> QED BY <1>11, <1>12, <1>18 DEF Falls, Answering

\* The steps of a goroutine that writes its node.
LEMMA WriteSteps ==
    ASSUME LInv, NEW p \in Procs, Work(p), proc'[p].pc \in {"copy", "put"}
    PROVE  /\ proc'[p].ws = proc[p].ws /\ rows' = rows /\ Inside(proc[p])
           /\ \/ proc'[p].id = next
              \/ proc[p].pc = "copy" /\ proc'[p].id = proc[p].id
<1>1. BeginCreate(p) \/ EndCreate(p)
  BY WorkTurns DEF LInv, IInv
<1> QED BY <1>1, NamesKept, WorkTurns DEF BeginCreate, EndCreate, At, Inside, LInv, IInv

\* Where a goroutine that writes or answers is in a step that leaves it there.
LEMMA StillServing ==
    ASSUME GInv, IInv', [Next]_vars, NEW p \in Procs, Inside(proc'[p]),
           proc'[p] = proc[p] \/ Work(p)
    PROVE  phase = "serving" /\ phase' = phase /\ Inside(proc[p])
<1>1. IInv /\ TypeOK
  BY DEF GInv, LInv, IInv
<1>2. Inside(proc[p])
  BY <1>1, WorkTurns DEF Inside
<1> QED BY <1>1, <1>2 DEF IInv, Inside

\* While a create runs its pass, its node stays the newest of the workset.
LEMMA NewestKept ==
    ASSUME GInv, IInv', NEW p \in Procs, Newest(proc[p], rows), [Next]_vars
    PROVE  Newest(proc'[p], rows')
<1> SUFFICES ASSUME proc'[p].pc \in {"copy", "put"} \/ Answering(proc'[p])
             PROVE  Newest(proc'[p], rows')
  BY DEF Newest
<1>0. LInv /\ IInv /\ TypeOK /\ Inside(proc'[p]) /\ proc[p] \in ProcRec
  BY LockFacts DEF GInv, LInv, IInv, Inside, Answering
<1>1. proc'[p] = proc[p] \/ Work(p)
  BY <1>0, OwnStep, LockTurns DEF Answering, Idle, Inside, Writes
<1>2. phase = "serving" /\ phase' = phase /\ Inside(proc[p])
  BY <1>0, <1>1, StillServing
<1>3. ~PutRow(p) => Of(rows', proc[p].ws) \subseteq Of(rows, proc[p].ws)
  BY <1>0, <1>2, OwnRows
<1>4. CASE proc'[p] = proc[p]
  <2>1. ASSUME PutRow(p) PROVE FALSE
    <3>1. proc[p].pc = "put" /\ proc[p] \in ProcRec /\ proc \in [Procs -> ProcRec]
      BY <1>0, <2>1 DEF PutRow, At, TypeOK
    <3>2. proc' = [proc EXCEPT ![p] = [proc[p] EXCEPT !.pc = AfterWrite(proc[p]), !.up = None]]
      BY <2>1 DEF PutRow, Move
    <3>3. proc'[p].pc = AfterWrite(proc[p])
      BY <3>1, <3>2 DEF ProcRec
    <3> QED BY <1>4, <3>1, <3>3 DEF AfterWrite
  <2> QED BY <1>3, <1>4, <2>1 DEF Newest
<1>5. CASE Work(p) /\ proc'[p].pc \in {"copy", "put"}
  <2>1. /\ proc'[p].ws = proc[p].ws /\ rows' = rows
        /\ \/ proc'[p].id = next
           \/ proc[p].pc = "copy" /\ proc'[p].id = proc[p].id
    BY <1>0, <1>5, WriteSteps
  <2>2. ~Answering(proc'[p]) /\ \A j \in Of(rows, proc[p].ws) : j < next
    BY <1>0, <1>5 DEF Answering, IInv, Of
  <2> QED BY <2>1, <2>2 DEF Newest
<1>6. CASE Work(p) /\ Answering(proc'[p])
  <2>1. proc'[p].id = proc[p].id /\ proc'[p].ws = proc[p].ws /\ (PutRow(p) \/ Answering(proc[p]))
    BY <1>0, <1>6, AnswerSteps
  <2>2. CASE PutRow(p)
    <3>1. /\ proc[p].pc = "put" /\ proc[p].id \in Id /\ DOMAIN rows' = DOMAIN rows \union {proc[p].id}
          /\ \A j \in DOMAIN rows : rows'[j] = rows[j]
      BY <1>0, <2>2, PutRowGives
    <3>2. \A j \in DOMAIN rows' : j \in Nat
      BY <1>0, <3>1, RowFacts, IdFacts
    <3>3. \A j \in Of(rows', proc[p].ws) : j = proc[p].id \/ j < proc[p].id
      BY <3>1 DEF Of, Newest
    <3> QED BY <1>6, <2>1, <3>1, <3>2, <3>3 DEF Newest, Answering, Of
  <2>3. CASE Answering(proc[p])
    <3>1. ~PutRow(p)
      BY <2>3 DEF PutRow, At, Answering
    <3> QED BY <1>3, <1>6, <2>1, <2>3, <3>1 DEF Newest, Answering
  <2> QED BY <2>1, <2>2, <2>3
<1> QED BY <1>1, <1>4, <1>5, <1>6

\* And its handle stays whole.
LEMMA KeptKept ==
    ASSUME GInv, IInv', Placed, WritesHold, Roomy, ClockSteps = FALSE, NEW p \in Procs,
           Newest(proc[p], rows), Kept(proc[p], rows, disk), [Next]_vars
    PROVE  Kept(proc'[p], rows', disk')
<1> SUFFICES ASSUME Answering(proc'[p])
             PROVE  /\ proc'[p].id \in Of(rows', proc'[p].ws) /\ disk'[proc'[p].id] = "whole"
                    /\ proc'[p].id # proc'[p].cur /\ proc'[p].id \notin proc'[p].todo
  BY DEF Kept
<1> DEFINE i == proc[p].id
           w == proc[p].ws
<1>0. LInv /\ IInv /\ TypeOK /\ Inside(proc'[p]) /\ proc[p] \in ProcRec
  BY LockFacts DEF GInv, LInv, IInv, Inside, Answering
<1>1. proc'[p] = proc[p] \/ Work(p)
  BY <1>0, OwnStep, LockTurns DEF Answering, Idle, Inside, Writes
<1>2. phase = "serving" /\ phase' = phase /\ Inside(proc[p])
  BY <1>0, <1>1, StillServing
<1>3. ASSUME Answering(proc[p])
      PROVE  i \in Of(rows', w) /\ disk'[i] = "whole"
  <2>1. ~PutRow(p)
    BY <1>3 DEF PutRow, At, Answering
  <2>2. \A k \in Of(rows, w) \ Of(rows', w) : k = proc[p].cur
    BY <1>2, <2>1, OwnRows
  <2> QED BY <1>2, <1>3, <2>2, KeptHandle DEF Kept
<1>4. CASE proc'[p] = proc[p]
  BY <1>3, <1>4 DEF Kept
<1>5. CASE Work(p) /\ PutRow(p)
  <2>1. /\ proc'[p].id = i /\ proc'[p].ws = w /\ proc[p].pc = "put"
        /\ {proc'[p].cur} \union proc'[p].todo \subseteq Refs(proc[p])
    BY <1>0, <1>5, AnswerSteps DEF PutRow, At, Answering
  <2>2. i \notin Refs(proc[p])
    BY <1>0, <2>1 DEF IInv, Fresh
  <2>3. i \in Of(rows', w)
    BY <1>0, <1>5, PutRowGives DEF Of
  <2>4. disk'[i] = "whole"
    BY <1>5, <2>1 DEF PutRow, WritesHold
  <2> QED BY <2>1, <2>2, <2>3, <2>4
<1>6. CASE Work(p) /\ ~PutRow(p)
  <2>1. /\ proc'[p].id = i /\ proc'[p].ws = w /\ Answering(proc[p])
        /\ \/ /\ AutoKeep > 0 /\ proc'[p].cur = proc[p].cur /\ rows' = rows
              /\ \E keep \in Budgets : proc'[p].todo = Excess(rows, w, keep)
           \/ /\ proc'[p].todo \subseteq proc[p].todo
              /\ proc'[p].cur \in proc[p].todo \union {proc[p].cur, None}
    BY <1>0, <1>6, AnswerSteps
  <2>2. i # None /\ i # proc[p].cur /\ i \notin proc[p].todo /\ i \in Of(rows, w)
    BY <2>1 DEF Kept, Answering
  <2>3. \A keep \in Nat \ {0} : i \notin Excess(rows, w, keep)
    <3>1. DOMAIN rows \subseteq Id /\ IsFiniteSet(Id) /\ i \in DOMAIN rows
      <4>1. IsFiniteSet(1..MaxSnap)
        BY FS_Interval, BoundsAssumption
      <4> QED BY <1>0, <2>2, <4>1, RowFacts DEF Id, Of
    <3>2. IsFiniteSet(DOMAIN rows)
      BY <3>1, FS_Subset
    <3>3. \A j \in DOMAIN rows : j \in Nat /\ rows[j].at = j
      BY <3>1, IdFacts DEF Placed
    <3>4. \A j \in Of(rows, w) : j <= i
      BY <2>1 DEF Newest
    <3>5. \A j \in Of(rows, w) \ {i} : Before(rows, j, i)
      BY <3>1, <3>3, <3>4 DEF Before, Of
    <3> QED BY <3>1, <3>2, <3>3, <3>5, ExcessSparesNewest
  <2>4. AutoKeep > 0 => Budgets \subseteq Nat \ {0}
    BY BoundsAssumption DEF Budgets, KeepWithProvider, Roomy
  <2> QED BY <1>3, <2>1, <2>2, <2>3, <2>4
<1> QED BY <1>1, <1>4, <1>5, <1>6

(***************************************************************************)
(* Under a clock that never goes back, a create that answers with a        *)
(* snapshot answers with one that is in the graph and can be restored: the *)
(* retention pass that runs before the answer does not take it back        *)
(* (service.go, CreateSnapshot), whatever other requests, failures and     *)
(* crashes do meanwhile.  On a backend with a provider that needs room for *)
(* two copies, of which one is the new one's (retention.go 104-118), and   *)
(* no other workset whose create makes the provider delete a copy.         *)
(***************************************************************************)
THEOREM CreatesReturnLiveNodes ==
    ASSUME Roomy, ClockSteps = FALSE
    PROVE  Spec => []CreateReturnsLiveNode
<1>1. Init => NewbornKept
  BY DEF Init, Idle, NewbornKept, Newest, Kept, Answering, Writes
<1>2. GInv /\ GInv' /\ Placed /\ AInv /\ NewbornKept /\ [Next]_vars => NewbornKept'
  BY NewestKept, KeptKept DEF NewbornKept, AInv, GInv, LInv
<1>3. NewbornKept => CreateReturnsLiveNode
  BY DEF NewbornKept, Kept, Answering, CreateReturnsLiveNode, Of
<1> QED BY <1>1, <1>2, <1>3, GInvHolds, PlacedHolds, AInvHolds, PTL DEF Spec

-----------------------------------------------------------------------------
(***************************************************************************)
(* The daemon implements SnapshotHistory.  A client's history is Reads of  *)
(* the table (SnapshotGraphProofs); a draft is as far as the goroutine     *)
(* that writes it.  Every step maps to one of the history, or to none.     *)
(***************************************************************************)
Writing(r) == r.pc \in {"copy", "put"}

\* The mapping in the terms of the lemmas about graphs.
LEMMA HistoryIsReads ==
    ReadableHistory = Reads(rows, Readable) /\ ReadableHistory' = Reads(rows', Readable')
BY DEF ReadableHistory, Reads, NearestReadable, Nearest, Youngest

\* A step that moves no goroutine that writes moves no draft.
LEMMA DraftsStay ==
    ASSUME next' = next,
           \A p \in Procs : Writing(proc'[p]) \/ Writing(proc[p]) =>
               proc'[p].pc = proc[p].pc /\ proc'[p].id = proc[p].id
    PROVE  Drafts' = Drafts
<1>1. \A pc \in {"copy", "put"} : \A i : WritingAt(pc, i)' = WritingAt(pc, i)
  BY DEF WritingAt, Writing
<1> QED BY <1>1 DEF Drafts

IsDrafts(d) == d \in [Id -> {"unused", "begun", "made", "done"}]

\* The draft of a goroutine that writes is its own, and a step of that
\* goroutine moves no other.
LEMMA OneDraft ==
    ASSUME IInv, NEW p \in Procs, Writing(proc[p]), NEW i, i = proc[p].id
    PROVE  /\ i \in Id /\ IsDrafts(Drafts)
           /\ Drafts[i] = IF proc[p].pc = "copy" THEN "begun" ELSE "made"
           /\ /\ next' = next /\ proc'[p].pc # "copy"
              /\ proc'[p].pc = "put" => proc'[p].id = i
              /\ \A q \in Procs \ {p} : proc'[q] = proc[q]
              => Drafts' = [Drafts EXCEPT ![i] = IF proc'[p].pc = "put" THEN "made" ELSE "done"]
<1>1. i \in Id /\ i < next /\ i \in Nat /\ next \in Nat
  BY IdFacts DEF IInv, Sound, Writing, TypeOK
<1>2. ~(i >= next)
  BY <1>1
<1>3. \A q \in Procs \ {p} : proc[q].pc \in {"copy", "put"} => proc[q].id # i
  BY DEF IInv, Fresh, Writing
<1>4. IsDrafts(Drafts)
  BY DEF Drafts, IsDrafts
<1>5. Drafts[i] = IF proc[p].pc = "copy" THEN "begun" ELSE "made"
  <2>1. p \in WritingAt(proc[p].pc, i) /\ (proc[p].pc = "put" => WritingAt("copy", i) = {})
    BY <1>3 DEF WritingAt
  <2> QED BY <1>1, <1>2, <2>1 DEF Drafts, Writing
<1>6. ASSUME next' = next, proc'[p].pc # "copy", proc'[p].pc = "put" => proc'[p].id = i,
             \A q \in Procs \ {p} : proc'[q] = proc[q]
      PROVE  Drafts' = [Drafts EXCEPT ![i] = IF proc'[p].pc = "put" THEN "made" ELSE "done"]
  <2>1. ASSUME NEW j \in Id \ {i} PROVE Drafts'[j] = Drafts[j]
    <3>1. \A pc \in {"copy", "put"} : WritingAt(pc, j)' = WritingAt(pc, j)
      BY <1>6, <2>1 DEF WritingAt
    <3> QED BY <1>6, <3>1 DEF Drafts
  <2>2. Drafts'[i] = IF proc'[p].pc = "put" THEN "made" ELSE "done"
    <3>1. WritingAt("copy", i)' = {}
      BY <1>3, <1>6 DEF WritingAt
    <3>2. WritingAt("put", i)' = IF proc'[p].pc = "put" THEN {p} ELSE {}
      BY <1>3, <1>6 DEF WritingAt
    <3> QED BY <1>1, <1>2, <1>6, <3>1, <3>2 DEF Drafts
  <2>3. DOMAIN Drafts' = Id /\ DOMAIN Drafts = Id
    BY DEF Drafts
  <2>4. Drafts' = [j \in Id |-> Drafts'[j]] /\ Drafts = [j \in Id |-> Drafts[j]]
    BY DEF Drafts
  <2> QED BY <2>1, <2>2, <2>3, <2>4
<1> QED BY <1>1, <1>4, <1>5, <1>6

\* The next identifier is drawn for a snapshot that is begun.
LEMMA DraftBegins ==
    ASSUME IInv, NEW p \in Procs, BeginCreate(p), NEW i, i = next,
           \A q \in Procs \ {p} : proc'[q] = proc[q]
    PROVE  /\ i \in Id /\ Drafts[i] = "unused"
           /\ Drafts' = [Drafts EXCEPT ![i] = "begun"]
<1>1. /\ i \in Id /\ next' = i + 1 /\ proc[p].pc = "begin"
      /\ proc'[p].pc = "copy" /\ proc'[p].id = i
  BY NamesKept DEF BeginCreate, At, IInv
<1>2. i \in Nat /\ \A j \in Id : j \in Nat
  BY <1>1, IdFacts
<1>3. Drafts[i] = "unused"
  BY <1>1, <1>2 DEF Drafts
<1>4. ASSUME NEW j \in Id \ {i} PROVE Drafts'[j] = Drafts[j]
  <2>1. \A pc \in {"copy", "put"} : WritingAt(pc, j)' = WritingAt(pc, j)
    BY <1>1, <1>4 DEF WritingAt
  <2>2. j >= next' <=> j >= next
    BY <1>1, <1>2, <1>4
  <2> QED BY <2>1, <2>2 DEF Drafts
<1>5. Drafts'[i] = "begun"
  <2>1. p \in WritingAt("copy", i)' /\ ~(i >= next')
    BY <1>1, <1>2 DEF WritingAt
  <2> QED BY <1>1, <2>1 DEF Drafts
<1>6. Drafts' = [j \in Id |-> Drafts'[j]] /\ Drafts = [j \in Id |-> Drafts[j]]
  BY DEF Drafts
<1> QED BY <1>1, <1>3, <1>4, <1>5, <1>6

\* A step under the lock moves one goroutine.
LEMMA OneMoves ==
    ASSUME IInv, NEW p \in Procs, Lock(p) \/ Work(p)
    PROVE  \A q \in Procs \ {p} : proc'[q] = proc[q]
<1>1. proc \in [Procs -> ProcRec]
  BY DEF IInv, TypeOK
<1>2. \E r : proc' = [proc EXCEPT ![p] = r]
  BY Zenon DEF Lock, Work, BeginCreate, RefuseCreate, EndCreate, FailCreate, PutRow, FailPut, EngineRestore,
     FailRestore, ListExcess, SkipRetention, SelectSubtree, RefusePrune, BeginFree, RefuseFree,
     EndFree, FailFree, FailReread, MoveChildren, FailMoveChildren, DropRow, FailDrop,
     FinishRemoval, Unlock, Stop, Stuck, Choose, GiveUpWrite, GoTo, Move
<1> QED BY <1>1, <1>2

\* Only a new row, the start of a removal and a provider that makes room
\* change what can be read.
Reshapes(p) == PutRow(p) \/ BeginFree(p) \/ EndCreate(p)

LEMMA ReadableStays ==
    ASSUME GInv, MissingGone, [Next]_vars, \A p \in Procs : ~Reshapes(p)
    PROVE  Readable' = Readable
<1>0. /\ LInv /\ IInv /\ TypeOK /\ RecWell /\ HandlesFirst
      /\ "whole" \notin Leavings /\ next \in Nat
  BY IdFacts DEF GInv, LInv, IInv, TypeOK, Leavings
<1>1. ASSUME NEW i \in DOMAIN rows PROVE (disk'[i] = "whole") <=> (disk[i] = "whole")
  <2>1. i \in Id /\ i < next /\ \A p \in Procs : proc[p].pc \in {"copy", "put"} => proc[p].id # i
    BY <1>0, RowFacts, Settled
  <2>2. ~(ReconcileHandle /\ i \in Orphans)
    BY OrphansAreNoRows
  <2>3. ASSUME NEW p \in Procs, EndFree(p), i = proc[p].cur PROVE disk[i] # "whole"
    BY <1>0, <2>3 DEF EndFree, At, HandlesFirst
  <2>4. disk'[i] = disk[i] \/ \E p \in Procs : EndFree(p) /\ i = proc[p].cur /\ disk'[i] \in Leavings
    BY <1>0, <2>1, <2>2, DiskSteps DEF FailCreate, FailPut, At, Reshapes
  <2> QED BY <1>0, <2>3, <2>4
<1>2. ASSUME NEW i \in DOMAIN rows \ DOMAIN rows' PROVE disk[i] # "whole"
  <2>1. ASSUME NEW p \in Procs, DropRow(p) PROVE disk[i] # "whole"
    BY <1>0, <1>2, <2>1 DEF DropRow, DeleteRow, At, HandlesFirst
  <2>2. CASE ReconcileDrop
    BY <1>0, <1>2, <2>2 DEF ReconcileDrop, DeleteRow, MissingGone, Gone, RecWell
  <2>3. ASSUME NEW p \in Procs, MoveChildren(p) PROVE FALSE
    BY <1>2, <2>3 DEF MoveChildren, Reparent
  <2>4. CASE ReconcileReparent
    BY <1>2, <2>4 DEF ReconcileReparent, Reparent
  <2> QED BY <1>2, <2>1, <2>2, <2>3, <2>4, TableSteps DEF Reshapes
<1>3. DOMAIN rows' \subseteq DOMAIN rows
  BY TableSteps DEF DropRow, DeleteRow, ReconcileDrop, MoveChildren, ReconcileReparent, Reparent, Reshapes
<1> QED BY <1>1, <1>2, <1>3 DEF Readable

\* No other step changes what a client reads: a row that goes, and a child
\* that moves, do so below a handle that was gone before.
LEMMA HistoryStays ==
    ASSUME GInv, MissingGone, [Next]_vars, \A p \in Procs : ~Reshapes(p)
    PROVE  ReadableHistory' = ReadableHistory
<1>1. Readable' = Readable /\ Readable \subseteq DOMAIN rows /\ Readable' \subseteq DOMAIN rows'
  BY ReadableStays DEF Readable
<1>2. ASSUME NEW i \in Readable
      PROVE  /\ rows'[i].ws = rows[i].ws /\ rows'[i].auto = rows[i].auto
             /\ Ancestors(rows', i) \intersect Readable = Ancestors(rows, i) \intersect Readable
  <2>1. i \in DOMAIN rows /\ i \in DOMAIN rows'
    BY <1>1
  <2>0. rows[i] \in Row(Id, Worksets)
    BY <2>1, RowFacts DEF GInv, LInv, IsGraph
  <2>2. rows'[i].ws = rows[i].ws /\ rows'[i].auto = rows[i].auto
    <3>1. ASSUME NEW p \in Procs, MoveChildren(p) \/ DropRow(p)
          PROVE  rows'[i].ws = rows[i].ws /\ rows'[i].auto = rows[i].auto
      BY <2>0, <2>1, <3>1 DEF MoveChildren, Reparent, DropRow, DeleteRow, Row
    <3>2. ReconcileReparent \/ ReconcileDrop => rows'[i].ws = rows[i].ws /\ rows'[i].auto = rows[i].auto
      BY <2>0, <2>1 DEF ReconcileReparent, Reparent, ReconcileDrop, DeleteRow, Row
    <3> QED BY <3>1, <3>2, TableSteps DEF Reshapes
  <2>3. \A a \in Readable : ~Gone(a)
    BY DEF Readable, Gone
  <2> QED BY <2>1, <2>2, <2>3, ChainsKept
<1>3. Reads(rows', Readable) = Reads(rows, Readable)
  BY <1>2, ReadsSame
<1>4. ReadableHistory' = Reads(rows', Readable')
  BY HistoryIsReads
<1> QED BY <1>1, <1>3, <1>4, HistoryIsReads

\* Nor does any step but those of a write, and a crash, move a draft.
WritesOn(p) == BeginCreate(p) \/ EndCreate(p) \/ PutRow(p) \/ FailCreate(p) \/ FailPut(p)

LEMMA DraftsKept ==
    ASSUME IInv, [Next]_vars, ~Crash, \A p \in Procs : ~WritesOn(p)
    PROVE  Drafts' = Drafts
<1>0. TypeOK /\ proc \in [Procs -> ProcRec] /\ next \in Nat
  BY IdFacts DEF IInv, TypeOK
<1>1. ASSUME NEW p \in Procs, NEW r, Arrive(p, r), ~Writing(r) PROVE Drafts' = Drafts
  <2>1. next' = next /\ ~Writing(proc[p]) /\ proc'[p] = r /\ \A q \in Procs \ {p} : proc'[q] = proc[q]
    BY <1>0, <1>1 DEF Arrive, Move, At, Writing
  <2> QED BY <1>1, <2>1, DraftsStay
<1>2. ASSUME NEW c \in Clients, Request(c) PROVE Drafts' = Drafts
  BY <1>1, <1>2 DEF Request, CreateSnapshot, RestoreOrPrune, Procs, Writing, Idle
<1>3. ASSUME NEW w \in Worksets, PruneAll(w) PROVE Drafts' = Drafts
  BY <1>1, <1>3 DEF PruneAll, Procs, Writing, Idle
<1>4. CASE UNCHANGED <<next, proc>>
  BY <1>4, DraftsStay
<1>5. ASSUME NEW p \in Procs, Lock(p) PROVE Drafts' = Drafts
  BY <1>5, LockTurns, OneMoves, DraftsStay DEF Lock, Writing
<1>6. ASSUME NEW p \in Procs, Work(p) PROVE Drafts' = Drafts
  <2>1. \A q \in Procs \ {p} : proc'[q] = proc[q]
    BY <1>6, OneMoves
  <2>2. ~Writing(proc'[p])
    BY <1>0, <1>6, WorkTurns, SMTT(40) DEF Writing, WritesOn
  <2>3. ~Writing(proc[p]) /\ next' = next
    BY <1>6 DEF Work, RefuseCreate, EngineRestore, FailRestore, ListExcess, SkipRetention,
       SelectSubtree, RefusePrune, BeginFree, RefuseFree, EndFree, FailFree, FailReread,
       MoveChildren, FailMoveChildren, DropRow, FailDrop, FinishRemoval, Unlock, Stop, Stuck,
       Choose, GiveUpWrite, At, Writing, WritesOn
  <2> QED BY <2>1, <2>2, <2>3, DraftsStay
<1>7. TimerTicks \/ Boot => UNCHANGED <<next, proc>>
  BY DEF TimerTicks, Boot, Start, ReconcileScan, ReconcileRefuses, ReconcileReparent, ReconcileDrop,
     ReconcileRowFails, ReconcileHandle, ReconcileHandleFails, Serve, Daemon
<1>8. UNCHANGED vars => UNCHANGED <<next, proc>>
  BY DEF vars
<1> QED BY <1>2, <1>3, <1>4, <1>5, <1>6, <1>7, <1>8 DEF Next

\* The graph of the abstract specification is that of the store.
LEMMA HistoryTerms ==
    /\ History!None = None
    /\ \A g, w : History!Of(g, w) = Of(g, w)
    /\ \A g, i : History!Children(g, i) = Children(g, i)
    /\ \A g, i, row : History!PutSnapshot(g, i, row) = PutSnapshot(g, i, row)
    /\ \A g, i, j : History!Reparent(g, i, j) = Reparent(g, i, j)
    /\ \A g, i : History!DeleteRow(g, i) = DeleteRow(g, i)
    /\ \A g, w : History!ManualAncestors(g, w) = ManualAncestors(g, w)
<1>1. \A g, w : History!Of(g, w) = Of(g, w)
  BY DEF History!Of, Of
<1>2. \A g, S : History!UpClosed(g, S) <=> UpClosed(g, S)
  BY DEF History!UpClosed, UpClosed
<1>3. \A g, S : History!Upward(g, S) = Upward(g, S)
  BY <1>2 DEF History!Upward, Upward
<1>4. \A g, w : History!ManualAncestors(g, w) = ManualAncestors(g, w)
  BY <1>1, <1>3 DEF History!ManualAncestors, ManualAncestors
<1>5. History!None = None /\ \A g, i : History!Children(g, i) = Children(g, i)
  BY DEF History!None, History!Children, Children
<1>6. \A g, i, row : History!PutSnapshot(g, i, row) = PutSnapshot(g, i, row)
  BY DEF History!PutSnapshot, PutSnapshot
<1>7. \A g, i, j : History!Reparent(g, i, j) = Reparent(g, i, j)
  BY DEF History!Reparent, Reparent
<1>8. \A g, i : History!DeleteRow(g, i) = DeleteRow(g, i)
  BY DEF History!DeleteRow, DeleteRow
<1> QED BY <1>1, <1>4, <1>5, <1>6, <1>7, <1>8

\* A snapshot that was not finished is abandoned.
LEMMA OneAbandoned ==
    ASSUME NEW i \in Id, IsDrafts(Drafts), Drafts[i] \in {"begun", "made"},
           Drafts' = [Drafts EXCEPT ![i] = "done"], ReadableHistory' = ReadableHistory
    PROVE  History!Next
<1>1. Drafts' = [j \in Id |-> IF j \in {i} THEN "done" ELSE Drafts[j]]
  BY DEF IsDrafts
<1>2. History!Abandon({i})
  BY <1>1 DEF History!Abandon
<1> QED BY <1>2 DEF History!Next

\* The INSERT of a row commits its snapshot, or abandons one whose copy the
\* provider has deleted since it was made.
LEMMA PutCommits ==
    ASSUME GInv, GInv', NEW p \in Procs, PutRow(p)
    PROVE  History!Next
<1> DEFINE me == proc[p]
           i == me.id
           R == Readable
           under == Nearest(rows', R \union {i}, i)
           auto == me.op # "manual"
<1>1. /\ IInv /\ TypeOK /\ Forest(rows) /\ Forest(rows') /\ DOMAIN rows \subseteq 1..MaxSnap /\ MaxSnap \in Nat
      /\ disk \in [Id -> Handle] /\ None \notin Id
  BY IdFacts, RowFacts, SMTT(40) DEF GInv, LInv, IInv, TypeOK, GraphIntact, Id
<1>2. PICK row : rows' = PutSnapshot(rows, i, row) /\ row.ws = me.ws /\ row.auto = auto
  BY DEF PutRow
<1>3. /\ i \in (1..MaxSnap) \ DOMAIN rows /\ me.pc = "put" /\ me.ws \in Worksets
      /\ disk' = disk /\ DOMAIN rows' = DOMAIN rows \union {i} /\ i # None
  BY <1>1, PutRowGives, LockFacts DEF GInv, PutRow, Id
<1>4. R \subseteq DOMAIN rows /\ Readable' = IF disk[i] = "whole" THEN R \union {i} ELSE R
  BY <1>3 DEF Readable
<1>5. /\ i \in Id /\ IsDrafts(Drafts) /\ Drafts[i] = "made"
      /\ Drafts' = [Drafts EXCEPT ![i] = "done"]
  <2>1. Writing(me) /\ next' = next
    BY <1>3 DEF Writing, PutRow
  <2>2. ~Writing(proc'[p])
    BY <1>1, <2>1 DEF PutRow, Move, TypeOK, ProcRec, AfterWrite, Writing
  <2>3. \A q \in Procs \ {p} : proc'[q] = proc[q]
    BY <1>1, OneMoves DEF Work
  <2> QED BY <1>1, <1>3, <2>1, <2>2, <2>3, OneDraft DEF Writing
<1>6. CASE disk[i] = "whole"
  <2>1. /\ Reads(rows', R \union {i}) = PutSnapshot(Reads(rows, R), i,
               [ws |-> me.ws, parent |-> under, auto |-> auto])
        /\ under \in Of(Reads(rows, R), me.ws) \union {None}
    BY <1>1, <1>2, <1>3, <1>4, ReadsOneMore
  <2> HIDE DEF under
  <2>2. /\ under \in Of(ReadableHistory, me.ws) \union {None}
        /\ ReadableHistory' = PutSnapshot(ReadableHistory, i, [ws |-> me.ws, parent |-> under, auto |-> auto])
    BY <1>4, <1>6, <2>1, HistoryIsReads
  <2>3. History!Commit(i, me.ws, auto, under)
    BY <1>5, <2>2, HistoryTerms DEF History!Commit, History!Turn
  <2>4. under \in DOMAIN ReadableHistory \union {History!None} /\ auto \in BOOLEAN
    BY <2>2, HistoryTerms DEF Of
  <2> QED BY <1>3, <1>5, <2>3, <2>4 DEF History!Next
<1>7. CASE disk[i] # "whole"
  <2>1. \A j \in R : /\ rows'[j].ws = rows[j].ws /\ rows'[j].auto = rows[j].auto
                      /\ Ancestors(rows', j) = Ancestors(rows, j)
    <3>1. \A j \in DOMAIN rows : rows'[j] = rows[j]
      BY <1>2, <1>3 DEF PutSnapshot
    <3>2. \A j \in DOMAIN rows : Ancestors(rows', j) = Ancestors(rows, j)
      BY <1>1, <1>2, <1>3, PutKeepsChains
    <3> QED BY <1>4, <3>1, <3>2
  <2>2. Reads(rows', R) = Reads(rows, R)
    BY <2>1, ReadsSame
  <2>3. ReadableHistory' = ReadableHistory
    BY <1>4, <1>7, <2>2, HistoryIsReads
  <2> QED BY <1>5, <2>3, OneAbandoned
<1> QED BY <1>6, <1>7

\* The handle of a readable snapshot goes as a leaf, or as one that no manual
\* snapshot descends from.
LEMMA FreeRemoves ==
    ASSUME GInv, NEW p \in Procs, BeginFree(p)
    PROVE  History!Next \/ UNCHANGED <<ReadableHistory, Drafts>>
<1> DEFINE R == Readable
           H == ReadableHistory
<1>1. /\ LInv /\ IInv /\ TypeOK /\ Forest(rows) /\ DOMAIN rows \subseteq 1..MaxSnap /\ MaxSnap \in Nat
      /\ disk \in [Id -> Handle] /\ DOMAIN rows \subseteq Id
  BY IdFacts, RowFacts DEF GInv, LInv, IInv, TypeOK, Id
<1>2. PICK i \in proc[p].todo :
          /\ IsNext(proc[p], i) /\ proc[p].pc = "free" /\ rows' = rows
          /\ disk' = [disk EXCEPT ![i] = IF @ = "absent" THEN @ ELSE "damaged"]
  BY DEF BeginFree, At
<1>3. Drafts' = Drafts
  <2>1. next' = next /\ ~Writing(proc[p])
    BY DEF BeginFree, At, Writing
  <2>2. ~Writing(proc'[p])
    BY <1>1 DEF BeginFree, Move, TypeOK, ProcRec, Writing
  <2>3. \A q \in Procs \ {p} : proc'[q] = proc[q]
    BY <1>1, OneMoves DEF Work
  <2> QED BY <2>1, <2>2, <2>3, DraftsStay
<1>4. CASE i \notin R
  <2>1. Readable' = R
    BY <1>1, <1>2, <1>4 DEF Readable
  <2> QED BY <1>2, <1>3, <2>1, HistoryIsReads
<1>5. CASE i \in R
  <2>1. Readable' = R \ {i} /\ i \in DOMAIN rows /\ R \subseteq DOMAIN rows
    BY <1>1, <1>2, <1>5 DEF Readable
  <2>2. H' = DeleteRow(Reparent(H, i, H[i].parent), i)
    BY <1>1, <1>2, <1>5, <2>1, ReadsOneLess, HistoryIsReads
  <2>3. DOMAIN H = R /\ H[i].ws = rows[i].ws /\ H[i].auto = rows[i].auto
    BY <1>5 DEF ReadableHistory
  <2>4. History!Expendable(i)
    <3>1. CASE Retains(proc[p])
      <4>1. rows[i].ws = proc[p].ws /\ i \notin ManualAncestors(rows, proc[p].ws)
        BY <1>1, <1>2, <2>1, <3>1, NextRow
      <4>2. rows[i].auto
        BY <2>1, <4>1 DEF ManualAncestors, Upward, Of
      <4>3. i \notin ManualAncestors(H, H[i].ws)
        BY <1>1, <2>1, <2>3, <4>1, ReadsCover, HistoryIsReads
      <4> QED BY <2>3, <4>2, <4>3, HistoryTerms DEF History!Expendable
    <3>2. CASE ~Retains(proc[p])
      <4>1. Children(rows, i) = {}
        BY <1>1, <1>2, <3>2, NextRow
      <4>2. Children(H, i) = {}
        BY <1>1, <1>5, <2>1, <4>1, ReadsLeaf, HistoryIsReads
      <4> QED BY <4>2, HistoryTerms DEF History!Expendable
    <3> QED BY <3>1, <3>2
  <2>5. History!Remove(i)
    BY <1>3, <2>2, <2>4, HistoryTerms DEF History!Remove, History!Without
  <2> QED BY <1>5, <2>3, <2>5 DEF History!Next
<1> QED BY <1>4, <1>5

\* An identifier is drawn, and nothing is read differently for it.
LEMMA DrawBegins ==
    ASSUME GInv, NEW p \in Procs, BeginCreate(p)
    PROVE  History!Next
<1>1. /\ IInv /\ disk \in [Id -> Handle] /\ DOMAIN rows \subseteq Id
      /\ next \in Id /\ next \notin DOMAIN rows
  BY IdFacts, RowFacts DEF GInv, LInv, IInv, TypeOK, BeginCreate
<1>2. disk' = [disk EXCEPT ![next] = "partial"] /\ rows' = rows
  BY DEF BeginCreate
<1>3. Readable' = Readable
  BY <1>1, <1>2 DEF Readable
<1>4. ReadableHistory' = ReadableHistory
  BY <1>2, <1>3, HistoryIsReads
<1>5. \A q \in Procs \ {p} : proc'[q] = proc[q]
  BY <1>1, OneMoves DEF Work
<1>6. History!Begin(next)
  BY <1>1, <1>4, <1>5, DraftBegins DEF History!Begin, History!Turn
<1> QED BY <1>1, <1>6 DEF History!Next

\* A copy that is made takes the oldest readable snapshot with it where the
\* provider has to make room for it, and otherwise none.
LEMMA CopyEvicts ==
    ASSUME GInv, NEW p \in Procs, EndCreate(p)
    PROVE  History!Next
<1> DEFINE R == Readable
           H == ReadableHistory
           me == proc[p].id
<1>1. /\ IInv /\ TypeOK /\ Forest(rows) /\ DOMAIN rows \subseteq 1..MaxSnap /\ MaxSnap \in Nat
      /\ disk \in [Id -> Handle] /\ DOMAIN rows \subseteq Id
  BY IdFacts, RowFacts DEF GInv, LInv, IInv, TypeOK, Id
<1>2. /\ disk' = [i \in Id |-> IF i = me THEN "whole" ELSE IF i \in Evicted THEN "hollow" ELSE disk[i]]
      /\ rows' = rows /\ next' = next /\ proc[p].pc = "copy"
  BY DEF EndCreate, At
<1>3. me \notin DOMAIN rows
  BY <1>1, <1>2, Settled
<1>4. Readable' = R \ Evicted /\ R \subseteq DOMAIN rows /\ R \subseteq Held
  BY <1>1, <1>2, <1>3 DEF Readable, Held
<1>5. me \in Id /\ History!Turn(me, "begun", "made")
  <2>1. Writing(proc[p]) /\ proc'[p].pc = "put" /\ proc'[p].id = me
    BY <1>1, <1>2, NamesKept DEF Writing
  <2>2. \A q \in Procs \ {p} : proc'[q] = proc[q]
    BY <1>1, OneMoves DEF Work
  <2> QED BY <1>1, <1>2, <2>1, <2>2, OneDraft DEF History!Turn
<1> HIDE DEF me
<1>6. CASE R \intersect Evicted = {}
  <2>1. Readable' = R
    BY <1>4, <1>6
  <2>2. H' = H
    BY <1>2, <2>1, HistoryIsReads
  <2> QED BY <1>5, <2>2 DEF History!Next, History!Copy
<1>7. ASSUME NEW i \in R, i \in Evicted PROVE History!Next
  <2>1. ProviderMax > 0 /\ Evicted \subseteq Held /\ \A e \in Evicted, j \in Held : e <= j
    BY <1>7 DEF Evicted
  <2>2. DOMAIN H = R /\ \A j \in R : i <= j
    BY <1>4, <1>7, <2>1 DEF ReadableHistory
  <2>3. \A e \in Evicted \intersect R : e = i
    <3>1. \A e \in R : e \in Nat
      BY <1>1, <1>4
    <3> QED BY <1>4, <1>7, <2>1, <3>1
  <2>4. Readable' = R \ {i}
    BY <1>4, <1>7, <2>3
  <2>5. H' = DeleteRow(Reparent(H, i, H[i].parent), i)
    BY <1>1, <1>2, <1>4, <1>7, <2>4, ReadsOneLess, HistoryIsReads
  <2>6. i \in History!Oldest /\ H' = History!Without(i)
    BY <2>2, <2>5, HistoryTerms DEF History!Oldest, History!Without
  <2> HIDE DEF H
  <2>7. History!Copy(me)
    BY <1>5, <2>1, <2>6 DEF History!Copy, H
  <2> QED BY <1>5, <2>7 DEF History!Next
<1> QED BY <1>6, <1>7

\* A write that fails abandons its identifier.
LEMMA FailAbandons ==
    ASSUME GInv, MissingGone, [Next]_vars,
           NEW p \in Procs, FailCreate(p) \/ FailPut(p)
    PROVE  History!Next
<1>1. IInv /\ TypeOK
  BY DEF GInv, LInv, IInv
<1>2. next' = next /\ Writing(proc[p]) /\ GiveUpWrite(p)
  BY DEF FailCreate, FailPut, At, Writing
<1>3. ~Writing(proc'[p])
  BY <1>1, <1>2 DEF GiveUpWrite, AfterFailedWrite, Move, TypeOK, ProcRec, Writing
<1>4. \A q \in Procs \ {p} : proc'[q] = proc[q]
  BY <1>1, OneMoves DEF Work
<1>5. /\ proc[p].id \in Id /\ IsDrafts(Drafts) /\ Drafts[proc[p].id] \in {"begun", "made"}
      /\ Drafts' = [Drafts EXCEPT ![proc[p].id] = "done"]
  BY <1>1, <1>2, <1>3, <1>4, OneDraft DEF Writing
<1>6. \A q \in Procs : ~Reshapes(q)
  <2> SUFFICES ASSUME NEW q \in Procs, Reshapes(q) PROVE FALSE
    OBVIOUS
  <2>1. \A r \in Procs \ {q} : proc'[r] = proc[r]
    BY <1>1, OneMoves DEF Work, Reshapes
  <2>2. q = p /\ ~EndCreate(p)
    BY <1>1, <1>2, <1>3, <2>1, NamesKept DEF Writing
  <2>3. proc[p].pc = "put" /\ PutRow(p) /\ rows' = rows
    BY <1>2, <2>2 DEF BeginFree, At, Writing, PutRow, FailCreate, FailPut, Reshapes
  <2> QED BY <1>1, <2>3, PutRowGives DEF GInv
<1>7. ReadableHistory' = ReadableHistory
  BY <1>6, HistoryStays
<1> QED BY <1>5, <1>7, OneAbandoned

\* A crash abandons whatever was being written.
LEMMA CrashAbandons ==
    ASSUME IInv, Crash
    PROVE  History!Next
<1> DEFINE S == {i \in Id : Drafts[i] \in {"begun", "made"}}
<1>1. next' = next /\ \A i : WritingAt("copy", i)' = {} /\ WritingAt("put", i)' = {}
  BY DEF Crash, WritingAt, Idle
<1>2. Drafts' = [i \in Id |-> IF i \in S THEN "done" ELSE Drafts[i]]
  <2>1. \A i \in Id : Drafts'[i] = IF i >= next THEN "unused" ELSE "done"
    BY <1>1 DEF Drafts
  <2>2. \A i \in Id : i >= next => Drafts[i] = "unused"
    BY DEF Drafts
  <2>3. \A i \in Id : ~(i >= next) => Drafts[i] \in {"begun", "made", "done"}
    BY DEF Drafts
  <2>4. Drafts' = [i \in Id |-> Drafts'[i]]
    BY DEF Drafts
  <2> QED BY <2>1, <2>2, <2>3, <2>4
<1>3. ReadableHistory' = ReadableHistory
  BY DEF Crash, ReadableHistory, NearestReadable, Readable
<1>4. History!Abandon(S)
  BY <1>2, <1>3 DEF History!Abandon
<1> QED BY <1>4 DEF History!Next

\* Every step of the daemon maps to a step of the history, or to none.
LEMMA HistorySteps ==
    ASSUME GInv, GInv', MissingGone, [Next]_vars
    PROVE  [History!Next]_<<ReadableHistory, Drafts>>
<1>1. ASSUME NEW p \in Procs, BeginCreate(p) PROVE History!Next
  BY <1>1, DrawBegins
<1>2. ASSUME NEW p \in Procs, EndCreate(p) PROVE History!Next
  BY <1>2, CopyEvicts
<1>3. ASSUME NEW p \in Procs, PutRow(p) PROVE History!Next
  BY <1>3, PutCommits
<1>4. ASSUME NEW p \in Procs, BeginFree(p) PROVE History!Next \/ UNCHANGED <<ReadableHistory, Drafts>>
  BY <1>4, FreeRemoves
<1>5. ASSUME NEW p \in Procs, FailCreate(p) \/ FailPut(p) PROVE History!Next
  BY <1>5, FailAbandons
<1>6. CASE Crash
  BY <1>6, CrashAbandons DEF GInv, LInv
<1>7. CASE ~Crash /\ \A p \in Procs : ~Reshapes(p) /\ ~WritesOn(p)
  BY <1>7, HistoryStays, DraftsKept DEF GInv, LInv
<1> QED BY <1>1, <1>2, <1>3, <1>4, <1>5, <1>6, <1>7 DEF Reshapes, WritesOn

\* The empty table is the empty history.
LEMMA HistoryInit == Init => History!Init
<1> SUFFICES ASSUME Init PROVE History!Init
  OBVIOUS
<1>1. Readable = {}
  BY DEF Init, Readable
<1>2. ReadableHistory = [i \in {} |-> History!None]
  BY <1>1 DEF ReadableHistory
<1>3. Drafts = [i \in Id |-> "unused"]
  <2>1. \A i \in Id : i >= next
    BY IdFacts DEF Init, Id
  <2> QED BY <2>1 DEF Drafts
<1> QED BY <1>2, <1>3 DEF History!Init

(***************************************************************************)
(* On every backend the daemon implements SnapshotHistory, for any         *)
(* worksets and clients, whatever fails, through any number of crashes and *)
(* with a clock that goes back: a client sees a forest that grows by whole *)
(* snapshots and loses only leaves, auto snapshots that no manual one      *)
(* descends from and, where a provider holds the copies, the oldest one    *)
(* when a new copy needs its room (service.go, retention.go,               *)
(* reconcile.go).                                                          *)
(***************************************************************************)
THEOREM DaemonImplementsHistory == Spec => ImplementsHistory
<1>1. Init => MissingGone
  BY DEF Init, MissingGone
<1>2. GInv /\ GInv' /\ MissingGone /\ [Next]_vars => [History!Next]_<<ReadableHistory, Drafts>>
  BY HistorySteps
<1> QED BY <1>1, <1>2, MissingGoneKept, HistoryInit, GInvHolds, PTL DEF Spec, ImplementsHistory, History!Spec

-----------------------------------------------------------------------------
(***************************************************************************)
(* With one workset at most one row has no handle: the one that a removal  *)
(* under the lock has in hand.  So Reconcile finds at most one to remove,  *)
(* which hangs where it did when the list was made.  A provider leaves it  *)
(* any number, the copies it evicted: then the order of removal counts,    *)
(* and with it the clock (Placed).                                         *)
(***************************************************************************)
StartsWell ==
    /\ \A i, j \in DOMAIN rows : disk[i] = "absent" /\ disk[j] = "absent" => i = j
    /\ phase = "rows" /\ ProviderMax = 0 => \A i \in rec.missing : rec.parent[i] = rows[i].parent
    /\ phase # "refused"

\* A start neither refuses nor fails.
LEMMA StartsWellKept ==
    ASSUME AInv, AInv', Placed, Sure, Alone, ProviderMax = 0 \/ ClockSteps = FALSE,
           StartsWell, [Next]_vars
    PROVE  StartsWell'
<1>0. /\ GInv /\ LInv /\ IInv /\ TypeOK /\ RecWell /\ RecSound /\ Forest(rows) /\ MissingGone
      /\ ~Fails("delete") /\ ~Fails("store") /\ IsFiniteSet(DOMAIN rows)
  <2>1. IInv /\ DOMAIN rows \subseteq Id
    BY RowFacts DEF AInv, GInv, LInv
  <2>2. IsFiniteSet(Id)
    BY BoundsAssumption, FS_Interval DEF Id
  <2> QED BY <2>1, <2>2, FS_Subset DEF AInv, GInv, LInv, IInv, GraphIntact, Sure, Fails
<1>1. ~EveryRowAbsent
  <2> SUFFICES ASSUME EveryRowAbsent PROVE FALSE
    OBVIOUS
  <2>1. \A i, j \in DOMAIN rows : i = j
    BY DEF EveryRowAbsent, Absent, StartsWell
  <2>2. CASE DOMAIN rows = {}
    BY <2>2, FS_EmptySet DEF EveryRowAbsent
  <2>3. CASE DOMAIN rows # {}
    <3>1. PICK i : DOMAIN rows = {i}
      BY <2>1, <2>3
    <3>2. Cardinality({i}) = 1
      BY FS_Singleton
    <3>3. Cardinality(DOMAIN rows) > 1
      BY DEF EveryRowAbsent
    <3> QED BY <3>1, <3>2, <3>3
  <2> QED BY <2>2, <2>3
<1>2. ~ReconcileRefuses /\ ~ReconcileRowFails /\ ~ReconcileHandleFails
  <2>1. phase = "rows" => \A i \in rec.missing : MayReparent(rows, i, rec.parent[i])
    <3>1. CASE ProviderMax = 0
      BY <1>0, <3>1 DEF StartsWell, MayReparent, RecSound, Forest
    <3>2. CASE ClockSteps = FALSE
      BY <3>2 DEF Placed, MayReparent
    <3> QED BY <3>1, <3>2
  <2>2. phase = "drop" => MayDelete(rows, rec.cur)
    BY <1>0 DEF RecWell, RecSound, MayDelete
  <2> QED BY <1>0, <1>1, <2>1, <2>2 DEF ReconcileRefuses, ReconcileRowFails, ReconcileHandleFails
<1>3. CASE phase' = "serving"
  <2>1. phase' # "rows" /\ phase' # "refused"
    BY <1>3
  <2>2. LInv' /\ RowsBacked'
    BY DEF AInv, GInv
  <2>3. \A i, j \in DOMAIN rows' : disk'[i] = "absent" /\ disk'[j] = "absent" => i = j
    <3> SUFFICES ASSUME NEW i \in DOMAIN rows', NEW j \in DOMAIN rows',
                        disk'[i] = "absent", disk'[j] = "absent"
                 PROVE  i = j
      OBVIOUS
    <3>1. i \in Id /\ j \in Id
      BY <2>2 DEF LInv, IInv, TypeOK
    <3>2. PICK p \in Procs : proc'[p].pc \in {"reparent", "drop"} /\ proc'[p].cur = i
      BY <1>3, <2>2, <3>1 DEF RowsBacked, InHand
    <3>3. PICK q \in Procs : proc'[q].pc \in {"reparent", "drop"} /\ proc'[q].cur = j
      BY <1>3, <2>2, <3>1 DEF RowsBacked, InHand
    <3>4. /\ Inside(proc'[p]) /\ Inside(proc'[q])
          /\ proc'[p].ws \in Worksets /\ proc'[q].ws \in Worksets
      BY <2>2, <3>2, <3>3 DEF LInv, IInv, Sound, Inside
    <3>5. p = q
      BY <2>2, <3>4 DEF LInv, MutexHeld, Alone
    <3> QED BY <3>2, <3>3, <3>5
  <2> QED BY <2>1, <2>3 DEF StartsWell
<1>4. CASE Start \/ Crash \/ Serve
  BY <1>4 DEF Start, Crash, Serve, Daemon, StartsWell
<1>5. CASE ReconcileScan
  <2>1. \A i \in rec'.missing : i \in DOMAIN rows
    BY <1>0, <1>5, ScanGives DEF Absent, Lost
  <2> QED BY <1>0, <1>5, <2>1, ScanGives DEF StartsWell
<1>6. CASE ReconcileReparent
  <2>1. DOMAIN rows' = DOMAIN rows /\ disk' = disk /\ phase' = "drop"
    BY <1>0, <1>6, ReparentTakes DEF Reparent
  <2> QED BY <2>1 DEF StartsWell
<1>7. CASE ReconcileDrop
  <2>1. /\ DOMAIN rows' = DOMAIN rows \ {rec.cur} /\ disk' = disk /\ phase = "drop" /\ phase' = "rows"
        /\ rec'.missing = rec.missing \ {rec.cur}
    BY <1>0, <1>7 DEF ReconcileDrop, DeleteRow, Daemon, TypeOK, RecRec
  <2>2. rec.cur \in rec.missing /\ rec.missing \subseteq DOMAIN rows
    BY <1>0, <2>1 DEF RecWell, RecSound
  <2>3. ProviderMax = 0 => \A i \in rec.missing : i = rec.cur
    BY <1>0, <2>1, <2>2 DEF MissingGone, Gone, StartsWell
  <2> QED BY <2>1, <2>3 DEF StartsWell
<1>8. CASE ReconcileHandle
  <2>1. \A i \in DOMAIN rows : disk'[i] = disk[i]
    <3>1. PICK o \in Orphans, left \in Leavings : disk' = [disk EXCEPT ![o] = left]
      BY <1>8 DEF ReconcileHandle
    <3> QED BY <1>0, <1>8, <3>1, OrphansAreNoRows
  <2>2. rows' = rows /\ phase' = "rows" /\ rec'.missing = {}
    BY <1>0, <1>8 DEF ReconcileHandle, Daemon, TypeOK, RecRec
  <2> QED BY <2>1, <2>2 DEF StartsWell
<1>9. CASE UNCHANGED vars
  BY <1>9 DEF vars, StartsWell
<1> QED BY <1>2, <1>3, <1>4, <1>5, <1>6, <1>7, <1>8, <1>9, PhaseSteps DEF Boot

(***************************************************************************)
(* With one workset, and deletes and statements that succeed, Reconcile    *)
(* never refuses to serve, after any number of crashes at any place,       *)
(* whatever a provider deleted, where the clock never goes back, and       *)
(* whatever the clock did, where there is no provider (USE-CASES, "Recover *)
(* the graph after a restart").  With two worksets it can: see the run     *)
(* refusal.                                                                *)
(***************************************************************************)
THEOREM StartsAlwaysServe ==
    ASSUME Sure, Alone, ProviderMax = 0 \/ ClockSteps = FALSE
    PROVE  Spec => []NeverRefuses
<1>1. Init => StartsWell
  BY DEF Init, StartsWell
<1>2. AInv /\ AInv' /\ Placed /\ StartsWell /\ [Next]_vars => StartsWell'
  BY StartsWellKept
<1>3. StartsWell => NeverRefuses
  BY DEF StartsWell, NeverRefuses
<1> QED BY <1>1, <1>2, <1>3, AInvHolds, PlacedHolds, PTL DEF Spec
==============================================================================
