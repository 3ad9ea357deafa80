------------------------ MODULE SnapshotServiceProofs ------------------------
(***************************************************************************)
(* Proofs about SnapshotService for every number of worksets, requests,    *)
(* snapshots, crashes and every set of faults.                             *)
(***************************************************************************)
EXTENDS SnapshotService, SnapshotGraphProofs

USE DEF None

(***************************************************************************)
(* What the locals of one goroutine have to do with the graph g and with   *)
(* the next identifier n.  Identifiers in locals are old; the one being    *)
(* written is not yet a row, and its parent is older and, if it still      *)
(* stands, of the same workset; so is the row retention hands children to. *)
(***************************************************************************)
Refs(me) == {me.target, me.up, me.cur} \union me.todo

Sound(me, g, n) ==
    /\ me.pc # "idle" => me.ws \in Worksets /\ me.op # "none"
    /\ me.id < n /\ \A j \in Refs(me) : j < n
    /\ me.target \in DOMAIN g => g[me.target].ws = me.ws
    /\ me.op \in Removes => me.target # None
    /\ me.pc = "select" => me.op \in Removes
    /\ me.pc \in {"copy", "put"} =>
          /\ me.id \in Id \ DOMAIN g
          /\ me.up < me.id
          /\ me.up \in DOMAIN g => g[me.up].ws = me.ws
    /\ me.pc \in {"freeing", "reparent", "drop"} => me.cur \in Id
    /\ me.pc \in {"freeing", "reparent"} =>
          /\ me.up < me.cur
          /\ me.up \in DOMAIN g /\ me.cur \in DOMAIN g => g[me.up].ws = g[me.cur].ws

\* Nobody else refers to the identifier a goroutine is writing.
Fresh ==
    \A p, q \in Procs :
        proc[p].pc \in {"copy", "put"} =>
            /\ proc[p].id \notin Refs(proc[q])
            /\ p # q /\ proc[q].pc \in {"copy", "put"} => proc[p].id # proc[q].id

\* The rows Reconcile removes stand until it removes them, and the parents
\* it noted are older and of the same workset.
RecSound ==
    /\ phase \in {"rows", "drop"} =>
          /\ rec.missing \subseteq DOMAIN rows
          /\ \A i \in rec.missing :
                /\ rec.parent[i] < i
                /\ rec.parent[i] \in DOMAIN rows => rows[rec.parent[i]].ws = rows[i].ws
    /\ phase = "drop" => rec.cur \in Id

IInv ==
    /\ TypeOK
    /\ GraphIntact
    /\ \A i \in DOMAIN rows : i < next
    /\ \A p \in Procs : Sound(proc[p], rows, next)
    /\ Fresh
    /\ phase # "serving" => \A p \in Procs : proc[p].pc = "idle"
    /\ RecSound

\* Identifiers are positive numbers, for the provers.
LEMMA IdFacts == Id \subseteq Nat \ {0} /\ MaxSnap \in Nat
BY BoundsAssumption DEF Id

\* What TypeOK says of the table.
LEMMA GraphType == TypeOK <=> TypeOK /\ IsGraph(rows, Id, Worksets)
BY DEF TypeOK, IsGraph

\* The initial states have the invariant.
LEMMA InitIInv == Init => IInv
<1> SUFFICES ASSUME Init PROVE IInv
  OBVIOUS
<1> USE DEF Init
<1>1. TypeOK
  <2>1. rows \in [DOMAIN rows -> Row(Id, Worksets)] /\ DOMAIN rows = {}
    OBVIOUS
  <2>2. disk \in [Id -> Handle]
    BY DEF Handle
  <2>3. next \in 1..(MaxSnap + 1)
    BY BoundsAssumption
  <2>4. proc \in [Procs -> ProcRec]
    BY DEF Idle, ProcRec, Ops, Pcs
  <2>5. rec \in RecRec
    BY DEF NothingSeen, RecRec
  <2>6. crashes \in 0..MaxCrashes
    BY BoundsAssumption
  <2> QED BY <2>1, <2>2, <2>3, <2>4, <2>5, <2>6 DEF TypeOK, Phases
<1>2. GraphIntact
  BY DEF GraphIntact, Forest
<1>3. \A p \in Procs : Sound(proc[p], rows, next)
  BY DEF Sound, Refs, Idle, Removes
<1>4. Fresh
  BY DEF Fresh, Idle
<1>5. RecSound
  BY DEF RecSound
<1> QED BY <1>1, <1>2, <1>3, <1>4, <1>5 DEF IInv, Idle

(***************************************************************************)
(* A goroutine that changes only its locals and the disk.                  *)
(***************************************************************************)
LEMMA MoveGives ==
    ASSUME TypeOK, NEW p \in Procs, NEW r \in ProcRec, Move(p, r)
    PROVE  /\ proc' \in [Procs -> ProcRec]
           /\ proc'[p] = r
           /\ \A q \in Procs \ {p} : proc'[q] = proc[q]
           /\ phase' = phase /\ rec' = rec /\ crashes' = crashes
BY DEF Move, TypeOK
\* Sound is about rows only through the identifiers that exist and their
\* worksets, so it survives any step that removes rows or moves parents.
LEMMA SoundShrinks ==
    ASSUME NEW me, NEW g, NEW h, NEW n, Sound(me, g, n),
           DOMAIN h \subseteq DOMAIN g, \A j \in DOMAIN h : h[j].ws = g[j].ws
    PROVE  Sound(me, h, n)
BY DEF Sound

(***************************************************************************)
(* The invariant across a step of one goroutine that takes no identifier   *)
(* and adds no row: its new locals are sound, and refer to what they       *)
(* referred to before or to rows that stand.                               *)
(***************************************************************************)
LEMMA LocalStep ==
    ASSUME IInv, phase = "serving", NEW p \in Procs, NEW r \in ProcRec, Move(p, r),
           Sound(r, rows, next),
           Refs(r) \subseteq DOMAIN rows \union {None} \union Refs(proc[p]),
           r.pc \in {"copy", "put"} =>
               /\ proc[p].pc \in {"copy", "put"}
               /\ r.id = proc[p].id
               /\ Refs(r) \subseteq Refs(proc[p]),
           IsGraph(rows', Id, Worksets), Forest(rows'),
           DOMAIN rows' \subseteq DOMAIN rows, \A j \in DOMAIN rows' : rows'[j].ws = rows[j].ws,
           disk' \in [Id -> Handle], lock' \in [Worksets -> Procs \union {None}],
           next' = next, sweep' \subseteq Worksets
    PROVE  IInv'
<1>1. /\ proc' \in [Procs -> ProcRec] /\ proc'[p] = r
      /\ \A q \in Procs \ {p} : proc'[q] = proc[q]
      /\ phase' = phase /\ rec' = rec /\ crashes' = crashes
  BY MoveGives DEF IInv
<1>2. TypeOK'
  BY <1>1 DEF IInv, TypeOK, IsGraph
<1>3. GraphIntact'
  BY DEF GraphIntact
<1>4. \A i \in DOMAIN rows' : i < next'
  BY DEF IInv
<1>5. \A q \in Procs : Sound(proc'[q], rows', next')
  <2>1. TAKE q \in Procs
  <2>2. Sound(proc'[q], rows, next)
    BY <1>1 DEF IInv
  <2> QED BY <2>2, SoundShrinks
<1>6. Fresh'
  <2>1. \A q \in Procs : proc[q].pc \in {"copy", "put"} =>
            proc[q].id \notin DOMAIN rows \union {None}
    BY IdFacts DEF IInv, Sound
  <2>2. SUFFICES ASSUME NEW q \in Procs, NEW s \in Procs, proc'[q].pc \in {"copy", "put"}
        PROVE  /\ proc'[q].id \notin Refs(proc'[s])
               /\ q # s /\ proc'[s].pc \in {"copy", "put"} => proc'[q].id # proc'[s].id
    BY DEF Fresh
  <2>3. proc[q].pc \in {"copy", "put"} /\ proc'[q].id = proc[q].id
    BY <1>1, <2>2
  <2>4. proc[q].id \notin DOMAIN rows \union {None} \union Refs(proc[s])
    BY <2>1, <2>3 DEF IInv, Fresh
  <2>5. Refs(proc'[s]) \subseteq DOMAIN rows \union {None} \union Refs(proc[s])
    BY <1>1
  <2>6. q # s /\ proc'[s].pc \in {"copy", "put"} => proc'[q].id # proc'[s].id
    BY <1>1, <2>3 DEF IInv, Fresh
  <2> QED BY <2>3, <2>4, <2>5, <2>6
<1>7. phase' = "serving" /\ RecSound'
  BY <1>1 DEF RecSound
<1> QED BY <1>2, <1>3, <1>4, <1>5, <1>6, <1>7 DEF IInv
\* The same for a step that leaves the table alone.
LEMMA StayStep ==
    ASSUME IInv, phase = "serving", NEW p \in Procs, NEW r \in ProcRec, Move(p, r),
           Sound(r, rows, next),
           Refs(r) \subseteq DOMAIN rows \union {None} \union Refs(proc[p]),
           r.pc \in {"copy", "put"} =>
               /\ proc[p].pc \in {"copy", "put"}
               /\ r.id = proc[p].id
               /\ Refs(r) \subseteq Refs(proc[p]),
           rows' = rows, next' = next,
           disk' \in [Id -> Handle], lock' \in [Worksets -> Procs \union {None}],
           sweep' \subseteq Worksets
    PROVE  IInv'
<1>1. IsGraph(rows', Id, Worksets) /\ Forest(rows')
  BY GraphType DEF IInv, GraphIntact
<1> QED BY <1>1, LocalStep

\* A step that only moves the goroutine on to another of its points.
LEMMA GoToStep ==
    ASSUME IInv, phase = "serving", NEW p \in Procs, NEW pc \in Pcs \ {"copy"}, GoTo(p, pc),
           proc[p].pc # "idle",
           pc = "select" => proc[p].op \in Removes,
           pc = "put" => proc[p].pc \in {"copy", "put"},
           pc \in {"freeing", "reparent"} => proc[p].pc \in {"freeing", "reparent"},
           pc = "drop" => proc[p].pc \in {"freeing", "reparent", "drop"},
           rows' = rows, next' = next,
           disk' \in [Id -> Handle], lock' \in [Worksets -> Procs \union {None}],
           sweep' \subseteq Worksets
    PROVE  IInv'
<1> DEFINE r == [proc[p] EXCEPT !.pc = pc]
<1>1. proc[p] \in ProcRec /\ Sound(proc[p], rows, next)
  BY DEF IInv, TypeOK
<1>2. /\ r \in ProcRec /\ r.pc = pc /\ r.ws = proc[p].ws /\ r.target = proc[p].target
      /\ r.up = proc[p].up /\ r.cur = proc[p].cur /\ r.id = proc[p].id
      /\ r.op = proc[p].op /\ Refs(r) = Refs(proc[p])
  BY <1>1 DEF ProcRec, Refs
<1>3. Sound(r, rows, next)
  BY <1>1, <1>2 DEF Sound
<1>4. Move(p, r)
  BY DEF GoTo
<1> HIDE DEF r
<1> QED BY <1>2, <1>3, <1>4, StayStep

\* The types of a goroutine's locals.
LEMMA ProcFacts ==
    ASSUME IInv, NEW p \in Procs
    PROVE  /\ proc[p] \in ProcRec /\ Sound(proc[p], rows, next)
           /\ disk \in [Id -> Handle] /\ lock \in [Worksets -> Procs \union {None}]
           /\ sweep \subseteq Worksets /\ next \in Nat \ {0}
           /\ proc[p].id \in Id \union {None} /\ proc[p].target \in Id \union {None}
           /\ proc[p].up \in Id \union {None} /\ proc[p].cur \in Id \union {None}
           /\ proc[p].ws \in Worksets \union {None} /\ proc[p].todo \subseteq Id
           /\ proc[p].op \in Ops /\ proc[p].landed \in BOOLEAN
BY IdFacts DEF IInv, TypeOK, ProcRec

\* The identifiers among them are numbers.
LEMMA ProcNumbers ==
    ASSUME IInv, NEW p \in Procs
    PROVE  proc[p].id \in Nat /\ Refs(proc[p]) \subseteq Nat
<1>1. Id \union {None} \subseteq Nat
  BY IdFacts
<1>2. /\ {proc[p].id, proc[p].target, proc[p].up, proc[p].cur} \subseteq Id \union {None}
      /\ proc[p].todo \subseteq Id
  BY ProcFacts
<1> QED BY <1>1, <1>2 DEF Refs

(***************************************************************************)
(* Requests and the lock.                                                  *)
(***************************************************************************)
LEMMA ArriveStep ==
    ASSUME IInv, NEW p \in Procs, NEW r \in ProcRec, Arrive(p, r),
           r.op # "none", r.pc = "lock", r.ws \in Worksets,
           r.target \in DOMAIN rows \union {None},
           r.target # None => rows[r.target].ws = r.ws,
           r.op \in Removes => r.target # None,
           r.up = None, r.cur = None, r.id = None, r.todo = {},
           sweep' \subseteq Worksets
    PROVE  IInv'
<1>1. None \notin DOMAIN rows /\ 0 < next /\ \A i \in DOMAIN rows : i < next
  BY IdFacts DEF IInv, TypeOK
<1>2. Refs(r) \subseteq DOMAIN rows \union {None}
  BY DEF Refs
<1>3. Sound(r, rows, next)
  BY <1>1, <1>2 DEF Sound
<1>4. Move(p, r) /\ phase = "serving"
  BY DEF Arrive, At
<1> QED BY <1>2, <1>3, <1>4, StayStep, ProcFacts DEF Arrive

\* A restore or a prune is decoded.
LEMMA RequestStep ==
    ASSUME IInv, NEW c \in Clients, Request(c)
    PROVE  IInv'
<1>0. c \in Procs /\ sweep \subseteq Worksets
  BY ProcFacts DEF Procs
<1>1. ASSUME NEW w \in Worksets, NEW op \in Writes, CreateSnapshot(c, w, op)
      PROVE  IInv'
  <2> DEFINE r == [Idle EXCEPT !.op = op, !.pc = "lock", !.ws = w]
  <2>1. /\ r \in ProcRec /\ r.op \in Writes /\ r.pc = "lock" /\ r.ws = w /\ r.target = None
        /\ r.up = None /\ r.cur = None /\ r.id = None /\ r.todo = {}
    BY DEF Idle, ProcRec, Pcs, Ops, Writes
  <2>2. Arrive(c, r) /\ sweep' \subseteq Worksets
    BY <1>0, <1>1 DEF CreateSnapshot
  <2> HIDE DEF r
  <2> QED BY <1>0, <2>1, <2>2, ArriveStep DEF Writes, Removes
<1>2. ASSUME NEW t \in DOMAIN rows, NEW op \in Removes \union {"restore"},
             RestoreOrPrune(c, t, op)
      PROVE  IInv'
  <2> DEFINE r == [Idle EXCEPT !.op = op, !.pc = "lock", !.ws = rows[t].ws, !.target = t]
  <2>1. rows[t].ws \in Worksets /\ t \in Id /\ t # None
    BY IdFacts DEF IInv, TypeOK, Row
  <2>2. /\ r \in ProcRec /\ r.op # "none" /\ r.pc = "lock" /\ r.ws = rows[t].ws
        /\ r.target = t /\ r.up = None /\ r.cur = None /\ r.id = None /\ r.todo = {}
    BY <2>1, IdFacts DEF Idle, ProcRec, Pcs, Ops, Removes
  <2>3. Arrive(c, r) /\ sweep' \subseteq Worksets
    BY <1>0, <1>2 DEF RestoreOrPrune
  <2> HIDE DEF r
  <2> QED BY <1>0, <2>1, <2>2, <2>3, ArriveStep
<1> QED BY <1>1, <1>2 DEF Request

\* The timer's pass turns to a workset.
LEMMA PruneAllStep ==
    ASSUME IInv, NEW w \in Worksets, PruneAll(w)
    PROVE  IInv'
<1> DEFINE r == [Idle EXCEPT !.op = "retain", !.pc = "lock", !.ws = w]
<1>1. /\ r \in ProcRec /\ r.op = "retain" /\ r.pc = "lock" /\ r.ws = w /\ r.target = None
      /\ r.up = None /\ r.cur = None /\ r.id = None /\ r.todo = {}
  BY DEF Idle, ProcRec, Pcs, Ops
<1>2. Timer \in Procs /\ Arrive(Timer, r) /\ sweep' \subseteq Worksets
  BY ProcFacts DEF Procs, PruneAll
<1> HIDE DEF r
<1> QED BY <1>1, <1>2, ArriveStep DEF Removes

\* The timer begins a pass.
LEMMA TimerTicksStep ==
    ASSUME IInv, TimerTicks
    PROVE  IInv'
<1>1. TypeOK'
  BY DEF IInv, TypeOK, TimerTicks
<1> QED BY <1>1 DEF IInv, TimerTicks, GraphIntact, Fresh, RecSound, Sound

\* A goroutine gets its lock.
LEMMA LockStep ==
    ASSUME IInv, NEW p \in Procs, Lock(p)
    PROVE  IInv'
<1>1. phase = "serving" /\ proc[p].pc = "lock" /\ GoTo(p, Entry(proc[p].op))
  BY DEF Lock, At
<1>2. proc[p].op \in Ops \ {"none"}
  BY <1>1, ProcFacts DEF Sound
<1>3. /\ Entry(proc[p].op) \in {"begin", "select", "list"}
      /\ Entry(proc[p].op) = "select" => proc[p].op \in Removes
  BY <1>2 DEF Entry, Ops, Writes, Removes
<1>4. lock' \in [Worksets -> Procs \union {None}]
  BY ProcFacts DEF Lock
<1> QED BY <1>1, <1>3, <1>4, GoToStep, ProcFacts DEF Lock, Pcs
(***************************************************************************)
(* The steps under the lock that leave the table alone.                    *)
(***************************************************************************)
LEMMA StopStep ==
    ASSUME IInv, NEW p \in Procs, phase = "serving", proc[p].pc # "idle", Stop(p)
    PROVE  IInv'
BY ProcFacts, GoToStep DEF Stop, Pcs

\* A goroutine that does nothing refers to nothing.
LEMMA IdleIsSound ==
    ASSUME IInv
    PROVE  Idle \in ProcRec /\ Idle.pc = "idle" /\ Refs(Idle) = {None} /\ Sound(Idle, rows, next)
<1>1. /\ Idle \in ProcRec /\ Idle.pc = "idle" /\ Refs(Idle) = {None}
      /\ Idle.target = None /\ Idle.op = "none" /\ Idle.id = None
  BY DEF Idle, ProcRec, Ops, Pcs, Refs
<1>2. None \notin DOMAIN rows /\ next \in Nat \ {0}
  BY IdFacts DEF IInv, TypeOK
<1> QED BY <1>1, <1>2 DEF Sound, Removes

\* A goroutine gives its lock back.
LEMMA UnlockStep ==
    ASSUME IInv, NEW p \in Procs, Unlock(p)
    PROVE  IInv'
<1>1. lock' \in [Worksets -> Procs \union {None}]
  BY ProcFacts DEF Unlock
<1> QED BY <1>1, IdleIsSound, StayStep, ProcFacts DEF Unlock, At

\* A call that fails ends or goes on.
LEMMA GiveUpStep ==
    ASSUME IInv, NEW p \in Procs, phase = "serving", proc[p].pc # "idle", GiveUpWrite(p),
           disk' \in [Id -> Handle], UNCHANGED <<rows, next, lock, sweep>>
    PROVE  IInv'
<1> DEFINE pc == AfterFailedWrite(proc[p])
           r == [proc[p] EXCEPT !.pc = pc, !.id = None, !.up = None]
<1>1. pc \in {"restore", "unlock"}
  BY DEF AfterFailedWrite
<1> HIDE DEF pc
<1>2. proc[p] \in ProcRec /\ Sound(proc[p], rows, next)
  BY ProcFacts
<1>3. /\ r \in ProcRec /\ r.pc = pc /\ r.ws = proc[p].ws /\ r.op = proc[p].op
      /\ r.target = proc[p].target /\ r.id = None
      /\ Refs(r) \subseteq Refs(proc[p]) \union {None}
  BY <1>1, <1>2 DEF ProcRec, Pcs, Refs
<1>4. Sound(r, rows, next)
  BY <1>1, <1>2, <1>3, ProcFacts DEF Sound
<1>5. Move(p, r)
  BY DEF GiveUpWrite, pc
<1> HIDE DEF r
<1> QED BY <1>1, <1>3, <1>4, <1>5, StayStep, ProcFacts

\* A create is refused before it makes anything.
LEMMA RefuseCreateStep ==
    ASSUME IInv, NEW p \in Procs, RefuseCreate(p)
    PROVE  IInv'
BY ProcFacts, GiveUpStep DEF RefuseCreate, At

\* A handle is complete.
LEMMA EndCreateStep ==
    ASSUME IInv, NEW p \in Procs, EndCreate(p)
    PROVE  IInv'
<1>1. disk' \in [Id -> Handle]
  BY ProcFacts DEF EndCreate, Handle
<1> QED BY <1>1, ProcFacts, GoToStep DEF EndCreate, At, Pcs

\* A handle could not be made.
LEMMA FailCreateStep ==
    ASSUME IInv, NEW p \in Procs, FailCreate(p)
    PROVE  IInv'
<1>1. disk' \in [Id -> Handle]
  BY ProcFacts DEF FailCreate, Handle
<1> QED BY <1>1, ProcFacts, GiveUpStep DEF FailCreate, At

\* Its row could not be written.
LEMMA FailPutStep ==
    ASSUME IInv, NEW p \in Procs, FailPut(p)
    PROVE  IInv'
<1>1. disk' \in [Id -> Handle]
  BY ProcFacts DEF FailPut, Handle
<1> QED BY <1>1, ProcFacts, GiveUpStep DEF FailPut, At

\* A restore has landed.
LEMMA EngineRestoreStep ==
    ASSUME IInv, NEW p \in Procs, EngineRestore(p)
    PROVE  IInv'
<1> DEFINE r == [proc[p] EXCEPT !.pc = "begin", !.landed = TRUE, !.id = None]
<1>1. proc[p] \in ProcRec /\ Sound(proc[p], rows, next) /\ proc[p].pc = "restore"
  BY ProcFacts DEF EngineRestore, At
<1>2. /\ r \in ProcRec /\ r.pc = "begin" /\ r.ws = proc[p].ws /\ r.op = proc[p].op
      /\ r.target = proc[p].target /\ r.id = None /\ Refs(r) = Refs(proc[p])
  BY <1>1 DEF ProcRec, Pcs, Refs
<1>3. Sound(r, rows, next)
  BY <1>1, <1>2, ProcFacts DEF Sound
<1>4. Move(p, r) /\ phase = "serving"
  BY DEF EngineRestore, At
<1> HIDE DEF r
<1> QED BY <1>2, <1>3, <1>4, StayStep, ProcFacts DEF EngineRestore

\* A restore has failed.
LEMMA FailRestoreStep ==
    ASSUME IInv, NEW p \in Procs, FailRestore(p)
    PROVE  IInv'
BY ProcFacts, GoToStep DEF FailRestore, At, Pcs

\* The rows chosen for removal stand, but for the target of a prune, which
\* may be gone since it was read.
LEMMA ChooseStep ==
    ASSUME IInv, NEW p \in Procs, phase = "serving", proc[p].pc # "idle",
           NEW S \in SUBSET Id, S \subseteq DOMAIN rows \union {proc[p].target}, Choose(p, S)
    PROVE  IInv'
<1> DEFINE r == [proc[p] EXCEPT !.pc = "free", !.todo = S]
<1>1. proc[p] \in ProcRec /\ Sound(proc[p], rows, next)
  BY ProcFacts
<1>2. /\ r \in ProcRec /\ r.pc = "free" /\ r.ws = proc[p].ws /\ r.op = proc[p].op
      /\ r.target = proc[p].target /\ r.id = proc[p].id
      /\ Refs(r) \subseteq Refs(proc[p]) \union DOMAIN rows
  BY <1>1 DEF ProcRec, Pcs, Refs
<1>3. Sound(r, rows, next)
  BY <1>1, <1>2 DEF Sound, IInv
<1>4. Move(p, r)
  BY DEF Choose
<1> HIDE DEF r
<1> QED BY <1>2, <1>3, <1>4, StayStep, ProcFacts DEF Choose

\* Retention lists what it may take.
LEMMA ListExcessStep ==
    ASSUME IInv, NEW p \in Procs, ListExcess(p)
    PROVE  IInv'
<1>1. PICK keep \in Budgets : Choose(p, Excess(rows, proc[p].ws, keep))
  BY DEF ListExcess
<1>2. Excess(rows, proc[p].ws, keep) \subseteq DOMAIN rows
  BY DEF Excess, Candidates, Of
<1>3. DOMAIN rows \subseteq Id
  BY DEF IInv, TypeOK
<1> QED BY <1>1, <1>2, <1>3, ChooseStep DEF ListExcess, At

\* A prune lists what it takes.
LEMMA SelectSubtreeStep ==
    ASSUME IInv, NEW p \in Procs, SelectSubtree(p)
    PROVE  IInv'
<1>1. Subtree(rows, proc[p].target) \subseteq DOMAIN rows \union {proc[p].target}
  BY DEF Subtree
<1>2. proc[p].target \in Id
  BY ProcFacts DEF SelectSubtree, At, Sound
<1>3. DOMAIN rows \subseteq Id
  BY DEF IInv, TypeOK
<1> QED BY <1>1, <1>2, <1>3, ChooseStep DEF SelectSubtree, At

\* A handle is opened for removal.
LEMMA BeginFreeStep ==
    ASSUME IInv, NEW p \in Procs, BeginFree(p)
    PROVE  IInv'
<1>1. phase = "serving" /\ proc[p].pc = "free"
  BY DEF BeginFree, At
<1>2. PICK i \in proc[p].todo :
          /\ IsNext(proc[p], i)
          /\ disk' = [disk EXCEPT ![i] = IF @ = "absent" THEN @ ELSE "damaged"]
          /\ Move(p, [proc[p] EXCEPT !.pc = "freeing", !.cur = i,
                         !.up = IF Retains(proc[p]) THEN rows[i].parent ELSE None])
  BY DEF BeginFree
<1> DEFINE up == IF Retains(proc[p]) THEN rows[i].parent ELSE None
           r == [proc[p] EXCEPT !.pc = "freeing", !.cur = i, !.up = up]
<1>3. Retains(proc[p]) => i \in DOMAIN rows
  BY <1>2 DEF IsNext
<1>4. i \in Id
  BY ProcFacts
<1>5. /\ up \in Id \union {None} /\ up \in DOMAIN rows \union {None} /\ up < i
      /\ up \in DOMAIN rows => rows[up].ws = rows[i].ws
  BY <1>3, <1>4, IdFacts DEF IInv, TypeOK, Row, GraphIntact, Forest
<1> HIDE DEF up
<1>6. proc[p] \in ProcRec /\ Sound(proc[p], rows, next)
  BY ProcFacts
<1>7. /\ r \in ProcRec /\ r.pc = "freeing" /\ r.ws = proc[p].ws /\ r.op = proc[p].op
      /\ r.target = proc[p].target /\ r.id = proc[p].id /\ r.cur = i /\ r.up = up
      /\ Refs(r) \subseteq Refs(proc[p]) \union {up}
  BY <1>4, <1>5, <1>6 DEF ProcRec, Pcs, Refs
<1>8. up < next
  BY <1>5, ProcFacts DEF IInv
<1>9. Sound(r, rows, next)
  BY <1>1, <1>4, <1>5, <1>6, <1>7, <1>8 DEF Sound
<1>10. disk' \in [Id -> Handle] /\ Move(p, r)
  BY <1>2, ProcFacts DEF Handle, up
<1> HIDE DEF r
<1> QED BY <1>1, <1>5, <1>7, <1>9, <1>10, StayStep, ProcFacts DEF BeginFree

\* A handle is gone.
LEMMA EndFreeStep ==
    ASSUME IInv, NEW p \in Procs, EndFree(p)
    PROVE  IInv'
<1>1. disk' \in [Id -> Handle]
  BY ProcFacts DEF EndFree, Handle, Leavings
<1>2. PICK pc \in {"reparent", "drop"} : GoTo(p, pc)
  BY DEF EndFree
<1> QED BY <1>1, <1>2, ProcFacts, GoToStep DEF EndFree, At, Pcs

\* A handle will not go.
LEMMA StuckStep ==
    ASSUME IInv, NEW p \in Procs, phase = "serving", proc[p].pc # "idle", NEW i, Stuck(p, i)
    PROVE  IInv'
<1> DEFINE pc == IF Retains(proc[p]) THEN "free" ELSE "unlock"
           r == [proc[p] EXCEPT !.pc = pc, !.cur = None, !.up = None, !.todo = @ \ {i}]
<1>1. pc \in {"free", "unlock"}
  OBVIOUS
<1> HIDE DEF pc
<1>2. proc[p] \in ProcRec /\ Sound(proc[p], rows, next)
  BY ProcFacts
<1>3. /\ r \in ProcRec /\ r.pc = pc /\ r.ws = proc[p].ws /\ r.op = proc[p].op
      /\ r.target = proc[p].target /\ r.id = proc[p].id
      /\ Refs(r) \subseteq Refs(proc[p]) \union {None}
  BY <1>1, <1>2 DEF ProcRec, Pcs, Refs
<1>4. Sound(r, rows, next)
  BY <1>1, <1>2, <1>3, ProcFacts DEF Sound
<1>5. Move(p, r)
  BY DEF Stuck, pc
<1> HIDE DEF r
<1> QED BY <1>1, <1>3, <1>4, <1>5, StayStep, ProcFacts DEF Stuck
(***************************************************************************)
(* The steps that change the table or take an identifier.                  *)
(***************************************************************************)
LEMMA MoveChildrenStep ==
    ASSUME IInv, NEW p \in Procs, MoveChildren(p)
    PROVE  IInv'
<1> DEFINE me == proc[p]
           r == [me EXCEPT !.pc = "drop"]
<1>1. me \in ProcRec /\ Sound(me, rows, next) /\ me.pc = "reparent" /\ phase = "serving"
  BY ProcFacts DEF MoveChildren, At
<1>2. /\ me.cur \in Id /\ me.up \in Id \union {None} /\ me.up < me.cur
      /\ me.up \in DOMAIN rows /\ me.cur \in DOMAIN rows => rows[me.up].ws = rows[me.cur].ws
  BY <1>1, ProcFacts DEF Sound
<1>3. IsGraph(rows, Id, Worksets) /\ Forest(rows) /\ MayReparent(rows, me.cur, me.up)
  BY GraphType DEF IInv, GraphIntact, MoveChildren
<1>4. rows' = Reparent(rows, me.cur, me.up)
  BY DEF MoveChildren
<1>5. /\ IsGraph(rows', Id, Worksets) /\ DOMAIN rows' = DOMAIN rows
      /\ \A j \in DOMAIN rows' : rows'[j].ws = rows[j].ws
  BY <1>2, <1>3, <1>4, ReparentGives
<1>6. Forest(rows')
  BY <1>2, <1>3, <1>4, ReparentKeepsForest, IdFacts
<1>7. /\ r \in ProcRec /\ r.pc = "drop" /\ r.ws = me.ws /\ r.op = me.op
      /\ r.target = me.target /\ r.id = me.id /\ r.cur = me.cur /\ Refs(r) = Refs(me)
  BY <1>1 DEF ProcRec, Pcs, Refs
<1>8. Sound(r, rows, next)
  BY <1>1, <1>2, <1>7 DEF Sound
<1>9. Move(p, r)
  BY DEF MoveChildren, GoTo
<1> HIDE DEF r
<1> QED BY <1>1, <1>5, <1>6, <1>7, <1>8, <1>9, LocalStep, ProcFacts DEF MoveChildren

\* A row goes.
LEMMA DropRowStep ==
    ASSUME IInv, NEW p \in Procs, DropRow(p)
    PROVE  IInv'
<1> DEFINE me == proc[p]
           r == [me EXCEPT !.pc = "free", !.cur = None, !.up = None, !.todo = @ \ {me.cur}]
<1>1. me \in ProcRec /\ Sound(me, rows, next) /\ me.pc = "drop" /\ phase = "serving"
  BY ProcFacts DEF DropRow, At
<1>2. me.cur \in Id /\ IsGraph(rows, Id, Worksets) /\ Forest(rows) /\ MayDelete(rows, me.cur)
  BY <1>1, GraphType DEF IInv, GraphIntact, DropRow, Sound
<1>3. rows' = DeleteRow(rows, me.cur)
  BY DEF DropRow
<1>4. /\ IsGraph(rows', Id, Worksets) /\ DOMAIN rows' \subseteq DOMAIN rows
      /\ \A j \in DOMAIN rows' : rows'[j].ws = rows[j].ws
  BY <1>2, <1>3 DEF DeleteRow, IsGraph
<1>5. Forest(rows')
  BY <1>2, <1>3, DeleteKeepsForest
<1>6. /\ r \in ProcRec /\ r.pc = "free" /\ r.ws = me.ws /\ r.op = me.op
      /\ r.target = me.target /\ r.id = me.id /\ Refs(r) \subseteq Refs(me) \union {None}
  BY <1>1 DEF ProcRec, Pcs, Refs
<1>7. Sound(r, rows, next)
  BY <1>1, <1>6, ProcFacts DEF Sound
<1>8. Move(p, r)
  BY DEF DropRow
<1> HIDE DEF r
<1> QED BY <1>1, <1>4, <1>5, <1>6, <1>7, <1>8, LocalStep, ProcFacts DEF DropRow

\* The newest row of a workset is a row of it; the target of a restore is
\* older than any identifier still to come.
LEMMA ParentFacts ==
    ASSUME IInv, NEW p \in Procs
    PROVE  LET up == ParentFor(proc[p]) IN
           /\ up \in Id \union {None} /\ up \in Nat /\ up < next
           /\ up \in DOMAIN rows => rows[up].ws = proc[p].ws
           /\ up \in DOMAIN rows \union {None} \union Refs(proc[p])
<1>1. Sound(proc[p], rows, next)
  BY ProcFacts
<1>2. CASE proc[p].landed
  BY <1>1, <1>2, ProcFacts, ProcNumbers DEF ParentFor, Sound, Refs
<1>3. CASE ~proc[p].landed
  <2> DEFINE up == ParentFor(proc[p])
  <2>1. up \in DOMAIN rows \union {None} /\ (up # None => rows[up].ws = proc[p].ws)
    BY <1>3, LatestIsARow DEF Of, ParentFor
  <2>2. /\ DOMAIN rows \subseteq Id /\ DOMAIN rows \subseteq Nat /\ None \notin DOMAIN rows
        /\ \A i \in DOMAIN rows \union {None} : i < next
    BY IdFacts, ProcFacts DEF IInv, TypeOK
  <2> HIDE DEF up
  <2>3. up \in Id \union {None} /\ up \in Nat /\ up < next
    BY <2>1, <2>2
  <2>4. up \in DOMAIN rows => rows[up].ws = proc[p].ws
    BY <2>1, <2>2
  <2> QED BY <2>1, <2>3, <2>4 DEF up
<1> QED BY <1>2, <1>3

\* An identifier and the parent of the new node are chosen.
LEMMA BeginCreateStep ==
    ASSUME IInv, NEW p \in Procs, BeginCreate(p)
    PROVE  IInv'
<1> DEFINE me == proc[p]
           up == ParentFor(me)
           r == [me EXCEPT !.pc = "copy", !.id = next, !.up = up]
<1>1. /\ me \in ProcRec /\ Sound(me, rows, next) /\ me.pc = "begin" /\ phase = "serving"
      /\ next \in Id /\ next' = next + 1 /\ rows' = rows /\ lock' = lock /\ sweep' = sweep
  BY ProcFacts DEF BeginCreate, At
<1>2. /\ up \in Id \union {None} /\ up \in Nat /\ up < next
      /\ up \in DOMAIN rows => rows[up].ws = me.ws
      /\ up \in DOMAIN rows \union {None} \union Refs(me)
  BY ParentFacts
<1>3. Move(p, r)
  BY DEF BeginCreate
<1> HIDE DEF up
<1>4. /\ r \in ProcRec /\ r.pc = "copy" /\ r.ws = me.ws /\ r.op = me.op
      /\ r.target = me.target /\ r.id = next /\ r.up = up /\ r.cur = me.cur
      /\ Refs(r) \subseteq Refs(me) \union {up}
  BY <1>1, <1>2 DEF ProcRec, Pcs, Refs
<1> HIDE DEF r
<1>5. /\ proc' \in [Procs -> ProcRec] /\ proc'[p] = r
      /\ \A q \in Procs \ {p} : proc'[q] = proc[q]
      /\ phase' = phase /\ rec' = rec /\ crashes' = crashes
  BY <1>3, <1>4, MoveGives DEF IInv
<1>6. disk' \in [Id -> Handle] /\ next' \in 1..(MaxSnap + 1) /\ next \in Nat
  BY <1>1, IdFacts, ProcFacts DEF BeginCreate, Handle, Id
<1>7. TypeOK'
  BY <1>1, <1>5, <1>6 DEF IInv, TypeOK
<1>8. GraphIntact' /\ \A i \in DOMAIN rows' : i < next'
  <2>1. \A i \in DOMAIN rows : i < next + 1
    BY <1>6, IdFacts DEF IInv, TypeOK
  <2> QED BY <1>1, <2>1 DEF IInv, GraphIntact, TypeOK
<1>9. \A q \in Procs : Sound(proc'[q], rows', next')
  <2>1. SUFFICES ASSUME NEW q \in Procs PROVE Sound(proc'[q], rows, next + 1)
    BY <1>1
  <2>2. CASE q # p
    <3>1. Sound(proc[q], rows, next) /\ proc[q].id < next + 1
      BY <1>6, ProcFacts, ProcNumbers DEF Sound
    <3>2. \A j \in Refs(proc[q]) : j < next + 1
      BY <1>6, <3>1, ProcNumbers DEF Sound
    <3> QED BY <1>5, <2>2, <3>1, <3>2 DEF Sound
  <2>3. CASE q = p
    <3>1. Refs(r) \subseteq Nat
      BY <1>2, <1>4, ProcNumbers
    <3>2. \A j \in Refs(r) : j < next
      BY <1>1, <1>2, <1>4 DEF Sound
    <3>3. r.id < next + 1 /\ \A j \in Refs(r) : j < next + 1
      BY <1>4, <1>6, <3>1, <3>2
    <3>4. next \notin DOMAIN rows
      BY <1>6 DEF IInv
    <3> QED BY <1>1, <1>2, <1>4, <1>5, <2>3, <3>3, <3>4 DEF Sound
  <2> QED BY <2>2, <2>3
<1>10. Fresh'
  <2>1. \A q \in Procs : next \notin Refs(proc[q]) /\ proc[q].id # next
    BY <1>6, ProcFacts DEF Sound
  <2>2. next \notin Refs(r)
    BY <1>2, <1>4, <1>6, <2>1
  <2>3. SUFFICES ASSUME NEW q \in Procs, NEW s \in Procs, proc'[q].pc \in {"copy", "put"}
        PROVE  /\ proc'[q].id \notin Refs(proc'[s])
               /\ q # s /\ proc'[s].pc \in {"copy", "put"} => proc'[q].id # proc'[s].id
    BY DEF Fresh
  <2>4. CASE q = p
    BY <1>4, <1>5, <2>1, <2>2, <2>4
  <2>5. CASE q # p /\ s # p
    BY <1>5, <2>3, <2>5 DEF IInv, Fresh
  <2>6. CASE q # p /\ s = p
    <3>1. proc[q].id \notin Refs(me) /\ proc[q].id \notin DOMAIN rows \union {None}
      BY <1>5, <2>3, <2>6, ProcFacts, IdFacts DEF IInv, Fresh, Sound
    <3>2. proc[q].id \notin Refs(r)
      BY <1>2, <1>4, <3>1
    <3> QED BY <1>4, <1>5, <2>1, <2>6, <3>2
  <2> QED BY <2>4, <2>5, <2>6
<1>11. phase' = "serving" /\ RecSound'
  BY <1>1, <1>5 DEF RecSound
<1> QED BY <1>7, <1>8, <1>9, <1>10, <1>11 DEF IInv

\* The node is inserted under that parent, if it still stands.
LEMMA PutRowStep ==
    ASSUME IInv, NEW p \in Procs, PutRow(p)
    PROVE  IInv'
<1> DEFINE me == proc[p]
           pc == AfterWrite(me)
           r == [me EXCEPT !.pc = pc, !.up = None]
<1>1. /\ me \in ProcRec /\ Sound(me, rows, next) /\ me.pc = "put" /\ phase = "serving"
      /\ MayPut(rows, me.up)
      /\ disk' = disk /\ next' = next /\ lock' = lock /\ sweep' = sweep
  BY ProcFacts DEF PutRow, At
<1>2. /\ me.id \in Id \ DOMAIN rows /\ me.up \in Id \union {None} /\ me.up < me.id
      /\ me.up \in DOMAIN rows => rows[me.up].ws = me.ws
      /\ me.ws \in Worksets /\ me.id < next
  BY <1>1, ProcFacts DEF Sound
<1>3. PICK at \in Places(me.id) :
          rows' = PutSnapshot(rows, me.id,
                     [ws |-> me.ws, parent |-> me.up, auto |-> me.op # "manual", at |-> at])
  BY DEF PutRow
<1> DEFINE row == [ws |-> me.ws, parent |-> me.up, auto |-> me.op # "manual", at |-> at]
<1>4. row \in Row(Id, Worksets) /\ row.parent = me.up /\ row.ws = me.ws
  BY <1>2, <1>3 DEF Row, Places
<1>5. IsGraph(rows, Id, Worksets) /\ Forest(rows)
  BY GraphType DEF IInv, GraphIntact
<1> HIDE DEF row
<1>6. /\ IsGraph(rows', Id, Worksets) /\ DOMAIN rows' = DOMAIN rows \union {me.id}
      /\ rows'[me.id] = row /\ \A j \in DOMAIN rows : rows'[j] = rows[j]
  <2>1. rows' = PutSnapshot(rows, me.id, row)
    BY <1>3 DEF row
  <2> QED BY <1>2, <1>4, <1>5, <2>1 DEF PutSnapshot, IsGraph
<1>7. Forest(rows')
  BY <1>1, <1>2, <1>3, <1>4, <1>5, IdFacts, PutKeepsForest DEF row
<1>8. Move(p, r)
  BY DEF PutRow
<1>9. pc \in {"list", "unlock", "restore"}
  BY DEF AfterWrite
<1> HIDE DEF pc
<1>10. /\ r \in ProcRec /\ r.pc = pc /\ r.ws = me.ws /\ r.op = me.op
       /\ r.target = me.target /\ r.id = me.id
       /\ Refs(r) \subseteq Refs(me) \union {None}
  BY <1>1, <1>9 DEF ProcRec, Pcs, Refs
<1> HIDE DEF r
<1>11. /\ proc' \in [Procs -> ProcRec] /\ proc'[p] = r
       /\ \A q \in Procs \ {p} : proc'[q] = proc[q]
       /\ phase' = phase /\ rec' = rec /\ crashes' = crashes
  BY <1>8, <1>10, MoveGives DEF IInv
<1>12. TypeOK'
  BY <1>1, <1>6, <1>11 DEF IInv, TypeOK, IsGraph
<1>13. GraphIntact' /\ \A i \in DOMAIN rows' : i < next'
  BY <1>1, <1>2, <1>6, <1>7 DEF IInv, GraphIntact
<1>14. \A q \in Procs : Sound(proc'[q], rows', next')
  <2>1. SUFFICES ASSUME NEW q \in Procs PROVE Sound(proc'[q], rows', next)
    BY <1>1
  <2>2. CASE q # p
    <3>1. Sound(proc[q], rows, next) /\ me.id \notin Refs(proc[q])
      BY <1>1, ProcFacts DEF IInv, Fresh
    <3>2. proc[q].target # me.id /\ proc[q].up # me.id /\ proc[q].cur # me.id
      BY <3>1 DEF Refs
    <3>3. proc[q].pc \in {"copy", "put"} => proc[q].id # me.id
      BY <1>1, <2>2 DEF IInv, Fresh
    <3> QED BY <1>6, <1>11, <2>2, <3>1, <3>2, <3>3 DEF Sound
  <2>3. CASE q = p
    <3>1. me.id # me.target
      BY <1>1 DEF IInv, Fresh, Refs
    <3> QED BY <1>1, <1>6, <1>9, <1>10, <1>11, <2>3, <3>1, ProcFacts DEF Sound
  <2> QED BY <2>2, <2>3
<1>15. Fresh'
  <2>1. SUFFICES ASSUME NEW q \in Procs, NEW s \in Procs, proc'[q].pc \in {"copy", "put"}
        PROVE  /\ proc'[q].id \notin Refs(proc'[s])
               /\ q # s /\ proc'[s].pc \in {"copy", "put"} => proc'[q].id # proc'[s].id
    BY DEF Fresh
  <2>2. q # p /\ proc'[q] = proc[q] /\ proc[q].id \in Id
    BY <1>9, <1>10, <1>11, <2>1, ProcFacts DEF Sound
  <2>3. proc[q].id \notin Refs(proc[s]) /\ proc[q].id # None
    BY <2>1, <2>2, IdFacts DEF IInv, Fresh
  <2>4. CASE s = p
    BY <1>9, <1>10, <1>11, <2>2, <2>3, <2>4
  <2>5. CASE s # p
    BY <1>11, <2>1, <2>2, <2>3, <2>5 DEF IInv, Fresh
  <2> QED BY <2>4, <2>5
<1>16. phase' = "serving" /\ RecSound'
  BY <1>1, <1>11 DEF RecSound
<1> QED BY <1>12, <1>13, <1>14, <1>15, <1>16 DEF IInv
(***************************************************************************)
(* A step of a goroutine.                                                  *)
(***************************************************************************)
LEMMA WorkStep ==
    ASSUME IInv, NEW p \in Procs, Work(p)
    PROVE  IInv'
<1>1. CASE BeginCreate(p) \/ RefuseCreate(p) \/ EndCreate(p) \/ FailCreate(p)
  BY <1>1, BeginCreateStep, RefuseCreateStep, EndCreateStep, FailCreateStep
<1>2. CASE PutRow(p) \/ FailPut(p) \/ EngineRestore(p) \/ FailRestore(p)
  BY <1>2, PutRowStep, FailPutStep, EngineRestoreStep, FailRestoreStep
<1>3. CASE ListExcess(p) \/ SelectSubtree(p) \/ BeginFree(p) \/ EndFree(p)
  BY <1>3, ListExcessStep, SelectSubtreeStep, BeginFreeStep, EndFreeStep
<1>4. CASE SkipRetention(p) \/ RefusePrune(p)
  BY <1>4, StopStep DEF SkipRetention, RefusePrune, At
<1>5. CASE FailReread(p) \/ FailMoveChildren(p) \/ FailDrop(p) \/ FinishRemoval(p)
  BY <1>5, StopStep DEF FailReread, FailMoveChildren, FailDrop, FinishRemoval, At
<1>6. CASE RefuseFree(p)
  <2>1. PICK i \in proc[p].todo : Stuck(p, i)
    BY <1>6 DEF RefuseFree
  <2> QED BY <1>6, <2>1, StuckStep DEF RefuseFree, At
<1>7. CASE FailFree(p)
  BY <1>7, StuckStep DEF FailFree, At
<1>8. CASE MoveChildren(p) \/ DropRow(p) \/ Unlock(p)
  BY <1>8, MoveChildrenStep, DropRowStep, UnlockStep
<1> QED BY <1>1, <1>2, <1>3, <1>4, <1>5, <1>6, <1>7, <1>8 DEF Work

(***************************************************************************)
(* The daemon's life.                                                      *)
(***************************************************************************)
LEMMA CrashStep ==
    ASSUME IInv, Crash
    PROVE  IInv'
<1>1. /\ rows' = rows /\ next' = next /\ phase' = "down"
      /\ \A q \in Procs : proc'[q] = Idle
  BY DEF Crash
<1>2. TypeOK'
  <2>1. lock' \in [Worksets -> Procs \union {None}] /\ sweep' \subseteq Worksets
    BY DEF Crash
  <2>2. proc' \in [Procs -> ProcRec]
    BY IdleIsSound DEF Crash
  <2>3. rec' \in RecRec
    BY DEF Crash, NothingSeen, RecRec
  <2>4. crashes' \in 0..MaxCrashes
    BY BoundsAssumption DEF Crash, IInv, TypeOK
  <2>5. disk' = disk /\ phase' \in Phases
    BY DEF Crash, Phases
  <2> QED BY <1>1, <2>1, <2>2, <2>3, <2>4, <2>5 DEF IInv, TypeOK
<1>3. GraphIntact' /\ \A i \in DOMAIN rows' : i < next'
  BY <1>1 DEF IInv, GraphIntact
<1>4. \A q \in Procs : Sound(proc'[q], rows', next')
  BY <1>1, IdleIsSound
<1>5. \A q \in Procs : proc'[q].pc = "idle"
  BY <1>1, IdleIsSound
<1>6. Fresh' /\ RecSound'
  BY <1>1, <1>5 DEF Fresh, RecSound
<1> QED BY <1>2, <1>3, <1>4, <1>5, <1>6 DEF IInv

\* A step of a start: no goroutine runs, no row is added, and no row changes
\* its workset.
LEMMA BootStep ==
    ASSUME IInv, phase # "serving", phase' \in Phases, rec' \in RecRec, RecSound',
           IsGraph(rows', Id, Worksets), Forest(rows'),
           DOMAIN rows' \subseteq DOMAIN rows, \A j \in DOMAIN rows' : rows'[j].ws = rows[j].ws,
           disk' \in [Id -> Handle],
           UNCHANGED <<next, lock, proc, sweep, crashes>>
    PROVE  IInv'
<1>1. TypeOK'
  BY DEF IInv, TypeOK, IsGraph
<1>2. GraphIntact' /\ \A i \in DOMAIN rows' : i < next'
  BY DEF IInv, GraphIntact
<1>3. \A q \in Procs : Sound(proc'[q], rows', next')
  <2>1. TAKE q \in Procs
  <2>2. Sound(proc[q], rows, next)
    BY DEF IInv
  <2>3. Sound(proc[q], rows', next)
    BY <2>2, SoundShrinks
  <2> QED BY <2>3
<1>4. Fresh'
  BY DEF IInv, Fresh
<1>5. \A q \in Procs : proc'[q].pc = "idle"
  BY DEF IInv
<1> QED BY <1>1, <1>2, <1>3, <1>4, <1>5 DEF IInv

\* The types of Reconcile's locals.
LEMMA RecFacts ==
    ASSUME IInv
    PROVE  /\ rec \in RecRec /\ rec.known \subseteq Id /\ rec.missing \subseteq Id
           /\ rec.parent \in [Id -> Id \union {None}] /\ rec.cur \in Id \union {None}
           /\ disk \in [Id -> Handle] /\ DOMAIN rows \subseteq Id
           /\ IsGraph(rows, Id, Worksets) /\ Forest(rows)
           /\ NothingSeen \in RecRec
BY GraphType DEF IInv, TypeOK, GraphIntact, RecRec, NothingSeen

\* The steps that only change the phase.
LEMMA PhaseStep ==
    ASSUME IInv, phase # "serving", NEW to \in Phases \ {"rows", "drop"},
           Daemon(to, NothingSeen), UNCHANGED <<rows, disk>>
    PROVE  IInv'
<1>1. phase' = to /\ rec' = NothingSeen /\ RecSound'
  BY DEF Daemon, RecSound
<1> QED BY <1>1, RecFacts, BootStep DEF Daemon

\* Reconcile lists the rows without a handle.
LEMMA ReconcileScanStep ==
    ASSUME IInv, ReconcileScan
    PROVE  IInv'
<1>1. PICK lost \in (IF Fails("verify") THEN SUBSET Lost ELSE {Lost}) :
          Daemon("rows", [known   |-> DOMAIN rows,
                          parent  |-> [i \in Id |-> IF i \in DOMAIN rows
                                                    THEN rows[i].parent ELSE None],
                          missing |-> Absent \union lost,
                          cur     |-> None])
  BY DEF ReconcileScan
<1> DEFINE parent == [i \in Id |-> IF i \in DOMAIN rows THEN rows[i].parent ELSE None]
<1>2. lost \subseteq DOMAIN rows /\ Absent \subseteq DOMAIN rows
  BY DEF Lost, Absent
<1>3. \A i \in DOMAIN rows : rows[i].parent \in Id \union {None}
  BY DEF IInv, TypeOK, Row
<1>4. parent \in [Id -> Id \union {None}] /\ \A i \in DOMAIN rows : parent[i] = rows[i].parent
  BY <1>3, RecFacts
<1> HIDE DEF parent
<1>5. /\ rec' = [known |-> DOMAIN rows, parent |-> parent, missing |-> Absent \union lost,
                 cur |-> None]
      /\ phase' = "rows" /\ rows' = rows /\ disk' = disk /\ phase = "scan"
      /\ UNCHANGED <<next, lock, proc, sweep, crashes>>
  BY <1>1 DEF Daemon, parent, ReconcileScan
<1>6. rec' \in RecRec
  BY <1>2, <1>4, <1>5, RecFacts DEF RecRec
<1>7. RecSound'
  <2>1. \A i \in DOMAIN rows :
            /\ rows[i].parent < i
            /\ rows[i].parent \in DOMAIN rows => rows[rows[i].parent].ws = rows[i].ws
    <3>1. DOMAIN rows \subseteq Nat \ {0} /\ Forest(rows)
      BY RecFacts, IdFacts
    <3> QED BY <3>1 DEF Forest
  <2>2. rec'.missing = Absent \union lost /\ rec'.parent = parent
    BY <1>5
  <2>3. rec'.missing \subseteq DOMAIN rows
    BY <1>2, <2>2
  <2>4. \A i \in rec'.missing : rec'.parent[i] = rows[i].parent
    BY <1>4, <2>2, <2>3
  <2> QED BY <1>5, <2>1, <2>3, <2>4 DEF RecSound
<1> QED BY <1>5, <1>6, <1>7, RecFacts, BootStep DEF Phases

\* It hands the children of one to its parent.
LEMMA ReconcileReparentStep ==
    ASSUME IInv, ReconcileReparent
    PROVE  IInv'
<1>1. PICK i \in rec.missing :
          /\ MayReparent(rows, i, rec.parent[i])
          /\ rows' = Reparent(rows, i, rec.parent[i])
          /\ Daemon("drop", [rec EXCEPT !.cur = i])
  BY DEF ReconcileReparent
<1>2. phase = "rows" /\ disk' = disk
  BY DEF ReconcileReparent
<1> DEFINE up == rec.parent[i]
<1>3. /\ i \in Id /\ up \in Id \union {None} /\ up < i
      /\ up \in DOMAIN rows /\ i \in DOMAIN rows => rows[up].ws = rows[i].ws
      /\ MayReparent(rows, i, up) /\ rows' = Reparent(rows, i, up)
  BY <1>1, <1>2, RecFacts DEF IInv, RecSound
<1> HIDE DEF up
<1>4. /\ IsGraph(rows', Id, Worksets) /\ DOMAIN rows' = DOMAIN rows
      /\ \A j \in DOMAIN rows' : rows'[j].ws = rows[j].ws
  <2>1. IsGraph(rows, Id, Worksets)
    BY RecFacts
  <2> QED BY <1>3, <2>1, ReparentGives
<1>5. Forest(rows')
  BY <1>3, RecFacts, IdFacts, ReparentKeepsForest
<1>6. /\ rec' \in RecRec /\ rec'.missing = rec.missing /\ rec'.parent = rec.parent
      /\ rec'.cur = i /\ phase' = "drop"
  BY <1>1, <1>3, RecFacts DEF Daemon, RecRec
<1>7. RecSound'
  BY <1>2, <1>3, <1>4, <1>6 DEF IInv, RecSound
<1>8. UNCHANGED <<next, lock, proc, sweep, crashes>>
  BY <1>1 DEF Daemon
<1> QED BY <1>2, <1>4, <1>5, <1>6, <1>7, <1>8, RecFacts, BootStep DEF Phases

\* It drops one.
LEMMA ReconcileDropStep ==
    ASSUME IInv, ReconcileDrop
    PROVE  IInv'
<1>1. /\ phase = "drop" /\ disk' = disk /\ MayDelete(rows, rec.cur)
      /\ rows' = DeleteRow(rows, rec.cur)
      /\ Daemon("rows", [rec EXCEPT !.missing = @ \ {rec.cur}, !.cur = None])
  BY DEF ReconcileDrop
<1>2. rec.cur \in Id
  BY <1>1 DEF IInv, RecSound
<1>3. /\ IsGraph(rows', Id, Worksets) /\ DOMAIN rows' = DOMAIN rows \ {rec.cur}
      /\ \A j \in DOMAIN rows' : rows'[j] = rows[j]
  BY <1>1, RecFacts DEF DeleteRow, IsGraph
<1>4. Forest(rows')
  BY <1>1, <1>2, RecFacts, DeleteKeepsForest
<1>5. /\ rec' \in RecRec /\ rec'.missing = rec.missing \ {rec.cur} /\ rec'.parent = rec.parent
      /\ phase' = "rows"
  BY <1>1, RecFacts DEF Daemon, RecRec
<1>6. RecSound'
  BY <1>1, <1>3, <1>5 DEF IInv, RecSound
<1>7. UNCHANGED <<next, lock, proc, sweep, crashes>>
  BY <1>1 DEF Daemon
<1> QED BY <1>1, <1>3, <1>4, <1>5, <1>6, <1>7, RecFacts, BootStep DEF Phases

\* It removes a handle without a row.
LEMMA ReconcileHandleStep ==
    ASSUME IInv, ReconcileHandle
    PROVE  IInv'
<1>1. PICK i \in Id, left \in Leavings :
         /\ disk' = [disk EXCEPT ![i] = left]
         /\ Daemon("rows", [rec EXCEPT !.known = @ \union {i}])
  BY DEF ReconcileHandle, Orphans
<1>2. disk' \in [Id -> Handle] /\ rows' = rows /\ phase = "rows"
  BY <1>1, RecFacts DEF ReconcileHandle, Handle, Leavings
<1>3. /\ phase' = "rows" /\ rec' = [rec EXCEPT !.known = @ \union {i}]
      /\ UNCHANGED <<next, lock, proc, sweep, crashes>>
  BY <1>1 DEF Daemon
<1>4. /\ rec' \in RecRec /\ rec'.missing = rec.missing /\ rec'.parent = rec.parent
      /\ rec'.cur = rec.cur
  BY <1>3, RecFacts DEF RecRec
<1>5. RecSound'
  BY <1>2, <1>3, <1>4 DEF IInv, RecSound
<1> QED BY <1>2, <1>3, <1>4, <1>5, RecFacts, BootStep DEF Phases

\* Every step keeps the invariant.
LEMMA NextIInv == IInv /\ [Next]_vars => IInv'
<1> SUFFICES ASSUME IInv, [Next]_vars PROVE IInv'
  OBVIOUS
<1>1. CASE \E c \in Clients : Request(c)
  BY <1>1, RequestStep
<1>2. CASE TimerTicks
  BY <1>2, TimerTicksStep
<1>3. CASE \E w \in Worksets : PruneAll(w)
  BY <1>3, PruneAllStep
<1>4. CASE \E p \in Procs : Lock(p) \/ Work(p)
  BY <1>4, LockStep, WorkStep
<1>5. CASE Boot
  <2>1. CASE Start
    BY <2>1, PhaseStep DEF Start, Phases
  <2>2. CASE ReconcileRefuses \/ ReconcileRowFails \/ ReconcileHandleFails
    BY <2>2, PhaseStep DEF ReconcileRefuses, ReconcileRowFails, ReconcileHandleFails, Phases
  <2>3. CASE Serve
    BY <2>3, PhaseStep DEF Serve, Phases
  <2> QED BY <1>5, <2>1, <2>2, <2>3, ReconcileScanStep, ReconcileReparentStep,
             ReconcileDropStep, ReconcileHandleStep DEF Boot
<1>6. CASE Crash
  BY <1>6, CrashStep
<1>7. CASE UNCHANGED vars
  BY <1>7 DEF vars, IInv, TypeOK, GraphIntact, Fresh, RecSound
<1> QED BY <1>1, <1>2, <1>3, <1>4, <1>5, <1>6, <1>7 DEF Next

(***************************************************************************)
(* Every variable keeps its type, whatever the constants: TypeOK of the    *)
(* service in all its interleavings, crashes and failures.                 *)
(***************************************************************************)
THEOREM TypeCorrect == Spec => []TypeOK
<1>1. IInv => TypeOK
  BY DEF IInv
<1> QED BY <1>1, InitIInv, NextIInv, PTL DEF Spec

(***************************************************************************)
(* The snapshot graph is a forest in every reachable state: whatever the   *)
(* requests, the timer, crashes, failed calls and Reconcile do to it, a    *)
(* parent link names an earlier row of the same workset that stands, so    *)
(* the walks of store.ManualAncestors, Ancestors and Subtree end.          *)
(***************************************************************************)
THEOREM GraphStaysIntact == Spec => []GraphIntact
<1>1. IInv => GraphIntact
  BY DEF IInv
<1> QED BY <1>1, InitIInv, NextIInv, PTL DEF Spec
==============================================================================
