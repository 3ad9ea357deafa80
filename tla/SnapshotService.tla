--------------------------- MODULE SnapshotService ---------------------------
(***************************************************************************)
(* The daemon of cmd/snapshotd over internal/api, internal/store and the   *)
(* directory handles of internal/engine: requests that create, restore and *)
(* prune snapshots, the retention timer, a crash at any point, and the     *)
(* reconciliation a start runs before it serves.                           *)
(*                                                                         *)
(* One process is one goroutine: an HTTP request or the retention timer.   *)
(* A step is one call on the store or the engine, since those are the      *)
(* points where the goroutines interleave and where a crash can fall.  An  *)
(* engine call that writes or removes a handle takes two steps, so that a  *)
(* crash can fall inside it.                                               *)
(***************************************************************************)
EXTENDS SnapshotGraph

CONSTANTS
    Worksets,     \* worksets declared before the daemon starts
    Clients,      \* goroutines that serve requests
    Timer,        \* the goroutine of RunRetention
    MaxSnap,      \* bound: identifiers ulid.New hands out in a behaviour
    AutoKeep,     \* -auto-keep; 0 turns retention off
    ProviderMax,  \* copies the provider holds; 0 on a backend with no provider
    ClockSteps,   \* TRUE when the wall clock may be set back
    MaxCrashes,   \* bound: crashes in a behaviour
    Faults        \* the calls that may fail, of FaultKinds

FaultKinds == {"create", "delete", "restore", "store", "budget", "verify"}

Procs == Clients \union {Timer}
Id == 1..MaxSnap

ASSUME BoundsAssumption ==
    /\ MaxSnap \in Nat
    /\ AutoKeep \in Nat
    /\ ProviderMax \in Nat
    /\ MaxCrashes \in Nat
    /\ ClockSteps \in BOOLEAN
    /\ Faults \subseteq FaultKinds

ASSUME ProcsAssumption == Timer \notin Clients /\ None \notin Procs

VARIABLES
    rows,      \* the snapshots table, see SnapshotGraph
    disk,      \* what the snapshot root holds under each identifier
    next,      \* the identifier ulid.New returns next
    lock,      \* holder of each workset's mutex, None when it is free
    proc,      \* what each goroutine is doing
    sweep,     \* worksets the timer's pass has still to visit
    phase,     \* the daemon process
    rec,       \* the locals of Reconcile
    crashes    \* crashes so far

vars == <<rows, disk, next, lock, proc, sweep, phase, rec, crashes>>

(***************************************************************************)
(* A handle directory: not there; begun and without a manifest; complete;  *)
(* partly removed; or, on a backend whose storage belongs to a provider, a *)
(* directory whose snapshot the provider has deleted.                      *)
(***************************************************************************)
Handle == {"absent", "partial", "whole", "damaged", "hollow"}

Idle == [op |-> "none", pc |-> "idle", ws |-> None, target |-> None, landed |-> FALSE,
         id |-> None, up |-> None, cur |-> None, todo |-> {}]

NothingSeen == [known |-> {}, parent |-> [i \in Id |-> None], missing |-> {}, cur |-> None]

Init ==
    /\ rows = [i \in {} |-> None]
    /\ disk = [i \in Id |-> "absent"]
    /\ next = 1
    /\ lock = [w \in Worksets |-> None]
    /\ proc = [p \in Procs |-> Idle]
    /\ sweep = {}
    /\ phase = "down"
    /\ rec = NothingSeen
    /\ crashes = 0

Fails(kind) == kind \in Faults

\* The locals of one goroutine change; nothing of the daemon's life does.
Move(p, r) == proc' = [proc EXCEPT ![p] = r] /\ UNCHANGED <<phase, rec, crashes>>
GoTo(p, pc) == Move(p, [proc[p] EXCEPT !.pc = pc])
At(p, pc) == phase = "serving" /\ proc[p].pc = pc

-----------------------------------------------------------------------------
(***************************************************************************)
(* Requests.  What a handler reads before it waits for the lock is in the  *)
(* same step as its arrival: the wait follows at once.                     *)
(***************************************************************************)
Writes == {"auto", "manual"}
Removes == {"prune", "cascade"}

Arrive(p, r) ==
    /\ At(p, "idle")
    /\ Move(p, r)
    /\ UNCHANGED <<rows, disk, next, lock>>

CreateSnapshot(c, w, op) ==
    /\ Arrive(c, [Idle EXCEPT !.op = op, !.pc = "lock", !.ws = w])
    /\ UNCHANGED sweep

RestoreOrPrune(c, target, op) ==
    /\ Arrive(c, [Idle EXCEPT !.op = op, !.pc = "lock", !.ws = rows[target].ws,
                              !.target = target])
    /\ UNCHANGED sweep

\* A tick starts a pass over every workset, and a pass takes one at a time.
TimerTicks ==
    /\ At(Timer, "idle")
    /\ AutoKeep > 0 /\ sweep = {}
    /\ sweep' = Worksets
    /\ UNCHANGED <<rows, disk, next, lock, proc, phase, rec, crashes>>

\* Mutant of PruneAll: the pass does not move on to its next workset.
PruneAllStays(w) ==
    /\ w \in sweep
    /\ Arrive(Timer, [Idle EXCEPT !.op = "retain", !.pc = "lock", !.ws = w])
    /\ UNCHANGED sweep

PruneAll(w) ==
    /\ w \in sweep
    /\ Arrive(Timer, [Idle EXCEPT !.op = "retain", !.pc = "lock", !.ws = w])
    /\ sweep' = sweep \ {w}

\* The first step under the lock.
Entry(op) ==
    CASE op \in Writes \union {"restore"} -> "begin"
      [] op \in Removes                   -> "select"
      [] op = "retain"                    -> "list"

\* Mutant of Lock: the mutex does not exclude.
LockWithoutWaiting(p) ==
    /\ At(p, "lock")
    /\ lock' = [lock EXCEPT ![proc[p].ws] = p]
    /\ GoTo(p, Entry(proc[p].op))
    /\ UNCHANGED <<rows, disk, next, sweep>>

Lock(p) ==
    /\ At(p, "lock")
    /\ lock[proc[p].ws] = None
    /\ lock' = [lock EXCEPT ![proc[p].ws] = p]
    /\ GoTo(p, Entry(proc[p].op))
    /\ UNCHANGED <<rows, disk, next, sweep>>

Unlock(p) ==
    /\ At(p, "unlock")
    /\ lock' = [lock EXCEPT ![proc[p].ws] = None]
    /\ Move(p, Idle)
    /\ UNCHANGED <<rows, disk, next, sweep>>

-----------------------------------------------------------------------------
(***************************************************************************)
(* snapshotPathsLocked.  A create writes one node; a restore writes the    *)
(* safety snapshot before it and the node that records it after it.        *)
(***************************************************************************)
AfterWrite(me) ==
    IF me.op \in Writes THEN "list" ELSE IF me.landed THEN "unlock" ELSE "restore"

\* A failed safety snapshot does not stop the restore.
AfterFailedWrite(me) ==
    IF me.op = "restore" /\ ~me.landed THEN "restore" ELSE "unlock"

GiveUpWrite(p) ==
    Move(p, [proc[p] EXCEPT !.pc = AfterFailedWrite(proc[p]), !.id = None, !.up = None])

\* The node that records a restore hangs under its target, any other under
\* the newest row.
ParentFor(me) == IF me.landed THEN me.target ELSE LatestSnapshot(rows, me.ws)

BeginCreate(p) ==
    /\ At(p, "begin")
    /\ next \in Id
    /\ disk' = [disk EXCEPT ![next] = "partial"]
    /\ next' = next + 1
    /\ Move(p, [proc[p] EXCEPT !.pc = "copy", !.id = next, !.up = ParentFor(proc[p])])
    /\ UNCHANGED <<rows, lock, sweep>>

\* No readable path, a lost query, or no identifier left below the bound.
RefuseCreate(p) ==
    /\ At(p, "begin")
    /\ Fails("create") \/ Fails("store") \/ next \notin Id
    /\ GiveUpWrite(p)
    /\ UNCHANGED <<rows, disk, next, lock, sweep>>

\* A provider at its cap makes room by deleting its oldest copy.
Held == {i \in Id : disk[i] = "whole"}

Evicted ==
    IF ProviderMax > 0 /\ Cardinality(Held) >= ProviderMax
    THEN {i \in Held : \A j \in Held : i <= j}
    ELSE {}

EndCreate(p) ==
    /\ At(p, "copy")
    /\ disk' = [i \in Id |-> IF i = proc[p].id THEN "whole"
                             ELSE IF i \in Evicted THEN "hollow" ELSE disk[i]]
    /\ GoTo(p, "put")
    /\ UNCHANGED <<rows, next, lock, sweep>>

\* The error path removes what it made; that removal can fail too.
FailCreate(p) ==
    /\ At(p, "copy")
    /\ Fails("create")
    /\ \E left \in {"absent"} \union (IF Fails("delete") THEN {"partial"} ELSE {}) :
          disk' = [disk EXCEPT ![proc[p].id] = left]
    /\ GiveUpWrite(p)
    /\ UNCHANGED <<rows, next, lock, sweep>>

\* Mutant of Places: created_at is never set.
PlacesUnset(id) == {0}

\* created_at is read once the copy is done.  Under a clock that never goes
\* back the new row sorts after every row of its workset.
Places(id) == IF ClockSteps THEN Id ELSE {id}

PutRow(p) ==
    LET me == proc[p] IN
    /\ At(p, "put")
    /\ MayPut(rows, me.up)
    /\ \E at \in Places(me.id) :
          rows' = PutSnapshot(rows, me.id,
                     [ws |-> me.ws, parent |-> me.up, auto |-> me.op # "manual", at |-> at])
    /\ Move(p, [me EXCEPT !.pc = AfterWrite(me), !.up = None])
    /\ UNCHANGED <<disk, next, lock, sweep>>

FailPut(p) ==
    /\ At(p, "put")
    /\ ~MayPut(rows, proc[p].up) \/ Fails("store")
    /\ \E left \in {"absent"} \union (IF Fails("delete") THEN {"whole", "damaged"} ELSE {}) :
          disk' = [disk EXCEPT ![proc[p].id] = left]
    /\ GiveUpWrite(p)
    /\ UNCHANGED <<rows, next, lock, sweep>>

-----------------------------------------------------------------------------
(***************************************************************************)
(* engine.Restore of the target's handle.  A handle without a manifest or  *)
(* with nothing behind it cannot be read.  One that was partly removed can *)
(* be read as long as its manifest stands.                                 *)
(***************************************************************************)
EngineRestore(p) ==
    /\ At(p, "restore")
    /\ disk[proc[p].target] \in {"whole", "damaged"}
    /\ Move(p, [proc[p] EXCEPT !.pc = "begin", !.landed = TRUE, !.id = None])
    /\ UNCHANGED <<rows, disk, next, lock, sweep>>

\* Mutant of FailRestore: the call is made again until it works.
FailRestoreRetries(p) ==
    /\ At(p, "restore")
    /\ disk[proc[p].target] # "whole" \/ Fails("restore")
    /\ UNCHANGED vars

FailRestore(p) ==
    /\ At(p, "restore")
    /\ disk[proc[p].target] # "whole" \/ Fails("restore")
    /\ GoTo(p, "unlock")
    /\ UNCHANGED <<rows, disk, next, lock, sweep>>

-----------------------------------------------------------------------------
(***************************************************************************)
(* Retention and prune choose the rows to remove, then take them one by    *)
(* one: the handle first, then the row.                                    *)
(***************************************************************************)
Choose(p, S) ==
    /\ Move(p, [proc[p] EXCEPT !.pc = "free", !.todo = S])
    /\ UNCHANGED <<rows, disk, next, lock, sweep>>

Stop(p) ==
    /\ GoTo(p, "unlock")
    /\ UNCHANGED <<rows, disk, next, lock, sweep>>

\* budgetFor: the configured count, or one less than a smaller provider's.
KeepWithProvider ==
    IF ProviderMax = 0 \/ ProviderMax >= AutoKeep THEN AutoKeep ELSE ProviderMax - 1

Budgets ==
    {IF Held = {} THEN AutoKeep ELSE KeepWithProvider}
        \union (IF Fails("budget") THEN {AutoKeep} ELSE {})

ListExcess(p) ==
    /\ At(p, "list")
    /\ AutoKeep > 0
    /\ \E keep \in Budgets : Choose(p, Excess(rows, proc[p].ws, keep))

SkipRetention(p) ==
    /\ At(p, "list")
    /\ AutoKeep = 0 \/ Fails("store")
    /\ Stop(p)

\* Mutant of SelectSubtree: children do not stop a prune without cascade.
SelectSubtreeUnasked(p) ==
    /\ At(p, "select")
    /\ Choose(p, Subtree(rows, proc[p].target))

SelectSubtree(p) ==
    /\ At(p, "select")
    /\ Children(rows, proc[p].target) = {} \/ proc[p].op = "cascade"
    /\ Choose(p, Subtree(rows, proc[p].target))

RefusePrune(p) ==
    /\ At(p, "select")
    /\ \/ Children(rows, proc[p].target) # {} /\ proc[p].op = "prune"
       \/ Fails("store")
    /\ Stop(p)

Retains(me) == me.op \in Writes \union {"retain"}

\* Mutant of IsNext: the subtree is walked in the order it was built.
IsNextParentsFirst(me, i) ==
    IF Retains(me)
    THEN i \in DOMAIN rows /\ IsOldest(rows, i, me.todo \intersect DOMAIN rows)
    ELSE i \in me.todo /\ i \in DOMAIN rows /\ rows[i].parent \notin me.todo

\* Retention goes through the list oldest first and re-reads each row; prune
\* walks the subtree backwards, so a node goes after all its descendants.
IsNext(me, i) ==
    IF Retains(me)
    THEN i \in DOMAIN rows /\ IsOldest(rows, i, me.todo \intersect DOMAIN rows)
    ELSE i \in me.todo /\ Children(rows, i) \intersect me.todo = {}

BeginFree(p) ==
    LET me == proc[p] IN
    /\ At(p, "free")
    /\ \E i \in me.todo :
          /\ IsNext(me, i)
          /\ disk' = [disk EXCEPT ![i] = IF @ = "absent" THEN @ ELSE "damaged"]
          /\ Move(p, [me EXCEPT !.pc = "freeing", !.cur = i,
                                !.up = IF Retains(me) THEN rows[i].parent ELSE None])
    /\ UNCHANGED <<rows, next, lock, sweep>>

\* What a delete that answers no error leaves: nothing, or on a backend with
\* a provider, which swallows every error, some of the handle.
Leavings == {"absent"} \union (IF ProviderMax > 0 /\ Fails("delete") THEN {"damaged"} ELSE {})

EndFree(p) ==
    LET me == proc[p] IN
    /\ At(p, "freeing")
    /\ \E left \in Leavings : disk' = [disk EXCEPT ![me.cur] = left]
    /\ GoTo(p, IF Retains(me) THEN "reparent" ELSE "drop")
    /\ UNCHANGED <<rows, next, lock, sweep>>

\* Mutant of Stuck: prune goes on past a handle that will not go.
StuckGoesOn(p, i) ==
    /\ Fails("delete")
    /\ Move(p, [proc[p] EXCEPT !.pc = "free", !.cur = None, !.up = None, !.todo = @ \ {i}])
    /\ UNCHANGED <<rows, disk, next, lock, sweep>>

\* A handle that will not go keeps its row.  Retention goes on to the next
\* one; prune stops and reports.
Stuck(p, i) ==
    /\ Fails("delete")
    /\ Move(p, [proc[p] EXCEPT !.pc = IF Retains(proc[p]) THEN "free" ELSE "unlock",
                               !.cur = None, !.up = None, !.todo = @ \ {i}])
    /\ UNCHANGED <<rows, disk, next, lock, sweep>>

\* engine.Delete fails before it touches the handle, or half way.
RefuseFree(p) ==
    /\ At(p, "free")
    /\ \E i \in proc[p].todo : IsNext(proc[p], i) /\ Stuck(p, i)

FailFree(p) ==
    /\ At(p, "freeing")
    /\ Stuck(p, proc[p].cur)

\* The query that re-reads the next row of the pass fails.
FailReread(p) ==
    /\ At(p, "free")
    /\ Retains(proc[p]) /\ proc[p].todo # {} /\ Fails("store")
    /\ Stop(p)

MoveChildren(p) ==
    /\ At(p, "reparent")
    /\ MayReparent(rows, proc[p].cur, proc[p].up)
    /\ rows' = Reparent(rows, proc[p].cur, proc[p].up)
    /\ GoTo(p, "drop")
    /\ UNCHANGED <<disk, next, lock, sweep>>

FailMoveChildren(p) ==
    /\ At(p, "reparent")
    /\ ~MayReparent(rows, proc[p].cur, proc[p].up) \/ Fails("store")
    /\ Stop(p)

DropRow(p) ==
    LET me == proc[p] IN
    /\ At(p, "drop")
    /\ MayDelete(rows, me.cur)
    /\ rows' = DeleteRow(rows, me.cur)
    /\ Move(p, [me EXCEPT !.pc = "free", !.cur = None, !.up = None, !.todo = @ \ {me.cur}])
    /\ UNCHANGED <<disk, next, lock, sweep>>

FailDrop(p) ==
    /\ At(p, "drop")
    /\ ~MayDelete(rows, proc[p].cur) \/ Fails("store")
    /\ Stop(p)

\* Nothing left to take; retention skips a row that is gone.
FinishRemoval(p) ==
    /\ At(p, "free")
    /\ \/ proc[p].todo = {}
       \/ Retains(proc[p]) /\ proc[p].todo \intersect DOMAIN rows = {}
    /\ Stop(p)

-----------------------------------------------------------------------------
(***************************************************************************)
(* The daemon's life.  A crash takes every goroutine, mutex and local with *)
(* it and leaves the database and the snapshot root as they are.  A        *)
(* shutdown that gives up on its requests after 10 seconds does the same.  *)
(***************************************************************************)
Crash ==
    /\ phase \notin {"down", "refused"}
    /\ crashes < MaxCrashes
    /\ crashes' = crashes + 1
    /\ phase' = "down"
    /\ proc' = [p \in Procs |-> Idle]
    /\ lock' = [w \in Worksets |-> None]
    /\ sweep' = {}
    /\ rec' = NothingSeen
    /\ UNCHANGED <<rows, disk, next>>

Daemon(to, r) ==
    /\ phase' = to
    /\ rec' = r
    /\ UNCHANGED <<next, lock, proc, sweep, crashes>>

Start ==
    /\ phase \in {"down", "refused"}
    /\ Daemon("scan", NothingSeen)
    /\ UNCHANGED <<rows, disk>>

\* Reconcile.  A row whose handle is not on disk, and, where the provider can
\* be asked, a row with a handle that has no snapshot behind it.
Absent == {i \in DOMAIN rows : disk[i] = "absent"}
Lost == IF ProviderMax = 0 THEN {}
        ELSE {i \in DOMAIN rows : disk[i] \in {"partial", "damaged", "hollow"}}

\* Mutant of EveryRowAbsent: one lost row is refused too.
AnyRowAbsent == Cardinality(DOMAIN rows) > 0 /\ Absent = DOMAIN rows

EveryRowAbsent == Cardinality(DOMAIN rows) > 1 /\ Absent = DOMAIN rows

ReconcileScan ==
    /\ phase = "scan"
    /\ ~EveryRowAbsent
    /\ \E lost \in (IF Fails("verify") THEN SUBSET Lost ELSE {Lost}) :
          Daemon("rows", [known   |-> DOMAIN rows,
                          parent  |-> [i \in Id |-> IF i \in DOMAIN rows
                                                    THEN rows[i].parent ELSE None],
                          missing |-> Absent \union lost,
                          cur     |-> None])
    /\ UNCHANGED <<rows, disk>>

ReconcileRefuses ==
    /\ phase = "scan"
    /\ EveryRowAbsent
    /\ Daemon("refused", NothingSeen)
    /\ UNCHANGED <<rows, disk>>

\* Mutant of IsLast: the rows go in list order.
IsFirst(i, S) == i \in S /\ \A j \in S : rows[j].ws = rows[i].ws => ~Before(rows, j, i)

\* The missing rows of a workset go in reverse list order, each handing its
\* children to the parent it had when the list was read.
IsLast(i, S) == i \in S /\ \A j \in S : rows[j].ws = rows[i].ws => ~Before(rows, i, j)

\* Mutant of ReconcileReparent: the children become roots.
ReconcileReparentToRoot ==
    /\ phase = "rows"
    /\ \E i \in rec.missing :
          /\ IsLast(i, rec.missing)
          /\ rows' = Reparent(rows, i, None)
          /\ Daemon("drop", [rec EXCEPT !.cur = i])
    /\ UNCHANGED disk

ReconcileReparent ==
    /\ phase = "rows"
    /\ \E i \in rec.missing :
          /\ IsLast(i, rec.missing)
          /\ MayReparent(rows, i, rec.parent[i])
          /\ rows' = Reparent(rows, i, rec.parent[i])
          /\ Daemon("drop", [rec EXCEPT !.cur = i])
    /\ UNCHANGED disk

ReconcileDrop ==
    /\ phase = "drop"
    /\ MayDelete(rows, rec.cur)
    /\ rows' = DeleteRow(rows, rec.cur)
    /\ Daemon("rows", [rec EXCEPT !.missing = @ \ {rec.cur}, !.cur = None])
    /\ UNCHANGED disk

\* A failed statement stops the start.
ReconcileRowFails ==
    /\ \/ Fails("store") /\ phase \in {"scan", "rows", "drop"}
       \/ phase = "drop" /\ ~MayDelete(rows, rec.cur)
       \/ /\ phase = "rows"
          /\ \E i \in rec.missing : IsLast(i, rec.missing) /\ ~MayReparent(rows, i, rec.parent[i])
    /\ Daemon("refused", NothingSeen)
    /\ UNCHANGED <<rows, disk>>

\* Mutant of Orphans: only complete handles are looked for.
WholeOrphans == {i \in Id : disk[i] = "whole"} \ rec.known

\* Handles no row named when the rows were read.
Orphans == {i \in Id : disk[i] # "absent"} \ rec.known

\* Each directory is gone through once, whatever is left of it.
ReconcileHandle ==
    /\ phase = "rows" /\ rec.missing = {}
    /\ \E i \in Orphans, left \in Leavings :
          /\ disk' = [disk EXCEPT ![i] = left]
          /\ Daemon("rows", [rec EXCEPT !.known = @ \union {i}])
    /\ UNCHANGED rows

ReconcileHandleFails ==
    /\ phase = "rows" /\ rec.missing = {}
    /\ Orphans # {} /\ Fails("delete")
    /\ Daemon("refused", NothingSeen)
    /\ UNCHANGED <<rows, disk>>

Serve ==
    /\ phase = "rows" /\ rec.missing = {} /\ Orphans = {}
    /\ Daemon("serving", NothingSeen)
    /\ UNCHANGED <<rows, disk>>
-----------------------------------------------------------------------------

Request(c) ==
    \/ \E w \in Worksets, op \in Writes : CreateSnapshot(c, w, op)
    \/ \E t \in DOMAIN rows, op \in Removes \union {"restore"} : RestoreOrPrune(c, t, op)

Work(p) ==
    \/ BeginCreate(p) \/ RefuseCreate(p) \/ EndCreate(p) \/ FailCreate(p)
    \/ PutRow(p) \/ FailPut(p) \/ EngineRestore(p) \/ FailRestore(p)
    \/ ListExcess(p) \/ SkipRetention(p) \/ SelectSubtree(p) \/ RefusePrune(p)
    \/ BeginFree(p) \/ RefuseFree(p) \/ EndFree(p) \/ FailFree(p) \/ FailReread(p)
    \/ MoveChildren(p) \/ FailMoveChildren(p) \/ DropRow(p) \/ FailDrop(p)
    \/ FinishRemoval(p) \/ Unlock(p)

Boot ==
    \/ Start \/ ReconcileScan \/ ReconcileRefuses
    \/ ReconcileReparent \/ ReconcileDrop \/ ReconcileRowFails
    \/ ReconcileHandle \/ ReconcileHandleFails \/ Serve

Next ==
    \/ \E c \in Clients : Request(c)
    \/ TimerTicks
    \/ \E w \in Worksets : PruneAll(w)
    \/ \E p \in Procs : Lock(p) \/ Work(p)
    \/ Boot
    \/ Crash

Spec == Init /\ [][Next]_vars

(***************************************************************************)
(* A goroutine that can take its next step takes it.  A sync.Mutex hands   *)
(* itself to a goroutine that has waited a millisecond, so one that keeps  *)
(* finding it free gets it: strong fairness.  The pass of the timer goes   *)
(* on to its next workset, and whoever runs the daemon starts it again.    *)
(* Nothing obliges a client to call or a crash to happen.                  *)
(***************************************************************************)
Fairness ==
    /\ \A p \in Procs : WF_vars(Work(p)) /\ SF_vars(Lock(p))
    /\ WF_vars(\E w \in Worksets : PruneAll(w))
    /\ WF_vars(Boot)

LiveSpec == Spec /\ Fairness

-----------------------------------------------------------------------------
(***************************************************************************)
(* Properties.                                                             *)
(***************************************************************************)
Pcs == {"idle", "lock", "begin", "copy", "put", "restore", "list", "select",
        "free", "freeing", "reparent", "drop", "unlock"}
Ops == {"none", "retain", "restore"} \union Writes \union Removes
Phases == {"down", "refused", "scan", "rows", "drop", "serving"}

ProcRec ==
    [op: Ops, pc: Pcs, ws: Worksets \union {None}, target: Id \union {None}, landed: BOOLEAN,
     id: Id \union {None}, up: Id \union {None}, cur: Id \union {None}, todo: SUBSET Id]

RecRec ==
    [known: SUBSET Id, parent: [Id -> Id \union {None}], missing: SUBSET Id,
     cur: Id \union {None}]

\* Every variable has its type.
TypeOK ==
    /\ DOMAIN rows \subseteq Id
    /\ rows \in [DOMAIN rows -> Row(Id, Worksets)]
    /\ disk \in [Id -> Handle]
    /\ next \in 1..(MaxSnap + 1)
    /\ lock \in [Worksets -> Procs \union {None}]
    /\ proc \in [Procs -> ProcRec]
    /\ sweep \subseteq Worksets
    /\ phase \in Phases
    /\ rec \in RecRec
    /\ crashes \in 0..MaxCrashes

(***************************************************************************)
(* The graph is a forest whose links stay inside one workset and point to  *)
(* an earlier snapshot, whatever requests, crashes and failures mix: what  *)
(* ManualAncestors, Subtree and Ancestors rely on to end.                  *)
(***************************************************************************)
GraphIntact == Forest(rows)

(***************************************************************************)
(* No statement of a request or of the timer ever trips the foreign key or *)
(* ErrHasChildren: the parent an insert names still stands, the parent     *)
(* retention hands children to still stands (retention.go 51-52), and a    *)
(* row that goes has no child left.                                        *)
(***************************************************************************)
StatementsFit ==
    \A p \in Procs :
        /\ proc[p].pc = "put" => MayPut(rows, proc[p].up)
        /\ proc[p].pc = "reparent" => MayReparent(rows, proc[p].cur, proc[p].up)
        /\ proc[p].pc = "drop" => Children(rows, proc[p].cur) = {}

(***************************************************************************)
(* The same for Reconcile, which hands children to the parent a row had    *)
(* when the list was read: that parent still stands, because rows go       *)
(* newest first (reconcile.go 108-109).  It needs a clock that never goes  *)
(* back.                                                                   *)
(***************************************************************************)
ReconcileFits ==
    /\ phase = "rows" =>
          \A i \in rec.missing :
              IsLast(i, rec.missing) => MayReparent(rows, i, rec.parent[i])
    /\ phase = "drop" => MayDelete(rows, rec.cur)

(***************************************************************************)
(* While the daemon serves, the graph and the snapshot root agree: a       *)
(* handle without a row is a snapshot being written, and a row without a   *)
(* handle is one being removed (reconcile.go 31-36, ROADMAP item 9).       *)
(***************************************************************************)
GraphAgreesWithDisk ==
    phase = "serving" =>
        \A i \in Id :
            /\ disk[i] # "absent" /\ i \notin DOMAIN rows =>
                  \E p \in Procs : proc[p].pc \in {"copy", "put"} /\ proc[p].id = i
            /\ disk[i] = "absent" /\ i \in DOMAIN rows =>
                  \E p \in Procs : proc[p].pc \in {"reparent", "drop"} /\ proc[p].cur = i

(***************************************************************************)
(* A create that answers with a snapshot answers with one that is in the   *)
(* graph and can be restored: the retention pass that runs before the      *)
(* answer does not take it back.                                           *)
(***************************************************************************)
CreateReturnsLiveNode ==
    \A p \in Procs :
        proc[p].pc = "unlock" /\ proc[p].op \in Writes /\ proc[p].id # None =>
            proc[p].id \in DOMAIN rows /\ disk[proc[p].id] = "whole"

\* With the data directory in place, no crash leaves a graph that Reconcile
\* refuses to serve (USE-CASES, "Recover the graph after a restart").
NeverRefuses == phase # "refused"

(***************************************************************************)
(* A new node hangs under the newest row of its workset at the moment it   *)
(* is written, and the node that records a restore under the restored row, *)
(* which still stands: no other request of the workset comes in between    *)
(* (service.go 106-107 and 193-194).                                       *)
(***************************************************************************)
NodesHangWhereTheyShould ==
    [][\A p \in Procs :
          LET me == proc[p] IN
          me.pc = "put" /\ me.id \in DOMAIN rows' \ DOMAIN rows =>
              IF me.landed
              THEN rows'[me.id].parent = me.target /\ me.target \in DOMAIN rows
              ELSE rows'[me.id].parent = LatestSnapshot(rows, me.ws)]_vars

(***************************************************************************)
(* The chain of a manual snapshot is spared: no step of retention, of a    *)
(* prune, of a restart or of a failure takes the handle of a snapshot that *)
(* a manual one descends from, at that moment and not just when retention  *)
(* made its list (START.md section 6, retention.go 15-23).  A copy that    *)
(* the provider deletes to make room, "hollow", is not the daemon's doing. *)
(***************************************************************************)
ManualChainsSpared ==
    [][\A i \in DOMAIN rows :
          disk[i] = "whole" /\ disk'[i] \notin {"whole", "hollow"} =>
              \A m \in DOMAIN rows : ~rows[m].auto => i \notin Ancestors(rows, m)]_vars

(***************************************************************************)
(* The chain a client reads stays connected: a step never puts a row on    *)
(* another chain, and a row drops out of a chain only after its own handle *)
(* has been freed.  True of retention, prune and Reconcile alike           *)
(* (retention.go 22-23, README "its children join its parent").  Where a   *)
(* provider holds the copies the handle may be there in pieces or empty,   *)
(* but nothing can be restored from it (vss.go 251-256).                   *)
(***************************************************************************)
ChainsStayConnected ==
    [][\A i \in DOMAIN rows \intersect DOMAIN rows' :
          LET before == Ancestors(rows, i)
              after == Ancestors(rows', i)
          IN  /\ after \subseteq before
              /\ \A a \in before \ after :
                     disk[a] = "absent" \/ (ProviderMax > 0 /\ disk[a] # "whole")]_vars

(***************************************************************************)
(* A prune frees what its caller named and nothing else: the target, or    *)
(* with cascade a descendant of it, and never a snapshot that still has a  *)
(* child, also when the graph changed while the request waited             *)
(* (service.go 405-406, USE-CASES "Free disk space").                      *)
(***************************************************************************)
PruneTakesWhatWasAsked ==
    [][\A p \in Procs :
          LET me == proc[p]
              i == proc'[p].cur
          IN  me.op \in Removes /\ me.pc = "free" /\ proc'[p].pc = "freeing" =>
                  /\ Children(rows, i) = {}
                  /\ i # me.target =>
                        me.op = "cascade" /\ me.target \in Ancestors(rows, i)]_vars

(***************************************************************************)
(* A restore that lands has read a complete snapshot: no prune, retention  *)
(* pass or earlier interrupted removal has taken part of the handle.       *)
(***************************************************************************)
RestoreReadsWholeSnapshot ==
    [][\A p \in Procs :
          ~proc[p].landed /\ proc'[p].landed => disk[proc[p].target] = "whole"]_vars

\* Every request, and every workset's part of a timer pass, comes to an end.
RequestsFinish == \A p \in Procs : proc[p].pc # "idle" ~> proc[p].pc = "idle"

\* A timer pass that has begun gets to every workset.
SweepReachesAll == \A w \in Worksets : w \in sweep ~> w \notin sweep

\* A daemon that stopped serves again.
DaemonServesAgain == phase = "down" ~> phase = "serving"
==============================================================================
