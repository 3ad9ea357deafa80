---------------------------- MODULE EngineHandles ----------------------------
(***************************************************************************)
(* One handle directory of internal/engine, from Create to Delete, call by *)
(* call, on the backends that can make one.  A handle has a piece for each *)
(* source:                                                                 *)
(*                                                                         *)
(*   copy    a subtree of hardlinks                                        *)
(*   btrfs   a read-only snapshot of a subvolume                           *)
(*   vss     a directory link to a shadow copy, which the provider keeps   *)
(*                                                                         *)
(* and a manifest, written last.  No call is atomic: any command or file   *)
(* operation may fail, the client may hang up (its context then fails      *)
(* every command, not the file operations), and the daemon may crash       *)
(* between any two of them.  What api does with a handle is part of the    *)
(* model as far as the handle notices: the row, the delete of a handle     *)
(* whose row could not be written, and Reconcile.                          *)
(***************************************************************************)
EXTENDS Integers, FiniteSets

CONSTANTS
    Backends,    \* the backends of the instance, among copy, btrfs and vss
    N,           \* sources of the workset, and so pieces of a handle
    MaxFaults,   \* bound: commands and file operations that fail
    MaxCrashes   \* bound: crashes

AllBackends == {"copy", "btrfs", "vss"}

ASSUME EngineAssumption ==
    /\ Backends \subseteq AllBackends
    /\ N \in Nat \ {0}
    /\ MaxFaults \in Nat
    /\ MaxCrashes \in Nat

Piece == 1..N

VARIABLES
    backend,   \* the backend the daemon selected at its start
    dir,       \* whether the handle directory is there
    piece,     \* each source's part of the handle
    manifest,  \* manifest.json: none, torn while it is being written, whole
    shadows,   \* the shadow copies the provider holds, by source
    row,       \* whether a row of the graph names the handle
    born,      \* whether Create was called: identifiers are used once
    phase,     \* the daemon: down, boot while Reconcile deletes, up
    op,        \* the engine call in progress
    last,      \* how the last call ended, how many steps failed, what it named
    faults,
    crashes

handleVars == <<dir, piece, manifest, shadows>>
lifeVars == <<row, born, phase, crashes>>
engineVars == <<backend, handleVars, lifeVars, op, last, faults>>

Part == {"none", "part", "whole"}

(***************************************************************************)
(* The locals of a call: the source in hand, the pieces cleanup has still  *)
(* to go through, those the manifest in memory names, how many of its      *)
(* steps failed, whether its context is dead, and whether its error is     *)
(* swallowed.                                                              *)
(***************************************************************************)
Idle == [kind |-> "none", pc |-> "idle", i |-> 1, todo |-> {}, m |-> {},
         bad |-> 0, gone |-> FALSE, quiet |-> FALSE, fit |-> TRUE]

NoCall == [res |-> "none", bad |-> 0, m |-> {}, fit |-> TRUE]

HandleInit ==
    /\ backend \in Backends
    /\ dir = FALSE
    /\ piece = [i \in Piece |-> "none"]
    /\ manifest = "none"
    /\ shadows = {}
    /\ row = FALSE /\ born = FALSE
    /\ phase = "up"
    /\ op = Idle
    /\ last = NoCall
    /\ faults = 0 /\ crashes = 0

\* The call goes on, or fails one of its steps and goes on at another point.
Go(r) == op' = r /\ UNCHANGED <<backend, lifeVars, last, faults>>
To(pc) == Go([op EXCEPT !.pc = pc])

\* The service makes the next call; the answer to the last one is of no more use.
Begin(r) == op' = r /\ last' = NoCall /\ UNCHANGED <<backend, lifeVars, faults>>

More(n) == IF n < 2 THEN n + 1 ELSE n

\* A file operation fails.
Trips(r) ==
    /\ faults < MaxFaults
    /\ faults' = faults + 1
    /\ op' = [r EXCEPT !.bad = More(@)]
    /\ UNCHANGED <<backend, lifeVars, last>>

\* A command fails: by itself, or because the context is dead.
CommandFails(r) ==
    \/ Trips(r)
    \/ /\ op.gone
       /\ op' = [r EXCEPT !.bad = More(@)]
       /\ UNCHANGED <<backend, lifeVars, last, faults>>

\* The call returns to the service, which has one call on a handle at a time.
Answer(res, r) ==
    /\ op' = Idle
    /\ last' = [res |-> res, bad |-> op.bad, m |-> op.m, fit |-> op.fit]
    /\ row' = r
    /\ UNCHANGED <<backend, born, crashes, faults>>

In(kind, pc) == op.kind = kind /\ op.pc = pc

-----------------------------------------------------------------------------
(***************************************************************************)
(* Create.                                                                 *)
(***************************************************************************)
StartCreate ==
    /\ phase = "up" /\ op = Idle /\ ~born
    /\ dir' = TRUE
    /\ born' = TRUE
    /\ op' = [Idle EXCEPT !.kind = "create", !.pc = "take"]
    /\ UNCHANGED <<backend, piece, manifest, shadows, row, phase, last, faults, crashes>>

\* The client hangs up.
HangUp ==
    /\ op.kind # "none" /\ phase = "up" /\ ~op.gone
    /\ Go([op EXCEPT !.gone = TRUE])
    /\ UNCHANGED handleVars

\* The source in hand is taken; the next one is up.
Took == [op EXCEPT !.pc = "take", !.i = @ + 1, !.m = @ \union {op.i}]

\* cleanup goes through the pieces of the manifest in memory and swallows its
\* errors; copy only removes the tree.
Cleanup(m) ==
    [op EXCEPT !.pc = CASE backend = "copy" -> "remove"
                        [] backend = "btrfs" -> "subvols"
                        [] backend = "vss" -> "unmount",
               !.todo = m, !.m = m, !.quiet = TRUE]

TakeCopy ==
    /\ backend = "copy" /\ In("create", "take") /\ op.i \in Piece
    /\ piece' = [piece EXCEPT ![op.i] = "part"]
    /\ To("clone")
    /\ UNCHANGED <<dir, manifest, shadows>>

FinishClone ==
    /\ In("create", "clone") /\ ~op.gone
    /\ piece' = [piece EXCEPT ![op.i] = "whole"]
    /\ Go(Took)
    /\ UNCHANGED <<dir, manifest, shadows>>

FailClone ==
    /\ In("create", "clone")
    /\ CommandFails(Cleanup(op.m))
    /\ UNCHANGED handleVars

TakeSubvolume ==
    /\ backend = "btrfs" /\ In("create", "take") /\ op.i \in Piece /\ ~op.gone
    /\ piece' = [piece EXCEPT ![op.i] = "whole"]
    /\ Go(Took)
    /\ UNCHANGED <<dir, manifest, shadows>>

TakeShadow ==
    /\ backend = "vss" /\ In("create", "take") /\ op.i \in Piece /\ ~op.gone
    /\ shadows' = shadows \union {op.i}
    /\ To("mount")
    /\ UNCHANGED <<dir, piece, manifest>>

FailTake ==
    /\ backend # "copy" /\ In("create", "take") /\ op.i \in Piece
    /\ CommandFails(Cleanup(op.m))
    /\ UNCHANGED handleVars

\* The provider made the copy, and what it printed cannot be read.
LoseShadow ==
    /\ backend = "vss" /\ In("create", "take") /\ op.i \in Piece
    /\ shadows' = shadows \union {op.i}
    /\ Trips([Cleanup(op.m) EXCEPT !.bad = 2])
    /\ UNCHANGED <<dir, piece, manifest>>

Mount ==
    /\ In("create", "mount") /\ ~op.gone
    /\ piece' = [piece EXCEPT ![op.i] = "whole"]
    /\ Go(Took)
    /\ UNCHANGED <<dir, manifest, shadows>>

\* Mutant of FailMount: the shadow copy that has no mount is not recorded.
FailMountForgets ==
    /\ In("create", "mount")
    /\ CommandFails(Cleanup(op.m))
    /\ UNCHANGED handleVars

FailMount ==
    /\ In("create", "mount")
    /\ CommandFails(Cleanup(op.m \union {op.i}))
    /\ UNCHANGED handleVars

\* os.WriteFile truncates, then writes.
OpenManifest ==
    /\ In("create", "take") /\ op.i = N + 1
    /\ manifest' = "torn"
    /\ To("write")
    /\ UNCHANGED <<dir, piece, shadows>>

WriteManifest ==
    /\ In("create", "write")
    /\ manifest' = "whole"
    /\ To("put")
    /\ UNCHANGED <<dir, piece, shadows>>

FailManifest ==
    /\ In("create", "write")
    /\ Trips(Cleanup(op.m))
    /\ UNCHANGED handleVars

\* Create has returned the handle and PutSnapshot writes the row.
PutRow ==
    /\ In("create", "put") /\ ~op.gone
    /\ Answer("created", TRUE)
    /\ UNCHANGED <<handleVars, phase>>

-----------------------------------------------------------------------------
(***************************************************************************)
(* Delete, by retention or prune, by the service when a row could not be   *)
(* written, or by Reconcile for a handle no row names.                     *)
(***************************************************************************)
\* A btrfs handle no delete can free: a subvolume the manifest names is gone,
\* or nothing names the subvolumes that are left.
Wedged ==
    /\ backend = "btrfs"
    /\ IF manifest = "whole" THEN \E i \in Piece : piece[i] = "none"
                             ELSE \E i \in Piece : piece[i] # "none"

\* Mutant of DeleteCall: the pieces are counted from zero.
DeleteCallFromZero(kind) ==
    LET named == IF manifest = "whole" THEN 0..(N - 1) ELSE {} IN
    [Idle EXCEPT !.kind = kind,
                 !.pc = IF backend = "btrfs" /\ manifest = "whole" THEN "subvols" ELSE "remove",
                 !.todo = named, !.m = named, !.fit = ~Wedged]

\* Mutant of DeleteCall: vss removes the directory and forgets its copies.
DeleteCallForgetsShadows(kind) ==
    LET named == IF manifest = "whole" THEN Piece ELSE {} IN
    [Idle EXCEPT !.kind = kind,
                 !.pc = IF backend = "btrfs" /\ manifest = "whole" THEN "subvols" ELSE "remove",
                 !.todo = named, !.m = named, !.fit = ~Wedged,
                 !.quiet = backend = "vss" /\ manifest = "whole"]

DeleteCall(kind) ==
    LET named == IF manifest = "whole" THEN Piece ELSE {} IN
    [Idle EXCEPT !.kind = kind,
                 !.pc = CASE backend = "copy" \/ manifest # "whole" -> "remove"
                          [] backend = "btrfs" /\ manifest = "whole" -> "subvols"
                          [] backend = "vss" /\ manifest = "whole" -> "unmount",
                 !.todo = named, !.m = named, !.fit = ~Wedged,
                 !.quiet = backend = "vss" /\ manifest = "whole"]

StartDelete ==
    /\ phase = "up" /\ op = Idle /\ row
    /\ Begin(DeleteCall("delete"))
    /\ UNCHANGED handleVars

\* The row cannot be written, for one because the client has hung up; the
\* handle is deleted under the same context.
FailPutRow ==
    /\ In("create", "put")
    /\ CommandFails([DeleteCall("delete") EXCEPT !.gone = op.gone])
    /\ UNCHANGED handleVars

Removing == op.kind \in {"create", "delete", "orphan"}
Lowest(S) == CHOOSE j \in S : \A k \in S : j <= k

\* What a call that removes answers.  The row goes once the handle is gone.
Removed ==
    IF op.kind = "delete" /\ row THEN To("drop")
    ELSE /\ Answer(IF op.kind = "create" THEN "refused" ELSE "removed", FALSE)
         /\ phase' = IF op.kind = "orphan" THEN "up" ELSE phase

DropRow ==
    /\ In("delete", "drop") /\ ~op.gone
    /\ Answer("removed", FALSE)
    /\ UNCHANGED <<handleVars, phase>>

FailDropRow ==
    /\ In("delete", "drop")
    /\ CommandFails([op EXCEPT !.pc = "kept"])
    /\ UNCHANGED handleVars

\* The row stays without its handle until the next delete or start.
KeepRow ==
    /\ In("delete", "kept")
    /\ Answer("stuck", row)
    /\ UNCHANGED <<handleVars, phase>>

\* Mutant of NotRemoved: the start goes on over a handle it could not remove.
NotRemovedGoesOn ==
    IF op.kind # "delete" \/ op.quiet THEN Removed
    ELSE Answer("stuck", row) /\ UNCHANGED phase

\* Mutant of NotRemoved: the row goes whatever becomes of the handle.
NotRemovedDropsRow ==
    IF op.kind = "create" \/ op.quiet THEN Removed
    ELSE /\ Answer("stuck", FALSE)
         /\ phase' = IF op.kind = "orphan" THEN "down" ELSE phase

\* An error a cleanup swallows is no error.  One that is returned keeps the
\* row, and stops a start.
NotRemoved ==
    IF op.kind = "create" \/ op.quiet THEN Removed
    ELSE /\ Answer("stuck", row)
         /\ phase' = IF op.kind = "orphan" THEN "down" ELSE phase

\* Mutant of DeleteSubvolume: one delete for each source that names it.
DeleteSubvolumeTwice ==
    /\ Removing /\ op.pc = "subvols" /\ op.todo # {} /\ ~op.gone
    /\ LET j == Lowest(op.todo) IN
       /\ piece[j] # "none"
       /\ piece' = [piece EXCEPT ![j] = "none"]
       /\ Go(op)
    /\ UNCHANGED <<dir, manifest, shadows>>

\* btrfs subvolume delete, one piece after the other.
DeleteSubvolume ==
    /\ Removing /\ op.pc = "subvols" /\ op.todo # {} /\ ~op.gone
    /\ LET j == Lowest(op.todo) IN
       /\ piece[j] # "none"
       /\ piece' = [piece EXCEPT ![j] = "none"]
       /\ Go([op EXCEPT !.todo = @ \ {j}])
    /\ UNCHANGED <<dir, manifest, shadows>>

\* cleanup goes on past a subvolume that will not go.
SkipSubvolume ==
    /\ Removing /\ op.pc = "subvols" /\ op.todo # {} /\ op.quiet
    /\ CommandFails([op EXCEPT !.todo = @ \ {Lowest(op.todo)}])
    /\ UNCHANGED handleVars

\* Delete does not: it returns the error, also when the subvolume is gone.
StopAtMissing ==
    /\ Removing /\ op.pc = "subvols" /\ op.todo # {} /\ ~op.quiet
    /\ piece[Lowest(op.todo)] = "none"
    /\ NotRemoved
    /\ UNCHANGED handleVars

StopAtSubvolume ==
    /\ Removing /\ op.pc = "subvols" /\ op.todo # {} /\ ~op.quiet
    /\ CommandFails([op EXCEPT !.pc = "stop"])
    /\ UNCHANGED handleVars

\* vss: rmdir of each mount, then a delete of each shadow copy, all errors
\* swallowed.
Unmount ==
    /\ Removing /\ op.pc = "unmount" /\ op.todo # {}
    /\ LET rest == [op EXCEPT !.todo = @ \ {Lowest(op.todo)}] IN
       \/ /\ ~op.gone
          /\ piece' = [piece EXCEPT ![Lowest(op.todo)] = "none"]
          /\ Go(rest)
       \/ CommandFails(rest) /\ UNCHANGED piece
    /\ UNCHANGED <<dir, manifest, shadows>>

Unmounted ==
    /\ Removing /\ op.pc = "unmount" /\ op.todo = {}
    /\ Go([op EXCEPT !.pc = "unshadow", !.todo = op.m])
    /\ UNCHANGED handleVars

DeleteShadow ==
    /\ Removing /\ op.pc = "unshadow" /\ op.todo # {}
    /\ LET rest == [op EXCEPT !.todo = @ \ {Lowest(op.todo)}] IN
       \/ /\ ~op.gone
          /\ shadows' = shadows \ {Lowest(op.todo)}
          /\ Go(rest)
       \/ CommandFails(rest) /\ UNCHANGED shadows
    /\ UNCHANGED <<dir, piece, manifest>>

PiecesDone ==
    /\ Removing /\ op.pc \in {"subvols", "unshadow"} /\ op.todo = {}
    /\ To("remove")
    /\ UNCHANGED handleVars

(***************************************************************************)
(* removeTree, or os.RemoveAll: the entries of the handle in any order,    *)
(* then the directory.  It cannot empty a read-only subvolume.             *)
(***************************************************************************)
RemovePart ==
    /\ Removing /\ op.pc = "remove"
    /\ \/ /\ manifest # "none"
          /\ manifest' = "none"
          /\ UNCHANGED piece
       \/ /\ backend # "btrfs"
          /\ \E j \in Piece :
                /\ piece[j] # "none"
                /\ piece' = [piece EXCEPT ![j] =
                                IF @ = "whole" /\ backend = "copy" THEN "part" ELSE "none"]
          /\ UNCHANGED manifest
    /\ To("remove")
    /\ UNCHANGED <<dir, shadows>>

RemoveDir ==
    /\ Removing /\ op.pc = "remove"
    /\ manifest = "none" /\ \A j \in Piece : piece[j] = "none"
    /\ dir' = FALSE
    /\ Removed
    /\ UNCHANGED <<piece, manifest, shadows>>

ReadOnlyLeft ==
    /\ Removing /\ op.pc = "remove"
    /\ backend = "btrfs" /\ manifest = "none" /\ \E j \in Piece : piece[j] # "none"
    /\ NotRemoved
    /\ UNCHANGED handleVars

FailRemove ==
    /\ Removing /\ op.pc = "remove" /\ dir
    /\ Trips([op EXCEPT !.pc = "stop"])
    /\ UNCHANGED handleVars

ReturnError ==
    /\ Removing /\ op.pc = "stop"
    /\ NotRemoved
    /\ UNCHANGED handleVars

-----------------------------------------------------------------------------
(***************************************************************************)
(* The provider, the crash and the start.                                  *)
(***************************************************************************)
\* The provider deletes a shadow copy to make room, and tells nobody.
Evict ==
    /\ backend = "vss"
    /\ \E j \in shadows : shadows' = shadows \ {j}
    /\ UNCHANGED <<backend, dir, piece, manifest, lifeVars, op, last, faults>>

Crash ==
    /\ phase # "down" /\ crashes < MaxCrashes
    /\ crashes' = crashes + 1
    /\ phase' = "down"
    /\ op' = Idle /\ last' = NoCall
    /\ UNCHANGED <<backend, handleVars, row, born, faults>>

\* Every shadow copy the manifest names is still held.
Exists == manifest = "whole" /\ Piece \subseteq shadows

\* Reconcile: a row without a handle goes.  So does one whose shadow copies
\* are gone, if the provider can be asked; that handle is known to this pass.
ReconcileRow ==
    /\ phase = "down" /\ row
    /\ \E gone \in {~dir} \union (IF backend = "vss" THEN {~dir \/ ~Exists} ELSE {}) :
          /\ gone \/ backend # "vss" \/ Exists \/ faults < MaxFaults
          /\ faults' = IF ~gone /\ backend = "vss" /\ ~Exists THEN faults + 1 ELSE faults
          /\ row' = ~gone
    /\ phase' = "up" /\ last' = NoCall
    /\ UNCHANGED <<backend, handleVars, born, op, crashes>>

\* A handle no row names is deleted; an error stops the start.
ReconcileOrphan ==
    /\ phase = "down" /\ ~row /\ dir
    /\ phase' = "boot" /\ last' = NoCall
    /\ op' = DeleteCall("orphan")
    /\ UNCHANGED <<backend, handleVars, row, born, faults, crashes>>

ReconcileClean ==
    /\ phase = "down" /\ ~row /\ ~dir
    /\ phase' = "up" /\ last' = NoCall
    /\ UNCHANGED <<backend, handleVars, row, born, op, faults, crashes>>

\* A stop and start of the daemon between calls.
Restart ==
    /\ phase = "up" /\ op = Idle /\ born
    /\ phase' = "down" /\ last' = NoCall
    /\ UNCHANGED <<backend, handleVars, row, born, op, faults, crashes>>
-----------------------------------------------------------------------------

CreateNext ==
    \/ StartCreate \/ TakeCopy \/ FinishClone \/ FailClone
    \/ TakeSubvolume \/ TakeShadow \/ FailTake \/ LoseShadow \/ Mount \/ FailMount
    \/ OpenManifest \/ WriteManifest \/ FailManifest \/ PutRow \/ FailPutRow

DeleteNext ==
    \/ StartDelete \/ DeleteSubvolume \/ SkipSubvolume \/ StopAtMissing \/ StopAtSubvolume
    \/ Unmount \/ Unmounted \/ DeleteShadow \/ PiecesDone
    \/ RemovePart \/ RemoveDir \/ ReadOnlyLeft \/ FailRemove \/ ReturnError
    \/ DropRow \/ FailDropRow \/ KeepRow

LifeNext ==
    \/ HangUp \/ Evict \/ Crash \/ Restart
    \/ ReconcileRow \/ ReconcileOrphan \/ ReconcileClean

HandleNext == CreateNext \/ DeleteNext \/ LifeNext
-----------------------------------------------------------------------------
(***************************************************************************)
(* What the engine promises of a handle.                                   *)
(***************************************************************************)
\* A Create that is refused leaves nothing behind, neither its directory nor
\* a shadow copy, as long as no second step fails.  One failing step is the
\* one that made Create give up; the cleanup swallows what fails after it.
RefusedCreateCleans ==
    last.res = "refused" /\ last.bad <= 1 => ~dir /\ shadows = {}

\* A Delete that answers without an error has freed everything the handle
\* named.  VSS.Delete reports no error at all, so there only when no step of
\* it failed.
RemovedMeansGone ==
    last.res = "removed" /\ (backend = "vss" => last.bad = 0)
        => ~dir /\ last.m \intersect shadows = {}

\* A Delete no step of which fails succeeds, whatever an earlier create,
\* delete or crash left, except for the two kinds of handle in Wedged.
DeleteWorks ==
    last.res = "stuck" /\ last.bad = 0 => ~last.fit

\* The daemon never comes up with a handle no row names, unless it removed
\* the row in this very start (the handle is known to the pass then) or vss
\* swallowed the error of the removal.
StartLeavesNoOrphan ==
    [][phase # "up" /\ phase' = "up" /\ dir' /\ ~row'
          => row \/ (backend = "vss" /\ op.bad > 0)]_engineVars
=============================================================================
