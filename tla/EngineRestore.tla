---------------------------- MODULE EngineRestore ----------------------------
(***************************************************************************)
(* Restore of internal/engine over the handle of EngineHandles: swapIn,    *)
(* which copy and vss use for every path and btrfs for a path that is not  *)
(* a subvolume of its own, and the swap of a whole subvolume.              *)
(*                                                                         *)
(* A live path has two names beside it, .snapshot-restore (staged) and     *)
(* .snapshot-previous (prev).  The agent edits the live paths at any       *)
(* time, a restore in progress or not: nothing locks the working set.      *)
(***************************************************************************)
EXTENDS EngineHandles

CONSTANTS
    Swappable,   \* the sources that are subvolumes of their own
    MaxEdits     \* bound: edits of the agent while the handle is kept

ASSUME RestoreAssumption == Swappable \subseteq Piece /\ MaxEdits \in Nat

VARIABLES
    live,      \* the tree at each declared path
    staged,    \* the tree at path.snapshot-restore
    prev,      \* the tree at path.snapshot-previous
    was,       \* history: the live trees when the restore began
    touched,   \* history: the paths the agent edited since
    edits

treeVars == <<live, staged, prev>>
restoreVars == <<treeVars, was, touched, edits>>
vars == <<engineVars, restoreVars>>

(***************************************************************************)
(* What is at a path: nothing, the agent's tree, a plain directory the     *)
(* agent made where a subvolume was, a symlink, a tree being written, the  *)
(* snapshot's tree, or what a damaged handle still held of it.             *)
(***************************************************************************)
Tree == {"none", "work", "plain", "link", "part", "snap", "half"}
Subvolume == {"work", "snap"}

Init ==
    /\ HandleInit
    /\ live = [i \in Piece |-> "work"]
    /\ staged = [i \in Piece |-> "none"]
    /\ prev = [i \in Piece |-> "none"]
    /\ was = [i \in Piece |-> "none"] /\ touched = {} /\ edits = 0

Restoring(pc) == op.kind = "restore" /\ op.pc = pc
Swaps(i) == backend = "btrfs" /\ i \in Swappable

\* The source in the handle can be read: for vss its shadow copy is held.
Readable(i) ==
    /\ piece[i] # "none"
    /\ backend = "vss" => i \in shadows

Stage(t) == staged' = [staged EXCEPT ![op.i] = t]
Fail == To("stop")
NextPath == Go([op EXCEPT !.pc = "path", !.i = @ + 1])
Keeps == UNCHANGED <<handleVars, was, touched, edits>>
-----------------------------------------------------------------------------
StartRestore ==
    /\ phase = "up" /\ op = Idle /\ row
    /\ Begin([Idle EXCEPT !.kind = "restore", !.pc = "check"])
    /\ was' = live /\ touched' = {}
    /\ UNCHANGED <<handleVars, treeVars, edits>>

\* Mutant of Turn: a path that is not there is passed over.
TurnSkipsMissing ==
    /\ Restoring("path") /\ op.i \in Piece
    /\ IF live[op.i] = "none" THEN NextPath
       ELSE To(CASE Swaps(op.i) -> "reset"
                 [] ~Swaps(op.i) /\ backend = "btrfs" /\ live[op.i] = "link" -> "stop"
                 [] OTHER -> "unstage")
    /\ Keeps /\ UNCHANGED treeVars

\* restoreTrees checks every destination before it touches the first.  btrfs
\* checks a path when its turn comes, and a subvolume not at all.
Check ==
    /\ Restoring("check")
    /\ To(IF manifest # "whole" \/ (backend # "btrfs" /\ \E i \in Piece : live[i] = "link")
          THEN "stop" ELSE "path")
    /\ Keeps /\ UNCHANGED treeVars

Turn ==
    /\ Restoring("path") /\ op.i \in Piece
    /\ To(CASE Swaps(op.i) -> "reset"
            [] ~Swaps(op.i) /\ backend = "btrfs" /\ live[op.i] = "link" -> "stop"
            [] OTHER -> "unstage")
    /\ Keeps /\ UNCHANGED treeVars

\* The history is of no use between restores.
Ends ==
    /\ was' = [i \in Piece |-> "none"] /\ touched' = {}
    /\ UNCHANGED <<handleVars, phase, treeVars, edits>>

Restored ==
    /\ Restoring("path") /\ op.i = N + 1
    /\ Answer("restored", row)
    /\ Ends

Failed ==
    /\ Restoring("stop")
    /\ Answer("failed", row)
    /\ Ends

-----------------------------------------------------------------------------
(***************************************************************************)
(* swapIn.                                                                 *)
(***************************************************************************)
ClearStagedTree ==
    /\ Restoring("unstage")
    /\ \/ Stage("none") /\ To("unprev")
       \/ UNCHANGED staged /\ Trips([op EXCEPT !.pc = "stop"])
    /\ Keeps /\ UNCHANGED <<live, prev>>

\* Mutant of ClearPrevious: an old tree of an interrupted restore stays.
ClearPreviousSkipped ==
    /\ Restoring("unprev")
    /\ \/ To("clone") \/ Trips([op EXCEPT !.pc = "stop"])
    /\ Keeps /\ UNCHANGED treeVars

ClearPrevious ==
    /\ Restoring("unprev")
    /\ \/ prev' = [prev EXCEPT ![op.i] = "none"] /\ To("clone")
       \/ UNCHANGED prev /\ Trips([op EXCEPT !.pc = "stop"])
    /\ Keeps /\ UNCHANGED <<live, staged>>

BeginClone ==
    /\ Restoring("clone")
    /\ IF Readable(op.i) THEN Stage("part") /\ To("cloning")
                         ELSE UNCHANGED staged /\ To("unclone")
    /\ Keeps /\ UNCHANGED <<live, prev>>

EndClone ==
    /\ Restoring("cloning") /\ ~op.gone /\ Readable(op.i)
    /\ Stage(IF piece[op.i] = "whole" THEN "snap" ELSE "half")
    /\ To("park")
    /\ Keeps /\ UNCHANGED <<live, prev>>

\* Mutant of FailRestoreClone: the error of the clone is dropped.
FailRestoreCloneGoesOn ==
    /\ Restoring("cloning")
    /\ IF Readable(op.i) THEN CommandFails([op EXCEPT !.pc = "park"]) ELSE To("unclone")
    /\ Keeps /\ UNCHANGED treeVars

FailRestoreClone ==
    /\ Restoring("cloning")
    /\ IF Readable(op.i) THEN CommandFails([op EXCEPT !.pc = "unclone"]) ELSE To("unclone")
    /\ Keeps /\ UNCHANGED treeVars

\* The staged tree of a failed swap is removed; an error of that is dropped.
DropStaged ==
    /\ Restoring("unclone")
    /\ \/ Stage("none") /\ Fail
       \/ UNCHANGED staged /\ Trips([op EXCEPT !.pc = "stop"])
    /\ Keeps /\ UNCHANGED <<live, prev>>

\* The first rename; a path that is not there is not an error.
Park ==
    /\ Restoring("park") /\ prev[op.i] = "none"
    /\ prev' = [prev EXCEPT ![op.i] = live[op.i]]
    /\ live' = [live EXCEPT ![op.i] = "none"]
    /\ To("land")
    /\ Keeps /\ UNCHANGED staged

FailPark ==
    /\ Restoring("park")
    /\ LET r == [op EXCEPT !.pc = "unclone"] IN
       IF prev[op.i] = "none" THEN Trips(r) ELSE Go(r)
    /\ Keeps /\ UNCHANGED treeVars

\* The second rename.
Land ==
    /\ Restoring("land") /\ live[op.i] = "none"
    /\ live' = [live EXCEPT ![op.i] = staged[op.i]]
    /\ Stage("none")
    /\ To("tidy")
    /\ Keeps /\ UNCHANGED prev

\* Mutant of FailLand: the old tree is not put back.
FailLandNoRollback ==
    /\ Restoring("land")
    /\ LET r == [op EXCEPT !.pc = "unclone"] IN
       IF live[op.i] = "none" THEN Trips(r) ELSE Go(r)
    /\ Keeps /\ UNCHANGED treeVars

FailLand ==
    /\ Restoring("land")
    /\ LET r == [op EXCEPT !.pc = "rollback"] IN
       IF live[op.i] = "none" THEN Trips(r) ELSE Go(r)
    /\ Keeps /\ UNCHANGED treeVars

\* The old tree, if there was one, goes back; an error of that is dropped.
Rollback ==
    /\ Restoring("rollback")
    /\ \/ /\ IF live[op.i] = "none"
             THEN /\ live' = [live EXCEPT ![op.i] = prev[op.i]]
                  /\ prev' = [prev EXCEPT ![op.i] = "none"]
             ELSE UNCHANGED <<live, prev>>
          /\ To("unclone")
       \/ UNCHANGED <<live, prev>> /\ Trips([op EXCEPT !.pc = "unclone"])
    /\ Keeps /\ UNCHANGED staged

\* The old tree goes; an error of that is logged.
Tidy ==
    /\ Restoring("tidy")
    /\ \/ prev' = [prev EXCEPT ![op.i] = "none"] /\ NextPath
       \/ UNCHANGED prev /\ Trips([op EXCEPT !.pc = "path", !.i = @ + 1])
    /\ Keeps /\ UNCHANGED <<live, staged>>

-----------------------------------------------------------------------------
(***************************************************************************)
(* Btrfs.Restore of a whole subvolume.  clearStaged runs before the swap,  *)
(* after a live subvolume that could not be deleted, and after the second  *)
(* snapshot.  When its command fails, RemoveAll empties the subvolume and  *)
(* cannot remove it.                                                       *)
(***************************************************************************)
AfterClear == CASE op.pc = "reset" -> [op EXCEPT !.pc = "snap"]
                [] op.pc = "undo" -> [op EXCEPT !.pc = "stop"]
                [] op.pc = "settle" -> [op EXCEPT !.pc = "path", !.i = @ + 1]

ClearStaged ==
    /\ op.kind = "restore" /\ op.pc \in {"reset", "undo", "settle"}
    /\ \/ /\ ~op.gone \/ staged[op.i] = "none"
          /\ Stage("none") /\ Go(AfterClear)
       \/ /\ staged[op.i] # "none"
          /\ Stage("part") /\ CommandFails(AfterClear)
    /\ Keeps /\ UNCHANGED <<live, prev>>

\* The writable snapshot beside the path.
SnapStaged ==
    /\ Restoring("snap") /\ ~op.gone
    /\ staged[op.i] = "none" /\ Readable(op.i)
    /\ Stage("snap")
    /\ To("delete")
    /\ Keeps /\ UNCHANGED <<live, prev>>

FailSnapStaged ==
    /\ Restoring("snap")
    /\ IF staged[op.i] = "none" /\ Readable(op.i)
       THEN CommandFails([op EXCEPT !.pc = "stop"]) ELSE Fail
    /\ Keeps /\ UNCHANGED treeVars

\* btrfs subvolume delete: anything but a subvolume is an error.
DeleteLive ==
    /\ Restoring("delete") /\ ~op.gone /\ live[op.i] \in Subvolume
    /\ live' = [live EXCEPT ![op.i] = "none"]
    /\ To("rename")
    /\ Keeps /\ UNCHANGED <<staged, prev>>

FailDeleteLive ==
    /\ Restoring("delete")
    /\ LET r == [op EXCEPT !.pc = "undo"] IN
       IF live[op.i] \in Subvolume THEN CommandFails(r) ELSE Go(r)
    /\ Keeps /\ UNCHANGED treeVars

RenameStaged ==
    /\ Restoring("rename") /\ live[op.i] = "none"
    /\ live' = [live EXCEPT ![op.i] = staged[op.i]]
    /\ Stage("none")
    /\ NextPath
    /\ Keeps /\ UNCHANGED prev

FailRenameStaged ==
    /\ Restoring("rename")
    /\ LET r == [op EXCEPT !.pc = "again"] IN
       IF live[op.i] = "none" THEN Trips(r) ELSE Go(r)
    /\ Keeps /\ UNCHANGED treeVars

\* The live subvolume is gone: the snapshot goes straight to the path.
SnapLive ==
    /\ Restoring("again") /\ ~op.gone /\ live[op.i] = "none"
    /\ live' = [live EXCEPT ![op.i] = "snap"]
    /\ To("settle")
    /\ Keeps /\ UNCHANGED <<staged, prev>>

FailSnapLive ==
    /\ Restoring("again")
    /\ LET r == [op EXCEPT !.pc = "stop"] IN
       IF live[op.i] = "none" THEN CommandFails(r) ELSE Go(r)
    /\ Keeps /\ UNCHANGED treeVars

-----------------------------------------------------------------------------
(***************************************************************************)
(* The agent writes a path, deletes it, makes it again or turns it into a  *)
(* symlink.  A directory made again on btrfs is not a subvolume.  An edit  *)
(* during a delete or while the daemon is down might as well come after it. *)
(***************************************************************************)
AgentEdits ==
    /\ row /\ dir /\ edits < MaxEdits
    /\ phase = "up" /\ op.kind \in {"none", "restore"}
    /\ edits' = edits + 1
    /\ \E i \in Piece :
          /\ \E t \in {"work", "plain", "none", "link"} :
                /\ t # live[i]
                /\ t = "work" => live[i] \in {"snap", "half"}
                /\ t = "plain" => live[i] = "none"
                /\ live' = [live EXCEPT ![i] = t]
          /\ touched' = IF op.kind = "restore" THEN touched \union {i} ELSE touched
    /\ UNCHANGED <<engineVars, staged, prev, was>>

SwapNext ==
    \/ ClearStagedTree \/ ClearPrevious \/ BeginClone \/ EndClone \/ FailRestoreClone
    \/ DropStaged \/ Park \/ FailPark \/ Land \/ FailLand \/ Rollback \/ Tidy

SubvolumeNext ==
    \/ ClearStaged \/ SnapStaged \/ FailSnapStaged \/ DeleteLive \/ FailDeleteLive
    \/ RenameStaged \/ FailRenameStaged \/ SnapLive \/ FailSnapLive

RestoreNext ==
    \/ StartRestore \/ Check \/ Turn \/ Restored \/ Failed
    \/ SwapNext \/ SubvolumeNext

Next ==
    \/ HandleNext /\ UNCHANGED restoreVars
    \/ RestoreNext
    \/ AgentEdits

Spec == Init /\ [][Next]_vars
-----------------------------------------------------------------------------
Call == [kind : {"none", "create", "delete", "orphan", "restore"},
         pc : {"idle", "take", "clone", "mount", "write", "put",
               "remove", "subvols", "unmount", "unshadow", "stop", "drop", "kept",
               "check", "path", "unstage", "unprev", "cloning", "unclone", "park",
               "land", "rollback", "tidy", "reset", "snap", "delete", "rename",
               "again", "undo", "settle"},
         i : 1..(N + 1), todo : SUBSET Piece, m : SUBSET Piece, bad : 0..2,
         gone : BOOLEAN, quiet : BOOLEAN, fit : BOOLEAN]

TypeOK ==
    /\ backend \in AllBackends
    /\ dir \in BOOLEAN /\ row \in BOOLEAN /\ born \in BOOLEAN
    /\ piece \in [Piece -> Part] /\ manifest \in {"none", "torn", "whole"}
    /\ shadows \subseteq Piece
    /\ phase \in {"down", "boot", "up"}
    /\ op \in Call
    /\ last \in [res : {"none", "created", "refused", "removed", "stuck", "restored", "failed"},
                 bad : 0..2, m : SUBSET Piece, fit : BOOLEAN]
    /\ faults \in 0..MaxFaults /\ crashes \in 0..MaxCrashes /\ edits \in 0..MaxEdits
    /\ live \in [Piece -> Tree] /\ staged \in [Piece -> Tree] /\ prev \in [Piece -> Tree]
    /\ was \in [Piece -> Tree] /\ touched \subseteq Piece

\* A declared path never shows a tree that is still being written: the clone
\* goes to the staged name and reaches the path by a rename, whatever fails,
\* crashes or hangs up.
PathsStayWhole == \A i \in Piece : live[i] # "part"

\* A restore that fails leaves the path it failed at, and those after it, as
\* they were, as long as no second step fails and no agent edits them.  The
\* paths before it are restored: the set is a mix.
FailedRestoreKeepsTheRest ==
    Restoring("stop") /\ op.bad <= 1 =>
        \A i \in Piece \ touched :
            IF i < op.i THEN live[i] \in {"snap", "half"} ELSE live[i] = was[i]

\* A restore no step of which fails lands, whatever an interrupted restore
\* left beside the paths, unless the handle cannot be read, a symlink took a
\* path, the agent edited one meanwhile, or btrfs has a whole subvolume to
\* swap where there is none.
RestoreLands ==
    Restoring("stop") /\ op.bad = 0 =>
        \/ manifest # "whole" \/ ~Readable(op.i)
        \/ touched # {} \/ \E i \in Piece : live[i] = "link"
        \/ Swaps(op.i) /\ live[op.i] \notin Subvolume

\* When every step of a restore went well, each path the agent left alone
\* holds what the handle held of it, and nothing is left beside it.
RestoreDelivers ==
    Restoring("path") /\ op.i = N + 1 /\ op.bad = 0 =>
        \A i \in Piece :
            /\ i \in touched \/ live[i] \in {"snap", IF piece[i] = "whole" THEN "snap" ELSE "half"}
            /\ staged[i] = "none" /\ prev[i] = "none"

\* What checkDestination says of every path: one that is not there is the
\* normal case, and the restore puts it back.
MissingPathIsPutBack ==
    Restoring("stop") /\ op.bad = 0 /\ manifest = "whole" /\ touched = {}
        => \/ \E i \in Piece : ~Readable(i)
           \/ \E i \in Piece : live[i] \notin Subvolume \union {"none"}
=============================================================================
