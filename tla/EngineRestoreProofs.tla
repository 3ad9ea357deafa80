------------------------- MODULE EngineRestoreProofs -------------------------
(***************************************************************************)
(* For any sources, backends and bounds: every variable of EngineRestore   *)
(* keeps its type, a declared path never shows a tree that is still being  *)
(* written, a failed restore keeps the rest, one that could land does, and *)
(* what landed is what the handle held.                                    *)
(*                                                                         *)
(* PathsStayWhole is not inductive.  A rename puts the staged tree at the  *)
(* path, so the staged tree must be finished by then (StagedWhole), and a  *)
(* rollback puts the old tree back, so no unfinished tree may be under its *)
(* name either (PreviousWhole).  Which path a step is about is known only  *)
(* while a restore has one in hand (RestoreHand, Hand).                    *)
(*                                                                         *)
(* What a restore promises of the paths needs to be said of each of them   *)
(* at each point: those before the one in hand are finished, those after   *)
(* it wait as they were, and the one in hand stands as its step has it     *)
(* (PathsWell).  One step that fails is allowed for, a second is not.      *)
(*                                                                         *)
(* A call's record is updated one field at a time; the first lemmas say    *)
(* what each update leaves, and the cases below cite them.                 *)
(***************************************************************************)
EXTENDS EngineRestore, TLAPS

AtWork == {"unstage", "unprev", "clone", "cloning", "unclone", "park", "land", "rollback",
           "tidy", "reset", "snap", "delete", "rename", "again", "undo", "settle"}
Pcs == {"idle", "take", "clone", "mount", "write", "put", "remove", "subvols", "unmount",
        "unshadow", "stop", "drop", "kept", "check", "path", "unstage", "unprev", "cloning", "unclone", "park",
        "land", "rollback", "tidy", "reset", "snap", "delete", "rename", "again", "undo", "settle"}

\* What a step does to the point and the source in hand.
Moved(r, q, p, i) == q \in Call /\ q.kind = r.kind /\ q.pc = p /\ q.i = i

\* A call moves to another point.
LEMMA SetPc ==
    ASSUME NEW r \in Call, NEW p \in Pcs
    PROVE  Moved(r, [r EXCEPT !.pc = p], p, r.i)
  BY DEF Call, Pcs, Moved

\* After a source there is another one, or the end.
LEMMA Advance ==
    ASSUME NEW r \in Call, r.i \in Piece
    PROVE  r.i + 1 \in 1..(N + 1)
  <1>1. N \in Nat /\ r.i \in 1..N
    BY EngineAssumption DEF Piece
  <1> QED BY <1>1

\* A call moves to another point and to the next source.
LEMMA SetPcNext ==
    ASSUME NEW r \in Call, NEW p \in Pcs, r.i \in Piece
    PROVE  Moved(r, [r EXCEPT !.pc = p, !.i = @ + 1], p, r.i + 1)
  <1>1. PICK j \in 1..(N + 1) : j = r.i + 1
    BY Advance
  <1>2. Moved(r, [r EXCEPT !.pc = p, !.i = j], p, j)
    BY ZenonT(60) DEF Call, Pcs, Moved
  <1> QED BY <1>1, <1>2

\* A create moves to the next source.
LEMMA SetTook ==
    ASSUME op \in Call, op.i \in Piece
    PROVE  Moved(op, Took, "take", op.i + 1)
  <1>1. PICK j \in 1..(N + 1) : j = op.i + 1
    BY Advance
  <1>2. PICK S \in SUBSET Piece : S = op.m \union {op.i}
    BY DEF Call
  <1>3. Moved(op, [op EXCEPT !.pc = "take", !.i = j, !.m = S], "take", j)
    BY DEF Call, Moved
  <1> QED BY <1>1, <1>2, <1>3 DEF Took

\* A create turns to its cleanup.
LEMMA SetCleanup ==
    ASSUME backend \in AllBackends, op \in Call, NEW S \in SUBSET Piece
    PROVE  /\ Moved(op, Cleanup(S), Cleanup(S).pc, op.i)
           /\ Cleanup(S).pc \in {"remove", "subvols", "unmount"}
  BY DEF Call, AllBackends, Cleanup, Moved

\* A failing step is counted.
LEMMA SetBad ==
    ASSUME NEW r \in Call
    PROVE  Moved(r, [r EXCEPT !.bad = More(@)], r.pc, r.i)
  BY DEF Call, More, Moved

\* A removal has fewer pieces to go through, or starts over on the shadow copies.
LEMMA SetTodo ==
    ASSUME NEW r \in Call, NEW S \in SUBSET Piece
    PROVE  /\ Moved(r, [r EXCEPT !.todo = S], r.pc, r.i)
           /\ Moved(r, [r EXCEPT !.pc = "unshadow", !.todo = S], "unshadow", r.i)
  BY DEF Call, Moved

\* The context dies.
LEMMA SetGone ==
    ASSUME NEW r \in Call, NEW g \in BOOLEAN
    PROVE  Moved(r, [r EXCEPT !.gone = g], r.pc, r.i)
  BY DEF Call, Moved

\* No call is a call.
LEMMA Idles == Idle \in Call /\ Idle.kind = "none" /\ Idle.pc = "idle" /\ Idle.i = 1
  BY EngineAssumption DEF Call, Idle

\* A removal that begins, whatever it read of the manifest.
LEMMA SetDelete ==
    ASSUME backend \in AllBackends, NEW k \in {"delete", "orphan"}
    PROVE  DeleteCall(k) \in Call /\ DeleteCall(k).kind = k
  <1>1. PICK w \in BOOLEAN : w = ~Wedged
    OBVIOUS
  <1>2. PICK S \in SUBSET Piece : S = IF manifest = "whole" THEN Piece ELSE {}
    OBVIOUS
  <1>3. PICK p \in Pcs : p = CASE backend = "copy" \/ manifest # "whole" -> "remove"
                               [] backend = "btrfs" /\ manifest = "whole" -> "subvols"
                               [] backend = "vss" /\ manifest = "whole" -> "unmount"
    BY DEF AllBackends, Pcs
  <1>4. PICK q \in BOOLEAN : q = (backend = "vss" /\ manifest = "whole")
    OBVIOUS
  <1>5. PICK r1 \in Call : r1 = [Idle EXCEPT !.kind = k] /\ r1.kind = k
    <2>1. [Idle EXCEPT !.kind = k] \in Call /\ [Idle EXCEPT !.kind = k].kind = k
      BY Idles DEF Call
    <2> QED BY <2>1
  <1>6. PICK r2 \in Call : r2 = [r1 EXCEPT !.pc = p] /\ r2.kind = k
    <2>1. Moved(r1, [r1 EXCEPT !.pc = p], p, r1.i)
      BY SetPc
    <2> QED BY <2>1, <1>5 DEF Moved
  <1>7. PICK r3 \in Call : r3 = [r2 EXCEPT !.todo = S, !.m = S] /\ r3.kind = k
    <2>1. [r2 EXCEPT !.todo = S, !.m = S] \in Call /\ [r2 EXCEPT !.todo = S, !.m = S].kind = r2.kind
      BY DEF Call
    <2> QED BY <2>1, <1>6
  <1>8. PICK r4 \in Call : r4 = [r3 EXCEPT !.fit = w] /\ r4.kind = k
    <2>1. [r3 EXCEPT !.fit = w] \in Call /\ [r3 EXCEPT !.fit = w].kind = r3.kind
      BY DEF Call
    <2> QED BY <2>1, <1>7
  <1>9. PICK r5 \in Call : r5 = [r4 EXCEPT !.quiet = q] /\ r5.kind = k
    <2>1. [r4 EXCEPT !.quiet = q] \in Call /\ [r4 EXCEPT !.quiet = q].kind = r4.kind
      BY DEF Call
    <2> QED BY <2>1, <1>8
  <1>10. r5 = DeleteCall(k)
    <2>1. r5 = [Idle EXCEPT !.kind = k, !.pc = p, !.todo = S, !.m = S, !.fit = w, !.quiet = q]
      BY <1>5, <1>6, <1>7, <1>8, <1>9
    <2> QED BY <1>1, <1>2, <1>3, <1>4, <2>1 DEF DeleteCall
  <1> QED BY <1>9, <1>10

LifeTypes ==
    /\ backend \in AllBackends
    /\ row \in BOOLEAN /\ born \in BOOLEAN
    /\ phase \in {"down", "boot", "up"}
    /\ last \in [res : {"none", "created", "refused", "removed", "stuck", "restored", "failed"},
                 bad : 0..2, m : SUBSET Piece, fit : BOOLEAN]
    /\ faults \in 0..MaxFaults /\ crashes \in 0..MaxCrashes

DiskTypes ==
    /\ dir \in BOOLEAN /\ piece \in [Piece -> Part]
    /\ manifest \in {"none", "torn", "whole"} /\ shadows \subseteq Piece

\* A step that goes on keeps the types of all but the call.
LEMMA GoKeeps ==
    ASSUME LifeTypes, NEW r, Go(r)
    PROVE  LifeTypes' /\ op' = r
  BY DEF LifeTypes, Go, lifeVars

\* So does the call the service makes next.
LEMMA BeginKeeps ==
    ASSUME LifeTypes, NEW r, Begin(r)
    PROVE  LifeTypes' /\ op' = r
  BY DEF LifeTypes, Begin, lifeVars, NoCall

\* So does one that fails a file operation.
LEMMA TripsKeeps ==
    ASSUME LifeTypes, NEW r \in Call, Trips(r)
    PROVE  LifeTypes' /\ Moved(r, op', r.pc, r.i)
  <1>1. Moved(r, op', r.pc, r.i)
    BY SetBad DEF Trips
  <1>2. faults' \in 0..MaxFaults
    BY EngineAssumption DEF Trips, LifeTypes
  <1> QED BY <1>1, <1>2 DEF LifeTypes, Trips, lifeVars

\* So does one that fails a command.
LEMMA CommandFailsKeeps ==
    ASSUME LifeTypes, NEW r \in Call, CommandFails(r)
    PROVE  LifeTypes' /\ Moved(r, op', r.pc, r.i)
  <1>1. CASE Trips(r)
    BY <1>1, TripsKeeps
  <1>2. CASE op' = [r EXCEPT !.bad = More(@)] /\ UNCHANGED <<backend, lifeVars, last, faults>>
    BY <1>2, SetBad DEF LifeTypes, lifeVars
  <1> QED BY <1>1, <1>2 DEF CommandFails

\* So does one that answers.
LEMMA AnswerKeeps ==
    ASSUME LifeTypes, op \in Call, NEW r \in BOOLEAN, phase' \in {"down", "boot", "up"},
           NEW res \in {"none", "created", "refused", "removed", "stuck", "restored", "failed"},
           Answer(res, r)
    PROVE  LifeTypes' /\ op' = Idle
  <1>1. last' \in [res : {"none", "created", "refused", "removed", "stuck", "restored", "failed"},
                 bad : 0..2, m : SUBSET Piece, fit : BOOLEAN]
    BY DEF Answer, Call
  <1> QED BY <1>1 DEF LifeTypes, Answer

Hand == op.kind = "create" /\ op.pc \in {"clone", "mount"} => op.i \in Piece

HandleTypes == LifeTypes /\ DiskTypes /\ op \in Call

\* What a step of a handle's life owes: the types, and that it neither begins
\* a restore nor moves one.
Settled == \/ op'.kind # "restore" /\ Hand'
           \/ op'.kind = op.kind /\ op'.pc = op.pc /\ op'.i = op.i
Kept == HandleTypes' /\ Settled

\* A create that fails a step and turns to its cleanup.
LEMMA ToCleanup ==
    ASSUME HandleTypes, op.kind = "create", NEW S \in SUBSET Piece
    PROVE  /\ CommandFails(Cleanup(S)) \/ Trips(Cleanup(S)) => LifeTypes' /\ op' \in Call /\ Settled
           /\ Trips([Cleanup(S) EXCEPT !.bad = 2]) => LifeTypes' /\ op' \in Call /\ Settled
  <1> USE DEF HandleTypes
  <1>1. PICK r \in Call : /\ r = Cleanup(S) /\ r.kind = "create"
                          /\ r.pc \in {"remove", "subvols", "unmount"}
    BY SetCleanup DEF LifeTypes, Moved
  <1>2. PICK t \in Call : t = [r EXCEPT !.bad = 2] /\ t.kind = r.kind /\ t.pc = r.pc
    <2>1. [r EXCEPT !.bad = 2] \in Call /\ [r EXCEPT !.bad = 2].kind = r.kind /\ [r EXCEPT !.bad = 2].pc = r.pc
      BY DEF Call
    <2> QED BY <2>1
  <1>3. CommandFails(r) \/ Trips(r) \/ Trips(t)
            => LifeTypes' /\ op' \in Call /\ op'.kind = "create" /\ op'.pc = r.pc
    BY <1>1, <1>2, CommandFailsKeeps, TripsKeeps DEF Moved
  <1>4. op'.kind = "create" /\ op'.pc = r.pc => Settled
    BY <1>1 DEF Settled, Hand
  <1> QED BY <1>1, <1>2, <1>3, <1>4

\* The steps of a create.
LEMMA CreateKeeps ==
    ASSUME HandleTypes, Hand, CreateNext
    PROVE  Kept
  <1> USE DEF HandleTypes, Hand, Kept, Settled
  <1>1. CASE StartCreate
    <2>1. op' \in Call /\ op'.kind = "create" /\ op'.pc = "take"
      BY <1>1, EngineAssumption DEF StartCreate, Idle, Call
    <2> QED BY <1>1, <2>1 DEF StartCreate, LifeTypes, DiskTypes
  <1>2. CASE TakeCopy
    <2>1. LifeTypes' /\ Moved(op, op', "clone", op.i)
      BY <1>2, GoKeeps, SetPc DEF TakeCopy, To, Pcs
    <2>2. DiskTypes'
      BY <1>2 DEF TakeCopy, DiskTypes, Part
    <2> QED BY <1>2, <2>1, <2>2 DEF Moved, TakeCopy, In
  <1>3. CASE FinishClone
    <2>1. op.i \in Piece /\ op.kind = "create" /\ Go(Took)
      BY <1>3 DEF FinishClone, In
    <2>2. LifeTypes' /\ Moved(op, op', "take", op.i + 1)
      BY <2>1, GoKeeps, SetTook DEF LifeTypes
    <2>3. DiskTypes'
      BY <1>3 DEF FinishClone, DiskTypes, Part
    <2> QED BY <2>1, <2>2, <2>3 DEF Moved
  <1>4. CASE FailClone
    <2>1. op.kind = "create" /\ op.m \in SUBSET Piece
      BY <1>4 DEF FailClone, In, Call
    <2>2. LifeTypes' /\ op' \in Call /\ Settled
      BY <1>4, <2>1, ToCleanup DEF FailClone
    <2>3. DiskTypes'
      BY <1>4 DEF FailClone, DiskTypes, handleVars
    <2> QED BY <2>2, <2>3
  <1>5. CASE TakeSubvolume
    <2>1. op.i \in Piece /\ op.kind = "create" /\ Go(Took)
      BY <1>5 DEF TakeSubvolume, In
    <2>2. LifeTypes' /\ Moved(op, op', "take", op.i + 1)
      BY <2>1, GoKeeps, SetTook DEF LifeTypes
    <2>3. DiskTypes'
      BY <1>5 DEF TakeSubvolume, DiskTypes, Part
    <2> QED BY <2>1, <2>2, <2>3 DEF Moved
  <1>6. CASE TakeShadow
    <2>1. LifeTypes' /\ Moved(op, op', "mount", op.i)
      BY <1>6, GoKeeps, SetPc DEF TakeShadow, To, Pcs
    <2>2. DiskTypes'
      BY <1>6 DEF TakeShadow, DiskTypes, Part
    <2> QED BY <1>6, <2>1, <2>2 DEF Moved, TakeShadow, In
  <1>7. CASE FailTake
    <2>1. op.kind = "create" /\ op.m \in SUBSET Piece
      BY <1>7 DEF FailTake, In, Call
    <2>2. LifeTypes' /\ op' \in Call /\ Settled
      BY <1>7, <2>1, ToCleanup DEF FailTake
    <2>3. DiskTypes'
      BY <1>7 DEF FailTake, DiskTypes, handleVars
    <2> QED BY <2>2, <2>3
  <1>8. CASE LoseShadow
    <2>1. op.kind = "create" /\ op.m \in SUBSET Piece
      BY <1>8 DEF LoseShadow, In, Call
    <2>2. LifeTypes' /\ op' \in Call /\ Settled
      BY <1>8, <2>1, ToCleanup DEF LoseShadow
    <2>3. DiskTypes'
      BY <1>8 DEF LoseShadow, DiskTypes, handleVars
    <2> QED BY <2>2, <2>3
  <1>9. CASE Mount
    <2>1. op.i \in Piece /\ op.kind = "create" /\ Go(Took)
      BY <1>9 DEF Mount, In
    <2>2. LifeTypes' /\ Moved(op, op', "take", op.i + 1)
      BY <2>1, GoKeeps, SetTook DEF LifeTypes
    <2>3. DiskTypes'
      BY <1>9 DEF Mount, DiskTypes, Part
    <2> QED BY <2>1, <2>2, <2>3 DEF Moved
  <1>10. CASE FailMount
    <2>1. op.kind = "create" /\ op.m \union {op.i} \in SUBSET Piece
      BY <1>10 DEF FailMount, In, Call
    <2>2. LifeTypes' /\ op' \in Call /\ Settled
      BY <1>10, <2>1, ToCleanup DEF FailMount
    <2>3. DiskTypes'
      BY <1>10 DEF FailMount, DiskTypes, handleVars
    <2> QED BY <2>2, <2>3
  <1>11. CASE OpenManifest
    <2>1. LifeTypes' /\ Moved(op, op', "write", op.i)
      BY <1>11, GoKeeps, SetPc DEF OpenManifest, To, Pcs
    <2>2. DiskTypes'
      BY <1>11 DEF OpenManifest, DiskTypes, Part
    <2> QED BY <1>11, <2>1, <2>2 DEF Moved, OpenManifest, In
  <1>12. CASE WriteManifest
    <2>1. LifeTypes' /\ Moved(op, op', "put", op.i)
      BY <1>12, GoKeeps, SetPc DEF WriteManifest, To, Pcs
    <2>2. DiskTypes'
      BY <1>12 DEF WriteManifest, DiskTypes, Part
    <2> QED BY <1>12, <2>1, <2>2 DEF Moved, WriteManifest, In
  <1>13. CASE FailManifest
    <2>1. op.kind = "create" /\ op.m \in SUBSET Piece
      BY <1>13 DEF FailManifest, In, Call
    <2>2. LifeTypes' /\ op' \in Call /\ Settled
      BY <1>13, <2>1, ToCleanup DEF FailManifest
    <2>3. DiskTypes'
      BY <1>13 DEF FailManifest, DiskTypes, handleVars
    <2> QED BY <2>2, <2>3
  <1>14. CASE PutRow
    <2>1. LifeTypes' /\ op' = Idle
      <3>1. phase' \in {"down", "boot", "up"} /\ Answer("created", TRUE)
        BY <1>14 DEF PutRow, LifeTypes
      <3> QED BY <3>1, AnswerKeeps
    <2>2. DiskTypes'
      BY <1>14 DEF PutRow, DiskTypes, handleVars
    <2> QED BY <2>1, <2>2, Idles
  <1>15. CASE FailPutRow
    <2>1. PICK r \in Call : r = DeleteCall("delete") /\ r.kind = "delete"
      BY SetDelete DEF LifeTypes
    <2>2. PICK g \in BOOLEAN : g = op.gone
      BY DEF Call
    <2>3. PICK t \in Call : t = [r EXCEPT !.gone = g] /\ t.kind = "delete"
      BY <2>1, SetGone, ZenonT(60) DEF Moved
    <2>4. CommandFails(t)
      BY <1>15, <2>1, <2>2, <2>3 DEF FailPutRow
    <2>5. LifeTypes' /\ op' \in Call /\ op'.kind = "delete"
      BY <2>3, <2>4, CommandFailsKeeps DEF Moved
    <2>6. DiskTypes'
      BY <1>15 DEF FailPutRow, DiskTypes, handleVars
    <2> QED BY <2>5, <2>6
  <1> QED BY <1>1, <1>2, <1>3, <1>4, <1>5, <1>6, <1>7, <1>8, <1>9, <1>10, <1>11, <1>12, <1>13, <1>14, <1>15 DEF CreateNext

\* A removal that ends gives its call back, or goes on to the row.
LEMMA RemovalEnds ==
    ASSUME HandleTypes, Removed \/ NotRemoved
    PROVE  LifeTypes' /\ op' \in Call /\ op'.kind # "restore" /\ Hand'
  <1> USE DEF HandleTypes
  <1>1. CASE \E res \in {"refused", "removed", "stuck"}, r \in BOOLEAN :
                 Answer(res, r) /\ phase' \in {"down", "up", phase}
    <2>1. phase' \in {"down", "boot", "up"}
      BY <1>1 DEF LifeTypes
    <2>2. LifeTypes' /\ op' = Idle
      BY <1>1, <2>1, AnswerKeeps
    <2> QED BY <2>2, Idles DEF Hand
  <1>2. CASE op.kind = "delete" /\ To("drop")
    <2>1. LifeTypes' /\ Moved(op, op', "drop", op.i)
      BY <1>2, GoKeeps, SetPc DEF To, Pcs
    <2> QED BY <1>2, <2>1 DEF Moved, Hand
  <1>3. Removed => \/ op.kind = "delete" /\ To("drop")
                   \/ \E res \in {"refused", "removed"} :
                          Answer(res, FALSE) /\ phase' \in {"up", phase}
    BY DEF Removed
  <1>4. NotRemoved => \/ Removed
                      \/ Answer("stuck", row) /\ phase' \in {"down", phase}
    BY DEF NotRemoved
  <1>5. row \in BOOLEAN
    BY DEF LifeTypes
  <1> QED BY <1>1, <1>2, <1>3, <1>4, <1>5

\* The steps of a removal.
LEMMA DeleteKeeps ==
    ASSUME HandleTypes, Hand, DeleteNext
    PROVE  Kept
  <1> USE DEF HandleTypes, Hand, Kept, Settled
  <1>1. CASE StartDelete
    <2>1. LifeTypes' /\ op' = DeleteCall("delete")
      BY <1>1, BeginKeeps DEF StartDelete
    <2>2. DiskTypes'
      BY <1>1 DEF StartDelete, DiskTypes, handleVars
    <2> QED BY <2>1, <2>2, SetDelete DEF LifeTypes
  <1>2. CASE DeleteSubvolume
    <2>1. PICK S \in SUBSET Piece : S = op.todo \ {Lowest(op.todo)}
      BY DEF Call
    <2>2. PICK r \in Call : r = [op EXCEPT !.todo = S] /\ Moved(op, r, op.pc, op.i)
      BY SetTodo DEF Moved
    <2>3. op.todo \ {Lowest(op.todo)} = S /\ [op EXCEPT !.todo = @ \ {Lowest(op.todo)}] = r
      BY <2>1, <2>2
    <2>4. Go(r)
      BY <1>2, <2>3 DEF DeleteSubvolume
    <2>5. LifeTypes' /\ Moved(op, op', op.pc, op.i)
      <3>1. Go(r) => LifeTypes' /\ op' = r
        BY GoKeeps
      <3>2. CommandFails(r) => LifeTypes' /\ Moved(r, op', r.pc, r.i)
        BY CommandFailsKeeps
      <3> QED BY <2>2, <2>4, <3>1, <3>2 DEF Moved
    <2>6. DiskTypes'
      BY <1>2 DEF DeleteSubvolume, DiskTypes, handleVars, Part
    <2> QED BY <2>5, <2>6 DEF Moved
  <1>3. CASE SkipSubvolume
    <2>1. PICK S \in SUBSET Piece : S = op.todo \ {Lowest(op.todo)}
      BY DEF Call
    <2>2. PICK r \in Call : r = [op EXCEPT !.todo = S] /\ Moved(op, r, op.pc, op.i)
      BY SetTodo DEF Moved
    <2>3. op.todo \ {Lowest(op.todo)} = S /\ [op EXCEPT !.todo = @ \ {Lowest(op.todo)}] = r
      BY <2>1, <2>2
    <2>4. CommandFails(r)
      BY <1>3, <2>3 DEF SkipSubvolume
    <2>5. LifeTypes' /\ Moved(op, op', op.pc, op.i)
      <3>1. Go(r) => LifeTypes' /\ op' = r
        BY GoKeeps
      <3>2. CommandFails(r) => LifeTypes' /\ Moved(r, op', r.pc, r.i)
        BY CommandFailsKeeps
      <3> QED BY <2>2, <2>4, <3>1, <3>2 DEF Moved
    <2>6. DiskTypes'
      BY <1>3 DEF SkipSubvolume, DiskTypes, handleVars, Part
    <2> QED BY <2>5, <2>6 DEF Moved
  <1>4. CASE StopAtMissing
    <2>1. LifeTypes' /\ op' \in Call /\ op'.kind # "restore" /\ Hand'
      BY <1>4, RemovalEnds DEF StopAtMissing
    <2>2. DiskTypes'
      BY <1>4 DEF StopAtMissing, DiskTypes, handleVars
    <2> QED BY <2>1, <2>2
  <1>5. CASE StopAtSubvolume
    <2>1. PICK r \in Call : r = [op EXCEPT !.pc = "stop"] /\ Moved(op, r, "stop", op.i)
      <3>1. Moved(op, [op EXCEPT !.pc = "stop"], "stop", op.i)
        BY SetPc DEF Pcs
      <3> QED BY <3>1 DEF Moved
    <2>2. LifeTypes' /\ Moved(r, op', r.pc, r.i)
      BY <1>5, <2>1, CommandFailsKeeps DEF StopAtSubvolume
    <2>3. DiskTypes'
      BY <1>5 DEF StopAtSubvolume, DiskTypes, handleVars
    <2> QED BY <1>5, <2>1, <2>2, <2>3 DEF Moved, StopAtSubvolume, Removing
  <1>6. CASE Unmount
    <2>1. PICK S \in SUBSET Piece : S = op.todo \ {Lowest(op.todo)}
      BY DEF Call
    <2>2. PICK r \in Call : r = [op EXCEPT !.todo = S] /\ Moved(op, r, op.pc, op.i)
      BY SetTodo DEF Moved
    <2>3. op.todo \ {Lowest(op.todo)} = S /\ [op EXCEPT !.todo = @ \ {Lowest(op.todo)}] = r
      BY <2>1, <2>2
    <2>4. Go(r) \/ CommandFails(r)
      BY <1>6, <2>3 DEF Unmount
    <2>5. LifeTypes' /\ Moved(op, op', op.pc, op.i)
      <3>1. Go(r) => LifeTypes' /\ op' = r
        BY GoKeeps
      <3>2. CommandFails(r) => LifeTypes' /\ Moved(r, op', r.pc, r.i)
        BY CommandFailsKeeps
      <3> QED BY <2>2, <2>4, <3>1, <3>2 DEF Moved
    <2>6. DiskTypes'
      BY <1>6 DEF Unmount, DiskTypes, handleVars, Part
    <2> QED BY <2>5, <2>6 DEF Moved
  <1>7. CASE Unmounted
    <2>1. PICK S \in SUBSET Piece : S = op.m
      BY DEF Call
    <2>2. Moved(op, [op EXCEPT !.pc = "unshadow", !.todo = S], "unshadow", op.i)
      BY SetTodo
    <2>3. LifeTypes' /\ op' = [op EXCEPT !.pc = "unshadow", !.todo = S]
      BY <1>7, <2>1, GoKeeps DEF Unmounted
    <2>4. DiskTypes'
      BY <1>7 DEF Unmounted, DiskTypes, handleVars
    <2> QED BY <1>7, <2>2, <2>3, <2>4 DEF Moved, Unmounted, Removing
  <1>8. CASE DeleteShadow
    <2>1. PICK S \in SUBSET Piece : S = op.todo \ {Lowest(op.todo)}
      BY DEF Call
    <2>2. PICK r \in Call : r = [op EXCEPT !.todo = S] /\ Moved(op, r, op.pc, op.i)
      BY SetTodo DEF Moved
    <2>3. op.todo \ {Lowest(op.todo)} = S /\ [op EXCEPT !.todo = @ \ {Lowest(op.todo)}] = r
      BY <2>1, <2>2
    <2>4. Go(r) \/ CommandFails(r)
      BY <1>8, <2>3 DEF DeleteShadow
    <2>5. LifeTypes' /\ Moved(op, op', op.pc, op.i)
      <3>1. Go(r) => LifeTypes' /\ op' = r
        BY GoKeeps
      <3>2. CommandFails(r) => LifeTypes' /\ Moved(r, op', r.pc, r.i)
        BY CommandFailsKeeps
      <3> QED BY <2>2, <2>4, <3>1, <3>2 DEF Moved
    <2>6. DiskTypes'
      BY <1>8 DEF DeleteShadow, DiskTypes, handleVars, Part
    <2> QED BY <2>5, <2>6 DEF Moved
  <1>9. CASE PiecesDone
    <2>1. LifeTypes' /\ Moved(op, op', "remove", op.i)
      BY <1>9, GoKeeps, SetPc DEF PiecesDone, To, Pcs
    <2>2. DiskTypes'
      BY <1>9 DEF PiecesDone, DiskTypes, handleVars, Part
    <2> QED BY <1>9, <2>1, <2>2 DEF Moved, PiecesDone, Removing
  <1>10. CASE RemovePart
    <2>1. LifeTypes' /\ Moved(op, op', "remove", op.i)
      BY <1>10, GoKeeps, SetPc DEF RemovePart, To, Pcs
    <2>2. DiskTypes'
      BY <1>10 DEF RemovePart, DiskTypes, handleVars, Part
    <2> QED BY <1>10, <2>1, <2>2 DEF Moved, RemovePart, Removing
  <1>11. CASE RemoveDir
    <2>1. LifeTypes' /\ op' \in Call /\ op'.kind # "restore" /\ Hand'
      BY <1>11, RemovalEnds DEF RemoveDir
    <2>2. DiskTypes'
      BY <1>11 DEF RemoveDir, DiskTypes, handleVars
    <2> QED BY <2>1, <2>2
  <1>12. CASE ReadOnlyLeft
    <2>1. LifeTypes' /\ op' \in Call /\ op'.kind # "restore" /\ Hand'
      BY <1>12, RemovalEnds DEF ReadOnlyLeft
    <2>2. DiskTypes'
      BY <1>12 DEF ReadOnlyLeft, DiskTypes, handleVars
    <2> QED BY <2>1, <2>2
  <1>13. CASE FailRemove
    <2>1. PICK r \in Call : r = [op EXCEPT !.pc = "stop"] /\ Moved(op, r, "stop", op.i)
      <3>1. Moved(op, [op EXCEPT !.pc = "stop"], "stop", op.i)
        BY SetPc DEF Pcs
      <3> QED BY <3>1 DEF Moved
    <2>2. LifeTypes' /\ Moved(r, op', r.pc, r.i)
      BY <1>13, <2>1, TripsKeeps DEF FailRemove
    <2>3. DiskTypes'
      BY <1>13 DEF FailRemove, DiskTypes, handleVars
    <2> QED BY <1>13, <2>1, <2>2, <2>3 DEF Moved, FailRemove, Removing
  <1>14. CASE ReturnError
    <2>1. LifeTypes' /\ op' \in Call /\ op'.kind # "restore" /\ Hand'
      BY <1>14, RemovalEnds DEF ReturnError
    <2>2. DiskTypes'
      BY <1>14 DEF ReturnError, DiskTypes, handleVars
    <2> QED BY <2>1, <2>2
  <1>15. CASE DropRow
    <2>1. LifeTypes' /\ op' = Idle
      <3>1. phase' \in {"down", "boot", "up"} /\ Answer("removed", FALSE)
        BY <1>15 DEF DropRow, LifeTypes
      <3> QED BY <3>1, AnswerKeeps
    <2>2. DiskTypes'
      BY <1>15 DEF DropRow, DiskTypes, handleVars
    <2> QED BY <2>1, <2>2, Idles
  <1>16. CASE FailDropRow
    <2>1. PICK r \in Call : r = [op EXCEPT !.pc = "kept"] /\ Moved(op, r, "kept", op.i)
      <3>1. Moved(op, [op EXCEPT !.pc = "kept"], "kept", op.i)
        BY SetPc DEF Pcs
      <3> QED BY <3>1 DEF Moved
    <2>2. LifeTypes' /\ Moved(r, op', r.pc, r.i)
      BY <1>16, <2>1, CommandFailsKeeps DEF FailDropRow
    <2>3. DiskTypes'
      BY <1>16 DEF FailDropRow, DiskTypes, handleVars
    <2> QED BY <1>16, <2>1, <2>2, <2>3 DEF Moved, FailDropRow, In
  <1>17. CASE KeepRow
    <2>1. LifeTypes' /\ op' = Idle
      <3>1. phase' \in {"down", "boot", "up"} /\ row \in BOOLEAN /\ Answer("stuck", row)
        BY <1>17 DEF KeepRow, LifeTypes
      <3> QED BY <3>1, AnswerKeeps
    <2>2. DiskTypes'
      BY <1>17 DEF KeepRow, DiskTypes, handleVars
    <2> QED BY <2>1, <2>2, Idles
  <1> QED BY <1>1, <1>2, <1>3, <1>4, <1>5, <1>6, <1>7, <1>8, <1>9, <1>10, <1>11, <1>12, <1>13,
             <1>14, <1>15, <1>16, <1>17 DEF DeleteNext

\* The client, the provider, the crash and the start.
LEMMA LifeKeeps ==
    ASSUME HandleTypes, Hand, LifeNext
    PROVE  Kept
  <1> USE DEF HandleTypes, Hand, Kept, Settled
  <1>1. CASE HangUp
    <2>1. LifeTypes' /\ Moved(op, op', op.pc, op.i)
      BY <1>1, GoKeeps, SetGone DEF HangUp
    <2>2. DiskTypes'
      BY <1>1 DEF HangUp, DiskTypes, handleVars
    <2> QED BY <2>1, <2>2 DEF Moved
  <1>2. CASE Evict
    BY <1>2 DEF Evict, LifeTypes, DiskTypes, lifeVars
  <1>3. CASE Crash
    <2>1. last' = NoCall /\ op' = Idle
      BY <1>3 DEF Crash
    <2>2. LifeTypes'
      BY <1>3, <2>1, EngineAssumption DEF Crash, LifeTypes, NoCall
    <2> QED BY <1>3, <2>1, <2>2, Idles DEF Crash, DiskTypes, handleVars
  <1>4. CASE ReconcileRow
    <2>1. faults' \in 0..MaxFaults /\ row' \in BOOLEAN
      BY <1>4, EngineAssumption DEF ReconcileRow, LifeTypes, DiskTypes
    <2> QED BY <1>4, <2>1 DEF ReconcileRow, LifeTypes, DiskTypes, handleVars, NoCall
  <1>5. CASE ReconcileOrphan
    <2>1. op' \in Call /\ op'.kind = "orphan"
      BY <1>5, SetDelete DEF ReconcileOrphan, LifeTypes
    <2> QED BY <1>5, <2>1 DEF ReconcileOrphan, LifeTypes, DiskTypes, handleVars, NoCall
  <1>6. CASE ReconcileClean
    BY <1>6 DEF ReconcileClean, LifeTypes, DiskTypes, handleVars, NoCall
  <1>7. CASE Restart
    BY <1>7 DEF Restart, LifeTypes, DiskTypes, handleVars, NoCall
  <1> QED BY <1>1, <1>2, <1>3, <1>4, <1>5, <1>6, <1>7 DEF LifeNext

TreeTypes ==
    /\ live \in [Piece -> Tree] /\ staged \in [Piece -> Tree] /\ prev \in [Piece -> Tree]
    /\ was \in [Piece -> Tree] /\ touched \subseteq Piece
    /\ edits \in 0..MaxEdits

RestoreHand ==
    op.kind = "restore" => /\ op.pc \in AtWork \union {"check", "path", "stop"}
                           /\ op.pc \in AtWork => op.i \in Piece

PreviousWhole == \A i \in Piece : prev[i] # "part"

StagedWhole ==
    op.kind = "restore" /\ op.pc \in {"park", "land", "delete", "rename"}
        => staged[op.i] \in {"snap", "half"}

Wholes == PathsStayWhole /\ PreviousWhole /\ StagedWhole

IInv == HandleTypes /\ Hand /\ TreeTypes /\ RestoreHand /\ Wholes

\* The three groups of types are the type invariant.
LEMMA TypesAgree == HandleTypes /\ TreeTypes <=> TypeOK
  BY DEF HandleTypes, LifeTypes, DiskTypes, TreeTypes, TypeOK

Progress(p, i) == LifeTypes' /\ op' \in Call /\ op'.kind = "restore" /\ op'.pc = p /\ op'.i = i

\* A step of a restore that goes to another point.
LEMMA Moves ==
    ASSUME HandleTypes, op.kind = "restore", NEW p \in Pcs
    PROVE  /\ To(p) => Progress(p, op.i)
           /\ Go([op EXCEPT !.pc = p]) => Progress(p, op.i)
           /\ Trips([op EXCEPT !.pc = p]) => Progress(p, op.i)
           /\ CommandFails([op EXCEPT !.pc = p]) => Progress(p, op.i)
  <1> USE DEF HandleTypes
  <1>1. PICK r \in Call : r = [op EXCEPT !.pc = p] /\ Moved(op, r, p, op.i)
    <2>1. Moved(op, [op EXCEPT !.pc = p], p, op.i)
      BY SetPc
    <2> QED BY <2>1 DEF Moved
  <1>2. Go(r) => Progress(p, op.i)
    BY <1>1, GoKeeps DEF Progress, Moved
  <1>3. Trips(r) => Progress(p, op.i)
    BY <1>1, TripsKeeps DEF Progress, Moved
  <1>4. CommandFails(r) => Progress(p, op.i)
    BY <1>1, CommandFailsKeeps DEF Progress, Moved
  <1> QED BY <1>1, <1>2, <1>3, <1>4 DEF To

\* A step of a restore that goes to the next path.
LEMMA MovesOn ==
    ASSUME HandleTypes, op.kind = "restore", op.i \in Piece
    PROVE  /\ NextPath => Progress("path", op.i + 1)
           /\ Go([op EXCEPT !.pc = "path", !.i = @ + 1]) => Progress("path", op.i + 1)
           /\ Trips([op EXCEPT !.pc = "path", !.i = @ + 1]) => Progress("path", op.i + 1)
           /\ CommandFails([op EXCEPT !.pc = "path", !.i = @ + 1]) => Progress("path", op.i + 1)
  <1> USE DEF HandleTypes
  <1>1. PICK r \in Call : r = [op EXCEPT !.pc = "path", !.i = @ + 1] /\ Moved(op, r, "path", op.i + 1)
    <2>1. Moved(op, [op EXCEPT !.pc = "path", !.i = @ + 1], "path", op.i + 1)
      BY SetPcNext DEF Pcs
    <2> QED BY <2>1 DEF Moved
  <1>2. Go(r) => Progress("path", op.i + 1)
    BY <1>1, GoKeeps DEF Progress, Moved
  <1>3. Trips(r) => Progress("path", op.i + 1)
    BY <1>1, TripsKeeps DEF Progress, Moved
  <1>4. CommandFails(r) => Progress("path", op.i + 1)
    BY <1>1, CommandFailsKeeps DEF Progress, Moved
  <1> QED BY <1>1, <1>2, <1>3, <1>4 DEF NextPath

\* What is left to show of a step of a restore that goes on.
LEMMA Continues ==
    ASSUME IInv, Keeps, NEW p, NEW i, Progress(p, i),
           p \in AtWork \union {"check", "path", "stop"}, p \in AtWork => i \in Piece,
           live' \in [Piece -> Tree \ {"part"}], prev' \in [Piece -> Tree \ {"part"}],
           staged' \in [Piece -> Tree],
           p \in {"park", "land", "delete", "rename"} => staged'[i] \in {"snap", "half"}
    PROVE  IInv'
  <1> USE DEF IInv, Progress
  <1>1. HandleTypes' /\ Hand' /\ RestoreHand'
    BY DEF HandleTypes, DiskTypes, Hand, RestoreHand, Keeps, handleVars
  <1>2. TreeTypes' /\ Wholes'
    BY DEF TreeTypes, Wholes, Keeps, PathsStayWhole, PreviousWhole, StagedWhole
  <1> QED BY <1>1, <1>2

\* The trees the invariant allows.
LEMMA WholeTrees ==
    ASSUME IInv
    PROVE  /\ live \in [Piece -> Tree \ {"part"}] /\ prev \in [Piece -> Tree \ {"part"}]
           /\ staged \in [Piece -> Tree]
  BY DEF IInv, TreeTypes, Wholes, PathsStayWhole, PreviousWhole

\* The steps of a restore.
LEMMA RestoreKeeps ==
    ASSUME IInv, RestoreNext
    PROVE  IInv'
  <1> DEFINE Trees == /\ live' \in [Piece -> Tree \ {"part"}] /\ prev' \in [Piece -> Tree \ {"part"}]
                     /\ staged' \in [Piece -> Tree]
  <1>0. HandleTypes /\ RestoreHand
    BY DEF IInv
  <1>1. CASE StartRestore
    <2>1. LifeTypes' /\ op' \in Call /\ op'.kind = "restore" /\ op'.pc = "check"
      <3>1. LifeTypes' /\ op' = [Idle EXCEPT !.kind = "restore", !.pc = "check"]
        BY <1>0, <1>1, BeginKeeps DEF StartRestore, HandleTypes
      <3>2. PICK r \in Call : r = [Idle EXCEPT !.kind = "restore"] /\ r.kind = "restore"
        <4>1. /\ [Idle EXCEPT !.kind = "restore"] \in Call
              /\ [Idle EXCEPT !.kind = "restore"].kind = "restore"
          BY Idles DEF Call
        <4> QED BY <4>1
      <3>3. Moved(r, [r EXCEPT !.pc = "check"], "check", r.i)
        BY SetPc DEF Pcs
      <3> QED BY <3>1, <3>2, <3>3 DEF Moved
    <2>2. DiskTypes'
      BY <1>0, <1>1 DEF StartRestore, HandleTypes, DiskTypes, handleVars
    <2>3. TreeTypes' /\ Wholes'
      BY <1>1, <2>1 DEF StartRestore, IInv, TreeTypes, treeVars, Wholes, PathsStayWhole, PreviousWhole, StagedWhole
    <2> QED BY <2>1, <2>2, <2>3 DEF IInv, HandleTypes, Hand, RestoreHand, AtWork
  <1>2. CASE Check
    <2>1. op.kind = "restore" /\ op.pc = "check" /\ Keeps
      BY <1>0, <1>2 DEF Check, Restoring, RestoreHand, AtWork
    <2>2. Trees
      BY <1>2, <2>1, WholeTrees DEF Check, Stage, treeVars, IInv, Wholes, StagedWhole, Tree
    <2>3. Progress("stop", op.i) \/ Progress("path", op.i)
      BY <1>0, <1>2, <2>1, Moves DEF Check, Pcs, Fail
    <2> QED BY <2>1, <2>2, <2>3, Continues DEF AtWork
  <1>3. CASE Turn
    <2>1. op.kind = "restore" /\ op.pc = "path" /\ op.i \in Piece /\ Keeps
      BY <1>0, <1>3 DEF Turn, Restoring, RestoreHand, AtWork
    <2>2. Trees
      BY <1>3, <2>1, WholeTrees DEF Turn, Stage, treeVars, IInv, Wholes, StagedWhole, Tree
    <2>3. Progress("reset", op.i) \/ Progress("stop", op.i) \/ Progress("unstage", op.i)
      BY <1>0, <1>3, <2>1, Moves DEF Turn, Pcs, Fail
    <2> QED BY <2>1, <2>2, <2>3, Continues DEF AtWork
  <1>4. CASE Restored
    <2>1. LifeTypes' /\ op' = Idle
      <3>1. phase' \in {"down", "boot", "up"} /\ row \in BOOLEAN /\ Answer("restored", row)
        BY <1>0, <1>4 DEF Restored, Ends, HandleTypes, LifeTypes
      <3> QED BY <1>0, <3>1, AnswerKeeps DEF HandleTypes
    <2>2. DiskTypes'
      BY <1>0, <1>4 DEF Restored, Ends, HandleTypes, DiskTypes, handleVars
    <2>3. TreeTypes' /\ Wholes'
      BY <1>4, <2>1, Idles DEF Restored, Ends, IInv, TreeTypes, treeVars, Tree, Wholes, PathsStayWhole, PreviousWhole, StagedWhole
    <2> QED BY <2>1, <2>2, <2>3, Idles DEF IInv, HandleTypes, Hand, RestoreHand
  <1>5. CASE Failed
    <2>1. LifeTypes' /\ op' = Idle
      <3>1. phase' \in {"down", "boot", "up"} /\ row \in BOOLEAN /\ Answer("failed", row)
        BY <1>0, <1>5 DEF Failed, Ends, HandleTypes, LifeTypes
      <3> QED BY <1>0, <3>1, AnswerKeeps DEF HandleTypes
    <2>2. DiskTypes'
      BY <1>0, <1>5 DEF Failed, Ends, HandleTypes, DiskTypes, handleVars
    <2>3. TreeTypes' /\ Wholes'
      BY <1>5, <2>1, Idles DEF Failed, Ends, IInv, TreeTypes, treeVars, Tree, Wholes, PathsStayWhole, PreviousWhole, StagedWhole
    <2> QED BY <2>1, <2>2, <2>3, Idles DEF IInv, HandleTypes, Hand, RestoreHand
  <1>6. CASE ClearStagedTree
    <2>1. op.kind = "restore" /\ op.pc = "unstage" /\ op.i \in Piece /\ Keeps
      BY <1>0, <1>6 DEF ClearStagedTree, Restoring, RestoreHand, AtWork
    <2>2. Trees
      BY <1>6, <2>1, WholeTrees DEF ClearStagedTree, Stage, treeVars, IInv, Wholes, StagedWhole, Tree
    <2>3. Progress("unprev", op.i) \/ Progress("stop", op.i)
      BY <1>0, <1>6, <2>1, Moves DEF ClearStagedTree, Pcs, Fail
    <2> QED BY <2>1, <2>2, <2>3, Continues DEF AtWork
  <1>7. CASE ClearPrevious
    <2>1. op.kind = "restore" /\ op.pc = "unprev" /\ op.i \in Piece /\ Keeps
      BY <1>0, <1>7 DEF ClearPrevious, Restoring, RestoreHand, AtWork
    <2>2. Trees
      BY <1>7, <2>1, WholeTrees DEF ClearPrevious, Stage, treeVars, IInv, Wholes, StagedWhole, Tree
    <2>3. Progress("clone", op.i) \/ Progress("stop", op.i)
      BY <1>0, <1>7, <2>1, Moves DEF ClearPrevious, Pcs, Fail
    <2> QED BY <2>1, <2>2, <2>3, Continues DEF AtWork
  <1>8. CASE BeginClone
    <2>1. op.kind = "restore" /\ op.pc = "clone" /\ op.i \in Piece /\ Keeps
      BY <1>0, <1>8 DEF BeginClone, Restoring, RestoreHand, AtWork
    <2>2. Trees
      BY <1>8, <2>1, WholeTrees DEF BeginClone, Stage, treeVars, IInv, Wholes, StagedWhole, Tree
    <2>3. Progress("cloning", op.i) \/ Progress("unclone", op.i)
      BY <1>0, <1>8, <2>1, Moves DEF BeginClone, Pcs, Fail
    <2> QED BY <2>1, <2>2, <2>3, Continues DEF AtWork
  <1>9. CASE EndClone
    <2>1. op.kind = "restore" /\ op.pc = "cloning" /\ op.i \in Piece /\ Keeps
      BY <1>0, <1>9 DEF EndClone, Restoring, RestoreHand, AtWork
    <2>2. Trees
      BY <1>9, <2>1, WholeTrees DEF EndClone, Stage, treeVars, IInv, Wholes, StagedWhole, Tree
    <2>3. Progress("park", op.i)
      BY <1>0, <1>9, <2>1, Moves DEF EndClone, Pcs, Fail
    <2>4. staged'[op.i] \in {"snap", "half"}
      BY <1>9, <2>1, WholeTrees DEF EndClone, Stage, IInv, Wholes, StagedWhole
    <2> QED BY <2>1, <2>2, <2>3, <2>4, Continues DEF AtWork
  <1>10. CASE FailRestoreClone
    <2>1. op.kind = "restore" /\ op.pc = "cloning" /\ op.i \in Piece /\ Keeps
      BY <1>0, <1>10 DEF FailRestoreClone, Restoring, RestoreHand, AtWork
    <2>2. Trees
      BY <1>10, <2>1, WholeTrees DEF FailRestoreClone, Stage, treeVars, IInv, Wholes, StagedWhole, Tree
    <2>3. Progress("unclone", op.i)
      BY <1>0, <1>10, <2>1, Moves DEF FailRestoreClone, Pcs, Fail
    <2> QED BY <2>1, <2>2, <2>3, Continues DEF AtWork
  <1>11. CASE DropStaged
    <2>1. op.kind = "restore" /\ op.pc = "unclone" /\ op.i \in Piece /\ Keeps
      BY <1>0, <1>11 DEF DropStaged, Restoring, RestoreHand, AtWork
    <2>2. Trees
      BY <1>11, <2>1, WholeTrees DEF DropStaged, Stage, treeVars, IInv, Wholes, StagedWhole, Tree
    <2>3. Progress("stop", op.i)
      BY <1>0, <1>11, <2>1, Moves DEF DropStaged, Pcs, Fail
    <2> QED BY <2>1, <2>2, <2>3, Continues DEF AtWork
  <1>12. CASE Park
    <2>1. op.kind = "restore" /\ op.pc = "park" /\ op.i \in Piece /\ Keeps
      BY <1>0, <1>12 DEF Park, Restoring, RestoreHand, AtWork
    <2>2. Trees
      BY <1>12, <2>1, WholeTrees DEF Park, Stage, treeVars, IInv, Wholes, StagedWhole, Tree
    <2>3. Progress("land", op.i)
      BY <1>0, <1>12, <2>1, Moves DEF Park, Pcs, Fail
    <2>4. staged'[op.i] \in {"snap", "half"}
      BY <1>12, <2>1, WholeTrees DEF Park, Stage, IInv, Wholes, StagedWhole
    <2> QED BY <2>1, <2>2, <2>3, <2>4, Continues DEF AtWork
  <1>13. CASE FailPark
    <2>1. op.kind = "restore" /\ op.pc = "park" /\ op.i \in Piece /\ Keeps
      BY <1>0, <1>13 DEF FailPark, Restoring, RestoreHand, AtWork
    <2>2. Trees
      BY <1>13, <2>1, WholeTrees DEF FailPark, Stage, treeVars, IInv, Wholes, StagedWhole, Tree
    <2>3. Progress("unclone", op.i)
      BY <1>0, <1>13, <2>1, Moves DEF FailPark, Pcs, Fail
    <2> QED BY <2>1, <2>2, <2>3, Continues DEF AtWork
  <1>14. CASE Land
    <2>1. op.kind = "restore" /\ op.pc = "land" /\ op.i \in Piece /\ Keeps
      BY <1>0, <1>14 DEF Land, Restoring, RestoreHand, AtWork
    <2>2. Trees
      BY <1>14, <2>1, WholeTrees DEF Land, Stage, treeVars, IInv, Wholes, StagedWhole, Tree
    <2>3. Progress("tidy", op.i)
      BY <1>0, <1>14, <2>1, Moves DEF Land, Pcs, Fail
    <2> QED BY <2>1, <2>2, <2>3, Continues DEF AtWork
  <1>15. CASE FailLand
    <2>1. op.kind = "restore" /\ op.pc = "land" /\ op.i \in Piece /\ Keeps
      BY <1>0, <1>15 DEF FailLand, Restoring, RestoreHand, AtWork
    <2>2. Trees
      BY <1>15, <2>1, WholeTrees DEF FailLand, Stage, treeVars, IInv, Wholes, StagedWhole, Tree
    <2>3. Progress("rollback", op.i)
      BY <1>0, <1>15, <2>1, Moves DEF FailLand, Pcs, Fail
    <2> QED BY <2>1, <2>2, <2>3, Continues DEF AtWork
  <1>16. CASE Rollback
    <2>1. op.kind = "restore" /\ op.pc = "rollback" /\ op.i \in Piece /\ Keeps
      BY <1>0, <1>16 DEF Rollback, Restoring, RestoreHand, AtWork
    <2>2. Trees
      BY <1>16, <2>1, WholeTrees DEF Rollback, Stage, treeVars, IInv, Wholes, StagedWhole, Tree
    <2>3. Progress("unclone", op.i)
      BY <1>0, <1>16, <2>1, Moves DEF Rollback, Pcs, Fail
    <2> QED BY <2>1, <2>2, <2>3, Continues DEF AtWork
  <1>17. CASE Tidy
    <2>1. op.kind = "restore" /\ op.pc = "tidy" /\ op.i \in Piece /\ Keeps
      BY <1>0, <1>17 DEF Tidy, Restoring, RestoreHand, AtWork
    <2>2. Trees
      BY <1>17, <2>1, WholeTrees DEF Tidy, Stage, treeVars, IInv, Wholes, StagedWhole, Tree
    <2>3. Progress("path", op.i + 1)
      BY <1>0, <1>17, <2>1, MovesOn DEF Tidy
    <2> QED BY <2>1, <2>2, <2>3, Continues DEF AtWork
  <1>18. CASE SnapStaged
    <2>1. op.kind = "restore" /\ op.pc = "snap" /\ op.i \in Piece /\ Keeps
      BY <1>0, <1>18 DEF SnapStaged, Restoring, RestoreHand, AtWork
    <2>2. Trees
      BY <1>18, <2>1, WholeTrees DEF SnapStaged, Stage, treeVars, IInv, Wholes, StagedWhole, Tree
    <2>3. Progress("delete", op.i)
      BY <1>0, <1>18, <2>1, Moves DEF SnapStaged, Pcs, Fail
    <2>4. staged'[op.i] \in {"snap", "half"}
      BY <1>18, <2>1, WholeTrees DEF SnapStaged, Stage, IInv, Wholes, StagedWhole
    <2> QED BY <2>1, <2>2, <2>3, <2>4, Continues DEF AtWork
  <1>19. CASE FailSnapStaged
    <2>1. op.kind = "restore" /\ op.pc = "snap" /\ op.i \in Piece /\ Keeps
      BY <1>0, <1>19 DEF FailSnapStaged, Restoring, RestoreHand, AtWork
    <2>2. Trees
      BY <1>19, <2>1, WholeTrees DEF FailSnapStaged, Stage, treeVars, IInv, Wholes, StagedWhole, Tree
    <2>3. Progress("stop", op.i)
      BY <1>0, <1>19, <2>1, Moves DEF FailSnapStaged, Pcs, Fail
    <2> QED BY <2>1, <2>2, <2>3, Continues DEF AtWork
  <1>20. CASE DeleteLive
    <2>1. op.kind = "restore" /\ op.pc = "delete" /\ op.i \in Piece /\ Keeps
      BY <1>0, <1>20 DEF DeleteLive, Restoring, RestoreHand, AtWork
    <2>2. Trees
      BY <1>20, <2>1, WholeTrees DEF DeleteLive, Stage, treeVars, IInv, Wholes, StagedWhole, Tree
    <2>3. Progress("rename", op.i)
      BY <1>0, <1>20, <2>1, Moves DEF DeleteLive, Pcs, Fail
    <2>4. staged'[op.i] \in {"snap", "half"}
      BY <1>20, <2>1, WholeTrees DEF DeleteLive, Stage, IInv, Wholes, StagedWhole
    <2> QED BY <2>1, <2>2, <2>3, <2>4, Continues DEF AtWork
  <1>21. CASE FailDeleteLive
    <2>1. op.kind = "restore" /\ op.pc = "delete" /\ op.i \in Piece /\ Keeps
      BY <1>0, <1>21 DEF FailDeleteLive, Restoring, RestoreHand, AtWork
    <2>2. Trees
      BY <1>21, <2>1, WholeTrees DEF FailDeleteLive, Stage, treeVars, IInv, Wholes, StagedWhole, Tree
    <2>3. Progress("undo", op.i)
      BY <1>0, <1>21, <2>1, Moves DEF FailDeleteLive, Pcs, Fail
    <2> QED BY <2>1, <2>2, <2>3, Continues DEF AtWork
  <1>22. CASE RenameStaged
    <2>1. op.kind = "restore" /\ op.pc = "rename" /\ op.i \in Piece /\ Keeps
      BY <1>0, <1>22 DEF RenameStaged, Restoring, RestoreHand, AtWork
    <2>2. Trees
      BY <1>22, <2>1, WholeTrees DEF RenameStaged, Stage, treeVars, IInv, Wholes, StagedWhole, Tree
    <2>3. Progress("path", op.i + 1)
      BY <1>0, <1>22, <2>1, MovesOn DEF RenameStaged
    <2> QED BY <2>1, <2>2, <2>3, Continues DEF AtWork
  <1>23. CASE FailRenameStaged
    <2>1. op.kind = "restore" /\ op.pc = "rename" /\ op.i \in Piece /\ Keeps
      BY <1>0, <1>23 DEF FailRenameStaged, Restoring, RestoreHand, AtWork
    <2>2. Trees
      BY <1>23, <2>1, WholeTrees DEF FailRenameStaged, Stage, treeVars, IInv, Wholes, StagedWhole, Tree
    <2>3. Progress("again", op.i)
      BY <1>0, <1>23, <2>1, Moves DEF FailRenameStaged, Pcs, Fail
    <2> QED BY <2>1, <2>2, <2>3, Continues DEF AtWork
  <1>24. CASE SnapLive
    <2>1. op.kind = "restore" /\ op.pc = "again" /\ op.i \in Piece /\ Keeps
      BY <1>0, <1>24 DEF SnapLive, Restoring, RestoreHand, AtWork
    <2>2. Trees
      BY <1>24, <2>1, WholeTrees DEF SnapLive, Stage, treeVars, IInv, Wholes, StagedWhole, Tree
    <2>3. Progress("settle", op.i)
      BY <1>0, <1>24, <2>1, Moves DEF SnapLive, Pcs, Fail
    <2> QED BY <2>1, <2>2, <2>3, Continues DEF AtWork
  <1>25. CASE FailSnapLive
    <2>1. op.kind = "restore" /\ op.pc = "again" /\ op.i \in Piece /\ Keeps
      BY <1>0, <1>25 DEF FailSnapLive, Restoring, RestoreHand, AtWork
    <2>2. Trees
      BY <1>25, <2>1, WholeTrees DEF FailSnapLive, Stage, treeVars, IInv, Wholes, StagedWhole, Tree
    <2>3. Progress("stop", op.i)
      BY <1>0, <1>25, <2>1, Moves DEF FailSnapLive, Pcs, Fail
    <2> QED BY <2>1, <2>2, <2>3, Continues DEF AtWork
  <1>26. CASE ClearStaged
    <2>1. op.kind = "restore" /\ op.pc \in {"reset", "undo", "settle"} /\ op.i \in Piece /\ Keeps
      BY <1>0, <1>26 DEF ClearStaged, RestoreHand, AtWork
    <2>2. Trees
      BY <1>26, <2>1, WholeTrees DEF ClearStaged, Stage, Tree
    <2>3. Go(AfterClear) \/ CommandFails(AfterClear)
      BY <1>26 DEF ClearStaged
    <2>4. CASE op.pc = "reset"
      <3>1. Progress("snap", op.i)
        BY <1>0, <2>1, <2>3, <2>4, Moves DEF AfterClear, Pcs
      <3> QED BY <2>1, <2>2, <3>1, Continues DEF AtWork
    <2>5. CASE op.pc = "undo"
      <3>1. Progress("stop", op.i)
        BY <1>0, <2>1, <2>3, <2>5, Moves DEF AfterClear, Pcs
      <3> QED BY <2>1, <2>2, <3>1, Continues DEF AtWork
    <2>6. CASE op.pc = "settle"
      <3>1. Progress("path", op.i + 1)
        BY <1>0, <2>1, <2>3, <2>6, MovesOn DEF AfterClear
      <3> QED BY <2>1, <2>2, <3>1, Continues DEF AtWork
    <2> QED BY <2>1, <2>4, <2>5, <2>6
  <1> QED BY <1>1, <1>2, <1>3, <1>4, <1>5, <1>6, <1>7, <1>8, <1>9, <1>10, <1>11, <1>12, <1>13, <1>14, <1>15, <1>16, <1>17, <1>18, <1>19, <1>20, <1>21, <1>22, <1>23, <1>24, <1>25, <1>26 DEF RestoreNext, SwapNext, SubvolumeNext

\* The edits of the agent.
LEMMA EditsKeep ==
    ASSUME IInv, AgentEdits
    PROVE  IInv'
  <1>1. HandleTypes' /\ Hand' /\ RestoreHand' /\ op' = op
    BY DEF IInv, AgentEdits, engineVars, handleVars, lifeVars, HandleTypes, LifeTypes, DiskTypes, Hand, RestoreHand
  <1>2. live' \in [Piece -> Tree \ {"part"}]
    BY WholeTrees DEF AgentEdits, Tree
  <1>3. touched' \subseteq Piece /\ edits' \in 0..MaxEdits
    BY RestoreAssumption DEF AgentEdits, IInv, TreeTypes
  <1>4. TreeTypes' /\ Wholes'
    BY <1>1, <1>2, <1>3 DEF AgentEdits, IInv, TreeTypes, Wholes, PathsStayWhole, PreviousWhole, StagedWhole
  <1> QED BY <1>1, <1>4 DEF IInv

\* The life of the handle leaves the paths alone, and a restore where it was.
LEMMA HandlesKeep ==
    ASSUME IInv, HandleNext, UNCHANGED restoreVars
    PROVE  IInv'
  <1>1. Kept
    BY CreateKeeps, DeleteKeeps, LifeKeeps DEF IInv, HandleNext
  <1>2. TreeTypes'
    BY DEF IInv, TreeTypes, restoreVars, treeVars
  <1>3. Hand' /\ RestoreHand' /\ Wholes'
    BY <1>1 DEF IInv, Kept, Settled, Hand, RestoreHand, restoreVars, treeVars,
                Wholes, PathsStayWhole, PreviousWhole, StagedWhole
  <1> QED BY <1>1, <1>2, <1>3 DEF IInv, Kept

\* The initial states have the invariant.
LEMMA InitIInv == Init => IInv
  <1> SUFFICES ASSUME Init PROVE IInv
    OBVIOUS
  <1>1. op = Idle /\ HandleTypes
    <2>1. op = Idle /\ op \in Call
      BY Idles DEF Init, HandleInit
    <2>2. LifeTypes
      <3>1. backend \in AllBackends /\ faults \in 0..MaxFaults /\ crashes \in 0..MaxCrashes
        BY EngineAssumption DEF Init, HandleInit
      <3>2. NoCall \in [res : {"none", "created", "refused", "removed", "stuck", "restored", "failed"},
                        bad : 0..2, m : SUBSET Piece, fit : BOOLEAN]
        BY DEF NoCall
      <3>3. last = NoCall
        BY DEF Init, HandleInit
      <3> QED BY <3>1, <3>2, <3>3 DEF Init, HandleInit, LifeTypes
    <2>3. DiskTypes
      BY DEF Init, HandleInit, DiskTypes, Part
    <2> QED BY <2>1, <2>2, <2>3 DEF HandleTypes
  <1>2. Hand /\ RestoreHand /\ Wholes
    BY <1>1, Idles DEF Init, Hand, RestoreHand, Wholes, PathsStayWhole, PreviousWhole, StagedWhole
  <1>3. TreeTypes
    BY RestoreAssumption DEF Init, TreeTypes, Tree
  <1> QED BY <1>1, <1>2, <1>3 DEF IInv

\* Every step keeps the invariant: of a create, a removal or a restore, failing or not, of the
\* agent, the provider, a crash and a start.
THEOREM NextIInv == IInv /\ [Next]_vars => IInv'
  <1> SUFFICES ASSUME IInv, [Next]_vars PROVE IInv'
    OBVIOUS
  <1>1. CASE UNCHANGED vars
    BY <1>1 DEF IInv, vars, engineVars, handleVars, lifeVars, restoreVars, treeVars, HandleTypes,
                LifeTypes, DiskTypes, Hand, TreeTypes, RestoreHand, Wholes, PathsStayWhole,
                PreviousWhole, StagedWhole
  <1> QED BY <1>1, HandlesKeep, RestoreKeeps, EditsKeep DEF Next

\* So every reachable state has it.
THEOREM RestoreInvariant == Spec => []IInv
  BY InitIInv, NextIInv, PTL DEF Spec

\* Every variable keeps its type, whatever fails, hangs up or crashes.
THEOREM TypeCorrect == Spec => []TypeOK
  <1>1. IInv => TypeOK
    BY TypesAgree DEF IInv
  <1> QED BY <1>1, RestoreInvariant, PTL

\* A declared path never shows a tree that is still being written by Restore,
\* at no step of swapIn or of the swap of a subvolume, whatever fails or crashes.
THEOREM PathsWhole == Spec => []PathsStayWhole
  <1>1. IInv => PathsStayWhole
    BY DEF IInv, Wholes
  <1> QED BY <1>1, RestoreInvariant, PTL

(***************************************************************************)
(* What a restore has done to the paths so far: those before the one in    *)
(* hand are finished, those after it are as they were, and the one in hand *)
(* is where the point of the call puts it, unless the agent has been at a  *)
(* path since.  How many steps have failed decides how much of this can be *)
(* said: with one, the path in hand is still what it was or comes back;    *)
(* with none, what lies beside it is known too.                            *)
(***************************************************************************)
What(j) == {"snap", IF piece[j] = "whole" THEN "snap" ELSE "half"}

Finished(j) ==
    /\ j \in touched \/ live[j] \in {"snap", "half"}
    /\ op.bad = 0 => /\ staged[j] = "none" /\ prev[j] = "none"
                     /\ j \in touched \/ live[j] \in What(j)

Waiting(j) == j \in touched \/ live[j] = was[j]

OnSubvolume == {"reset", "snap", "delete", "rename", "again", "undo", "settle"}
OnTree == AtWork \ OnSubvolume
Moving == {"land", "rollback", "rename", "again", "tidy", "settle"}

InHand(j) ==
    /\ op.pc \in OnSubvolume => Swaps(j)
    /\ op.pc \in OnTree => ~Swaps(j)
    /\ j \notin touched =>
          /\ op.pc \in {"land", "rollback"} => live[j] = "none" /\ prev[j] = was[j]
          /\ op.pc \in {"rename", "again"} => live[j] = "none"
          /\ op.pc \in {"tidy", "settle"} => live[j] \in {"snap", "half"}
          /\ op.pc \in {"rollback", "again"} => op.bad >= 1
          /\ op.pc \in {"unclone", "stop"} => op.bad > 1 \/ live[j] = was[j]
          /\ op.pc \notin Moving \union {"unclone", "stop"} => live[j] = was[j]
    /\ op.bad = 0 =>
          /\ op.pc \in {"unprev", "clone", "snap", "tidy"} => staged[j] = "none"
          /\ op.pc \in {"clone", "cloning", "park"} => prev[j] = "none"
          /\ op.pc \in {"park", "land", "delete", "rename"} => staged[j] \in What(j)
          /\ op.pc \in {"tidy", "settle"} => j \in touched \/ live[j] \in What(j)

\* Why a restore no step of which failed gives up.
Excuse ==
    \/ manifest # "whole" \/ ~Readable(op.i)
    \/ touched # {} \/ \E j \in Piece : live[j] = "link"
    \/ Swaps(op.i) /\ live[op.i] \notin Subvolume

Excused == op.bad = 0 /\ op.pc \in {"unclone", "undo", "stop"} => Excuse

\* A subvolume that is swapped has no previous name.
NoPrevious == \A j \in Piece : Swaps(j) => prev[j] = "none"

PathsWell ==
    op.kind = "restore" =>
        /\ \A j \in Piece : j < op.i => Finished(j)
        /\ \A j \in Piece : j > op.i => Waiting(j)
        /\ op.i \in Piece => InHand(op.i)
        /\ Excused

PInv == IInv /\ NoPrevious /\ PathsWell

\* A step that fails nothing, and one that fails.
Turns(p, i) == Progress(p, i) /\ backend' = backend /\ op'.bad = op.bad
Slips(p, i) == Progress(p, i) /\ backend' = backend /\ op'.bad >= 1
               /\ op'.bad >= op.bad /\ (op.bad >= 1 => op'.bad > 1)

\* What a step leaves at the path in hand, and that it leaves the others alone.
Here(l, s, v) == live'[op.i] = l /\ staged'[op.i] = s /\ prev'[op.i] = v
Stays == Here(live[op.i], staged[op.i], prev[op.i])
OtherPaths == \A j \in Piece \ {op.i} :
                  live'[j] = live[j] /\ staged'[j] = staged[j] /\ prev'[j] = prev[j]

\* A call counts the steps that fail.
LEMMA Counts ==
    ASSUME op \in Call, NEW r \in Call, r.bad = op.bad
    PROVE  /\ Go(r) => op'.bad = op.bad /\ backend' = backend
           /\ Trips(r) \/ CommandFails(r) =>
                  /\ backend' = backend /\ op'.bad >= 1
                  /\ op'.bad >= op.bad /\ (op.bad >= 1 => op'.bad > 1)
<1>1. r.bad \in 0..2 /\ [r EXCEPT !.bad = More(@)].bad = More(r.bad)
  BY DEF Call
<1>2. Trips(r) \/ CommandFails(r) => op'.bad = More(r.bad) /\ backend' = backend
  BY <1>1 DEF Trips, CommandFails
<1>3. More(r.bad) >= 1 /\ More(r.bad) >= r.bad /\ (r.bad >= 1 => More(r.bad) > 1)
  BY <1>1 DEF More
<1> QED BY <1>2, <1>3 DEF Go

\* A step of a restore to another point.
LEMMA TurnsTo ==
    ASSUME HandleTypes, op.kind = "restore", NEW p \in Pcs
    PROVE  /\ To(p) => Turns(p, op.i)
           /\ Go([op EXCEPT !.pc = p]) => Turns(p, op.i)
           /\ Trips([op EXCEPT !.pc = p]) => Slips(p, op.i)
           /\ CommandFails([op EXCEPT !.pc = p]) => Slips(p, op.i)
<1>1. /\ op \in Call /\ [op EXCEPT !.pc = p] \in Call
      /\ [op EXCEPT !.pc = p].bad = op.bad
  BY DEF HandleTypes, Call, Pcs
<1> QED BY <1>1, Moves, Counts DEF Turns, Slips, To

\* And to the next path.
LEMMA TurnsOn ==
    ASSUME HandleTypes, op.kind = "restore", op.i \in Piece
    PROVE  /\ NextPath => Turns("path", op.i + 1)
           /\ Go([op EXCEPT !.pc = "path", !.i = @ + 1]) => Turns("path", op.i + 1)
           /\ Trips([op EXCEPT !.pc = "path", !.i = @ + 1]) => Slips("path", op.i + 1)
           /\ CommandFails([op EXCEPT !.pc = "path", !.i = @ + 1]) => Slips("path", op.i + 1)
<1>1. PICK r \in Call : r = [op EXCEPT !.pc = "path", !.i = @ + 1] /\ r.bad = op.bad
  <2>1. PICK i \in 1..(N + 1) : i = op.i + 1
    BY Advance DEF HandleTypes
  <2>2. [op EXCEPT !.pc = "path", !.i = i] \in Call /\ [op EXCEPT !.pc = "path", !.i = i].bad = op.bad
    BY DEF HandleTypes, Call
  <2> QED BY <2>1, <2>2
<1>2. op \in Call
  BY DEF HandleTypes
<1> QED BY <1>1, <1>2, MovesOn, Counts DEF Turns, Slips, NextPath

\* What is left to show of a step that goes on: how it leaves the path in hand.
LEMMA PathsKept ==
    ASSUME PInv, op.kind = "restore", Keeps, OtherPaths, NEW h, h = op.i,
           h \in Piece /\ Swaps(h) => prev'[h] = "none",
           NEW p, NEW i, Turns(p, i) \/ Slips(p, i),
           \/ i = h /\ (h \in Piece => InHand(h)') /\ Excused'
           \/ i = h + 1 /\ h \in Piece /\ p = "path" /\ Finished(h)'
    PROVE  NoPrevious' /\ PathsWell'
<1>1. /\ op'.kind = "restore" /\ op'.pc = p /\ op'.i = i /\ backend' = backend
      /\ op'.bad \in 0..2 /\ op.bad \in 0..2 /\ (op'.bad = 0 => op.bad = 0)
  BY DEF Turns, Slips, Progress, PInv, IInv, HandleTypes, Call
<1>2. touched' = touched /\ was' = was /\ piece' = piece /\ manifest' = manifest /\ shadows' = shadows
  BY DEF Keeps, handleVars
<1>3. NoPrevious'
  BY <1>1 DEF PInv, NoPrevious, OtherPaths, Swaps
<1>4. \A j \in Piece : j # h => (Finished(j) => Finished(j)') /\ (Waiting(j) => Waiting(j)')
  BY <1>1, <1>2 DEF OtherPaths, Finished, Waiting, What
<1>5. h \in Nat /\ Piece \subseteq Nat
  BY EngineAssumption DEF PInv, IInv, HandleTypes, Call, Piece
<1>6. CASE i = h /\ (h \in Piece => InHand(h)') /\ Excused'
  BY <1>1, <1>3, <1>4, <1>5, <1>6 DEF PInv, PathsWell
<1>7. CASE i = h + 1 /\ h \in Piece /\ p = "path" /\ Finished(h)'
  <2>0. \A j \in Piece : j < i <=> j < h \/ j = h
    BY <1>5, <1>7
  <2>1. \A j \in Piece : j < i => Finished(j)'
    BY <1>4, <1>5, <1>7, <2>0 DEF PInv, PathsWell
  <2>2. \A j \in Piece : j >= i => Waiting(j)'
    BY <1>4, <1>5, <1>7 DEF PInv, PathsWell
  <2>3. \A j \in Piece : Waiting(j)' => InHand(j)'
    BY <1>1, <1>7 DEF Waiting, InHand, OnTree, OnSubvolume, AtWork, Moving
  <2>4. Excused'
    BY <1>1, <1>7 DEF Excused
  <2> QED BY <1>1, <1>3, <1>5, <2>1, <2>2, <2>3, <2>4, <1>7 DEF PathsWell
<1> QED BY <1>6, <1>7
\* The steps of a restore that has begun.
LEMMA PathsStep ==
    ASSUME PInv, op.kind = "restore", RestoreNext, NEW h, h = op.i
    PROVE  NoPrevious' /\ PathsWell'
<1>0. /\ HandleTypes /\ RestoreHand /\ TreeTypes /\ op.kind = "restore" /\ op.bad \in 0..2
      /\ PInv /\ h = op.i /\ (h \in Piece => InHand(h)) /\ Excused
      /\ (h \in Piece /\ Swaps(h) => prev[h] = "none") /\ StagedWhole
  BY DEF PInv, IInv, PathsWell, HandleTypes, Call, NoPrevious, Wholes
<1>1. CASE Check
  <2>1. op.pc = "check" /\ Keeps
    BY <1>0, <1>1 DEF Check, Restoring, RestoreHand, AtWork
  <2>2. \/ Turns("stop", h) /\ Stays /\ (manifest # "whole" \/ \E j \in Piece : live[j] = "link")
        \/ Turns("path", h) /\ Stays
    BY <1>0, <1>1, <2>1, TurnsTo
    DEF Check, Stage, Fail, treeVars, TreeTypes, Here, Stays, Pcs
  <2>3. OtherPaths
    BY <1>0, <1>1 DEF Check, Stage, treeVars, TreeTypes, OtherPaths
  <2>4. (h \in Piece => InHand(h)' /\ (Swaps(h) => prev'[h] = "none")) /\ Excused'
    BY <1>0, <2>1, <2>2, <2>3 DEF Turns, Slips, Progress, Here, Stays, OtherPaths, Keeps, handleVars, InHand, What,
                            StagedWhole, Excused, Excuse, Readable, Swaps, OnTree, OnSubvolume, AtWork, Moving
  <2> QED BY <1>0, <2>1, <2>2, <2>3, <2>4, PathsKept
<1>2. CASE Turn
  <2>1. op.pc = "path" /\ h \in Piece /\ Keeps
    BY <1>0, <1>2 DEF Turn, Restoring, RestoreHand, AtWork
  <2>2. \/ Turns("reset", h) /\ Stays /\ Swaps(h)
        \/ Turns("stop", h) /\ Stays /\ live[h] = "link"
        \/ Turns("unstage", h) /\ Stays /\ ~Swaps(h)
    BY <1>0, <1>2, <2>1, TurnsTo
    DEF Turn, Stage, Fail, treeVars, TreeTypes, Here, Stays, Pcs
  <2>3. OtherPaths
    BY <1>0, <1>2 DEF Turn, Stage, treeVars, TreeTypes, OtherPaths
  <2>4. InHand(h)' /\ (Swaps(h) => prev'[h] = "none") /\ Excused'
    BY <1>0, <2>1, <2>2, <2>3 DEF Turns, Slips, Progress, Here, Stays, OtherPaths, Keeps, handleVars, InHand, What,
                            StagedWhole, Excused, Excuse, Readable, Swaps, OnTree, OnSubvolume, AtWork, Moving
  <2> QED BY <1>0, <2>1, <2>2, <2>3, <2>4, PathsKept
<1>3. CASE ClearStagedTree
  <2>1. op.pc = "unstage" /\ h \in Piece /\ Keeps
    BY <1>0, <1>3 DEF ClearStagedTree, Restoring, RestoreHand, AtWork
  <2>2. \/ Turns("unprev", h) /\ Here(live[h], "none", prev[h])
        \/ Slips("stop", h) /\ Stays
    BY <1>0, <1>3, <2>1, TurnsTo
    DEF ClearStagedTree, Stage, Fail, treeVars, TreeTypes, Here, Stays, Pcs
  <2>3. OtherPaths
    BY <1>0, <1>3 DEF ClearStagedTree, Stage, treeVars, TreeTypes, OtherPaths
  <2>4. InHand(h)' /\ (Swaps(h) => prev'[h] = "none") /\ Excused'
    BY <1>0, <2>1, <2>2, <2>3 DEF Turns, Slips, Progress, Here, Stays, OtherPaths, Keeps, handleVars, InHand, What,
                            StagedWhole, Excused, Excuse, Readable, Swaps, OnTree, OnSubvolume, AtWork, Moving
  <2> QED BY <1>0, <2>1, <2>2, <2>3, <2>4, PathsKept
<1>4. CASE ClearPrevious
  <2>1. op.pc = "unprev" /\ h \in Piece /\ Keeps
    BY <1>0, <1>4 DEF ClearPrevious, Restoring, RestoreHand, AtWork
  <2>2. \/ Turns("clone", h) /\ Here(live[h], staged[h], "none")
        \/ Slips("stop", h) /\ Stays
    BY <1>0, <1>4, <2>1, TurnsTo
    DEF ClearPrevious, Stage, Fail, treeVars, TreeTypes, Here, Stays, Pcs
  <2>3. OtherPaths
    BY <1>0, <1>4 DEF ClearPrevious, Stage, treeVars, TreeTypes, OtherPaths
  <2>4. InHand(h)' /\ (Swaps(h) => prev'[h] = "none") /\ Excused'
    BY <1>0, <2>1, <2>2, <2>3 DEF Turns, Slips, Progress, Here, Stays, OtherPaths, Keeps, handleVars, InHand, What,
                            StagedWhole, Excused, Excuse, Readable, Swaps, OnTree, OnSubvolume, AtWork, Moving
  <2> QED BY <1>0, <2>1, <2>2, <2>3, <2>4, PathsKept
<1>5. CASE BeginClone
  <2>1. op.pc = "clone" /\ h \in Piece /\ Keeps
    BY <1>0, <1>5 DEF BeginClone, Restoring, RestoreHand, AtWork
  <2>2. \/ Turns("cloning", h) /\ Here(live[h], "part", prev[h])
        \/ Turns("unclone", h) /\ Stays /\ ~Readable(h)
    BY <1>0, <1>5, <2>1, TurnsTo
    DEF BeginClone, Stage, Fail, treeVars, TreeTypes, Here, Stays, Pcs
  <2>3. OtherPaths
    BY <1>0, <1>5 DEF BeginClone, Stage, treeVars, TreeTypes, OtherPaths
  <2>4. InHand(h)' /\ (Swaps(h) => prev'[h] = "none") /\ Excused'
    BY <1>0, <2>1, <2>2, <2>3 DEF Turns, Slips, Progress, Here, Stays, OtherPaths, Keeps, handleVars, InHand, What,
                            StagedWhole, Excused, Excuse, Readable, Swaps, OnTree, OnSubvolume, AtWork, Moving
  <2> QED BY <1>0, <2>1, <2>2, <2>3, <2>4, PathsKept
<1>6. CASE EndClone
  <2>1. op.pc = "cloning" /\ h \in Piece /\ Keeps
    BY <1>0, <1>6 DEF EndClone, Restoring, RestoreHand, AtWork
  <2>2. Turns("park", h) /\ Here(live[h], IF piece[h] = "whole" THEN "snap" ELSE "half", prev[h])
    BY <1>0, <1>6, <2>1, TurnsTo
    DEF EndClone, Stage, Fail, treeVars, TreeTypes, Here, Stays, Pcs
  <2>3. OtherPaths
    BY <1>0, <1>6 DEF EndClone, Stage, treeVars, TreeTypes, OtherPaths
  <2>4. InHand(h)' /\ (Swaps(h) => prev'[h] = "none") /\ Excused'
    BY <1>0, <2>1, <2>2, <2>3 DEF Turns, Slips, Progress, Here, Stays, OtherPaths, Keeps, handleVars, InHand, What,
                            StagedWhole, Excused, Excuse, Readable, Swaps, OnTree, OnSubvolume, AtWork, Moving
  <2> QED BY <1>0, <2>1, <2>2, <2>3, <2>4, PathsKept
<1>7. CASE FailRestoreClone
  <2>1. op.pc = "cloning" /\ h \in Piece /\ Keeps
    BY <1>0, <1>7 DEF FailRestoreClone, Restoring, RestoreHand, AtWork
  <2>2. \/ Slips("unclone", h) /\ Stays
        \/ Turns("unclone", h) /\ Stays /\ ~Readable(h)
    BY <1>0, <1>7, <2>1, TurnsTo
    DEF FailRestoreClone, Stage, Fail, treeVars, TreeTypes, Here, Stays, Pcs
  <2>3. OtherPaths
    BY <1>0, <1>7 DEF FailRestoreClone, Stage, treeVars, TreeTypes, OtherPaths
  <2>4. InHand(h)' /\ (Swaps(h) => prev'[h] = "none") /\ Excused'
    BY <1>0, <2>1, <2>2, <2>3 DEF Turns, Slips, Progress, Here, Stays, OtherPaths, Keeps, handleVars, InHand, What,
                            StagedWhole, Excused, Excuse, Readable, Swaps, OnTree, OnSubvolume, AtWork, Moving
  <2> QED BY <1>0, <2>1, <2>2, <2>3, <2>4, PathsKept
<1>8. CASE DropStaged
  <2>1. op.pc = "unclone" /\ h \in Piece /\ Keeps
    BY <1>0, <1>8 DEF DropStaged, Restoring, RestoreHand, AtWork
  <2>2. \/ Turns("stop", h) /\ Here(live[h], "none", prev[h])
        \/ Slips("stop", h) /\ Stays
    BY <1>0, <1>8, <2>1, TurnsTo
    DEF DropStaged, Stage, Fail, treeVars, TreeTypes, Here, Stays, Pcs
  <2>3. OtherPaths
    BY <1>0, <1>8 DEF DropStaged, Stage, treeVars, TreeTypes, OtherPaths
  <2>4. InHand(h)' /\ (Swaps(h) => prev'[h] = "none") /\ Excused'
    BY <1>0, <2>1, <2>2, <2>3 DEF Turns, Slips, Progress, Here, Stays, OtherPaths, Keeps, handleVars, InHand, What,
                            StagedWhole, Excused, Excuse, Readable, Swaps, OnTree, OnSubvolume, AtWork, Moving
  <2> QED BY <1>0, <2>1, <2>2, <2>3, <2>4, PathsKept
<1>9. CASE Park
  <2>1. op.pc = "park" /\ h \in Piece /\ Keeps
    BY <1>0, <1>9 DEF Park, Restoring, RestoreHand, AtWork
  <2>2. Turns("land", h) /\ Here("none", staged[h], live[h])
    BY <1>0, <1>9, <2>1, TurnsTo
    DEF Park, Stage, Fail, treeVars, TreeTypes, Here, Stays, Pcs
  <2>3. OtherPaths
    BY <1>0, <1>9 DEF Park, Stage, treeVars, TreeTypes, OtherPaths
  <2>4. InHand(h)' /\ (Swaps(h) => prev'[h] = "none") /\ Excused'
    BY <1>0, <2>1, <2>2, <2>3 DEF Turns, Slips, Progress, Here, Stays, OtherPaths, Keeps, handleVars, InHand, What,
                            StagedWhole, Excused, Excuse, Readable, Swaps, OnTree, OnSubvolume, AtWork, Moving
  <2> QED BY <1>0, <2>1, <2>2, <2>3, <2>4, PathsKept
<1>10. CASE FailPark
  <2>1. op.pc = "park" /\ h \in Piece /\ Keeps
    BY <1>0, <1>10 DEF FailPark, Restoring, RestoreHand, AtWork
  <2>2. \/ Slips("unclone", h) /\ Stays
        \/ Turns("unclone", h) /\ Stays /\ prev[h] # "none"
    BY <1>0, <1>10, <2>1, TurnsTo
    DEF FailPark, Stage, Fail, treeVars, TreeTypes, Here, Stays, Pcs
  <2>3. OtherPaths
    BY <1>0, <1>10 DEF FailPark, Stage, treeVars, TreeTypes, OtherPaths
  <2>4. InHand(h)' /\ (Swaps(h) => prev'[h] = "none") /\ Excused'
    BY <1>0, <2>1, <2>2, <2>3 DEF Turns, Slips, Progress, Here, Stays, OtherPaths, Keeps, handleVars, InHand, What,
                            StagedWhole, Excused, Excuse, Readable, Swaps, OnTree, OnSubvolume, AtWork, Moving
  <2> QED BY <1>0, <2>1, <2>2, <2>3, <2>4, PathsKept
<1>11. CASE Land
  <2>1. op.pc = "land" /\ h \in Piece /\ Keeps
    BY <1>0, <1>11 DEF Land, Restoring, RestoreHand, AtWork
  <2>2. Turns("tidy", h) /\ Here(staged[h], "none", prev[h])
    BY <1>0, <1>11, <2>1, TurnsTo
    DEF Land, Stage, Fail, treeVars, TreeTypes, Here, Stays, Pcs
  <2>3. OtherPaths
    BY <1>0, <1>11 DEF Land, Stage, treeVars, TreeTypes, OtherPaths
  <2>4. InHand(h)' /\ (Swaps(h) => prev'[h] = "none") /\ Excused'
    BY <1>0, <2>1, <2>2, <2>3 DEF Turns, Slips, Progress, Here, Stays, OtherPaths, Keeps, handleVars, InHand, What,
                            StagedWhole, Excused, Excuse, Readable, Swaps, OnTree, OnSubvolume, AtWork, Moving
  <2> QED BY <1>0, <2>1, <2>2, <2>3, <2>4, PathsKept
<1>12. CASE FailLand
  <2>1. op.pc = "land" /\ h \in Piece /\ Keeps
    BY <1>0, <1>12 DEF FailLand, Restoring, RestoreHand, AtWork
  <2>2. \/ Slips("rollback", h) /\ Stays
        \/ Turns("rollback", h) /\ Stays /\ live[h] # "none"
    BY <1>0, <1>12, <2>1, TurnsTo
    DEF FailLand, Stage, Fail, treeVars, TreeTypes, Here, Stays, Pcs
  <2>3. OtherPaths
    BY <1>0, <1>12 DEF FailLand, Stage, treeVars, TreeTypes, OtherPaths
  <2>4. InHand(h)' /\ (Swaps(h) => prev'[h] = "none") /\ Excused'
    BY <1>0, <2>1, <2>2, <2>3 DEF Turns, Slips, Progress, Here, Stays, OtherPaths, Keeps, handleVars, InHand, What,
                            StagedWhole, Excused, Excuse, Readable, Swaps, OnTree, OnSubvolume, AtWork, Moving
  <2> QED BY <1>0, <2>1, <2>2, <2>3, <2>4, PathsKept
<1>13. CASE Rollback
  <2>1. op.pc = "rollback" /\ h \in Piece /\ Keeps
    BY <1>0, <1>13 DEF Rollback, Restoring, RestoreHand, AtWork
  <2>2. \/ Turns("unclone", h) /\ Here(prev[h], staged[h], "none") /\ live[h] = "none"
        \/ Turns("unclone", h) /\ Stays /\ live[h] # "none"
        \/ Slips("unclone", h) /\ Stays
    BY <1>0, <1>13, <2>1, TurnsTo
    DEF Rollback, Stage, Fail, treeVars, TreeTypes, Here, Stays, Pcs
  <2>3. OtherPaths
    BY <1>0, <1>13 DEF Rollback, Stage, treeVars, TreeTypes, OtherPaths
  <2>4. InHand(h)' /\ (Swaps(h) => prev'[h] = "none") /\ Excused'
    BY <1>0, <2>1, <2>2, <2>3 DEF Turns, Slips, Progress, Here, Stays, OtherPaths, Keeps, handleVars, InHand, What,
                            StagedWhole, Excused, Excuse, Readable, Swaps, OnTree, OnSubvolume, AtWork, Moving
  <2> QED BY <1>0, <2>1, <2>2, <2>3, <2>4, PathsKept
<1>14. CASE Tidy
  <2>1. op.pc = "tidy" /\ h \in Piece /\ Keeps
    BY <1>0, <1>14 DEF Tidy, Restoring, RestoreHand, AtWork
  <2>2. \/ Turns("path", h + 1) /\ Here(live[h], staged[h], "none")
        \/ Slips("path", h + 1) /\ Stays
    BY <1>0, <1>14, <2>1, TurnsOn
    DEF Tidy, Stage, Fail, treeVars, TreeTypes, Here, Stays, Pcs
  <2>3. OtherPaths
    BY <1>0, <1>14 DEF Tidy, Stage, treeVars, TreeTypes, OtherPaths
  <2>4. Finished(h)' /\ (Swaps(h) => prev'[h] = "none")
    BY <1>0, <2>1, <2>2 DEF Turns, Slips, Progress, Here, Stays, Keeps, handleVars, Finished,
                            StagedWhole, InHand, What, OnTree, OnSubvolume, AtWork
  <2> QED BY <1>0, <2>1, <2>2, <2>3, <2>4, PathsKept
<1>15. CASE SnapStaged
  <2>1. op.pc = "snap" /\ h \in Piece /\ Keeps
    BY <1>0, <1>15 DEF SnapStaged, Restoring, RestoreHand, AtWork
  <2>2. Turns("delete", h) /\ Here(live[h], "snap", prev[h])
    BY <1>0, <1>15, <2>1, TurnsTo
    DEF SnapStaged, Stage, Fail, treeVars, TreeTypes, Here, Stays, Pcs
  <2>3. OtherPaths
    BY <1>0, <1>15 DEF SnapStaged, Stage, treeVars, TreeTypes, OtherPaths
  <2>4. InHand(h)' /\ (Swaps(h) => prev'[h] = "none") /\ Excused'
    BY <1>0, <2>1, <2>2, <2>3 DEF Turns, Slips, Progress, Here, Stays, OtherPaths, Keeps, handleVars, InHand, What,
                            StagedWhole, Excused, Excuse, Readable, Swaps, OnTree, OnSubvolume, AtWork, Moving
  <2> QED BY <1>0, <2>1, <2>2, <2>3, <2>4, PathsKept
<1>16. CASE FailSnapStaged
  <2>1. op.pc = "snap" /\ h \in Piece /\ Keeps
    BY <1>0, <1>16 DEF FailSnapStaged, Restoring, RestoreHand, AtWork
  <2>2. \/ Slips("stop", h) /\ Stays
        \/ Turns("stop", h) /\ Stays /\ (staged[h] # "none" \/ ~Readable(h))
    BY <1>0, <1>16, <2>1, TurnsTo
    DEF FailSnapStaged, Stage, Fail, treeVars, TreeTypes, Here, Stays, Pcs
  <2>3. OtherPaths
    BY <1>0, <1>16 DEF FailSnapStaged, Stage, treeVars, TreeTypes, OtherPaths
  <2>4. InHand(h)' /\ (Swaps(h) => prev'[h] = "none") /\ Excused'
    BY <1>0, <2>1, <2>2, <2>3 DEF Turns, Slips, Progress, Here, Stays, OtherPaths, Keeps, handleVars, InHand, What,
                            StagedWhole, Excused, Excuse, Readable, Swaps, OnTree, OnSubvolume, AtWork, Moving
  <2> QED BY <1>0, <2>1, <2>2, <2>3, <2>4, PathsKept
<1>17. CASE DeleteLive
  <2>1. op.pc = "delete" /\ h \in Piece /\ Keeps
    BY <1>0, <1>17 DEF DeleteLive, Restoring, RestoreHand, AtWork
  <2>2. Turns("rename", h) /\ Here("none", staged[h], prev[h])
    BY <1>0, <1>17, <2>1, TurnsTo
    DEF DeleteLive, Stage, Fail, treeVars, TreeTypes, Here, Stays, Pcs
  <2>3. OtherPaths
    BY <1>0, <1>17 DEF DeleteLive, Stage, treeVars, TreeTypes, OtherPaths
  <2>4. InHand(h)' /\ (Swaps(h) => prev'[h] = "none") /\ Excused'
    BY <1>0, <2>1, <2>2, <2>3 DEF Turns, Slips, Progress, Here, Stays, OtherPaths, Keeps, handleVars, InHand, What,
                            StagedWhole, Excused, Excuse, Readable, Swaps, OnTree, OnSubvolume, AtWork, Moving
  <2> QED BY <1>0, <2>1, <2>2, <2>3, <2>4, PathsKept
<1>18. CASE FailDeleteLive
  <2>1. op.pc = "delete" /\ h \in Piece /\ Keeps
    BY <1>0, <1>18 DEF FailDeleteLive, Restoring, RestoreHand, AtWork
  <2>2. \/ Slips("undo", h) /\ Stays
        \/ Turns("undo", h) /\ Stays /\ live[h] \notin Subvolume
    BY <1>0, <1>18, <2>1, TurnsTo
    DEF FailDeleteLive, Stage, Fail, treeVars, TreeTypes, Here, Stays, Pcs
  <2>3. OtherPaths
    BY <1>0, <1>18 DEF FailDeleteLive, Stage, treeVars, TreeTypes, OtherPaths
  <2>4. InHand(h)' /\ (Swaps(h) => prev'[h] = "none") /\ Excused'
    BY <1>0, <2>1, <2>2, <2>3 DEF Turns, Slips, Progress, Here, Stays, OtherPaths, Keeps, handleVars, InHand, What,
                            StagedWhole, Excused, Excuse, Readable, Swaps, OnTree, OnSubvolume, AtWork, Moving
  <2> QED BY <1>0, <2>1, <2>2, <2>3, <2>4, PathsKept
<1>19. CASE RenameStaged
  <2>1. op.pc = "rename" /\ h \in Piece /\ Keeps
    BY <1>0, <1>19 DEF RenameStaged, Restoring, RestoreHand, AtWork
  <2>2. Turns("path", h + 1) /\ Here(staged[h], "none", prev[h])
    BY <1>0, <1>19, <2>1, TurnsOn
    DEF RenameStaged, Stage, Fail, treeVars, TreeTypes, Here, Stays, Pcs
  <2>3. OtherPaths
    BY <1>0, <1>19 DEF RenameStaged, Stage, treeVars, TreeTypes, OtherPaths
  <2>4. Finished(h)' /\ (Swaps(h) => prev'[h] = "none")
    BY <1>0, <2>1, <2>2 DEF Turns, Slips, Progress, Here, Stays, Keeps, handleVars, Finished,
                            StagedWhole, InHand, What, OnTree, OnSubvolume, AtWork
  <2> QED BY <1>0, <2>1, <2>2, <2>3, <2>4, PathsKept
<1>20. CASE FailRenameStaged
  <2>1. op.pc = "rename" /\ h \in Piece /\ Keeps
    BY <1>0, <1>20 DEF FailRenameStaged, Restoring, RestoreHand, AtWork
  <2>2. \/ Slips("again", h) /\ Stays
        \/ Turns("again", h) /\ Stays /\ live[h] # "none"
    BY <1>0, <1>20, <2>1, TurnsTo
    DEF FailRenameStaged, Stage, Fail, treeVars, TreeTypes, Here, Stays, Pcs
  <2>3. OtherPaths
    BY <1>0, <1>20 DEF FailRenameStaged, Stage, treeVars, TreeTypes, OtherPaths
  <2>4. InHand(h)' /\ (Swaps(h) => prev'[h] = "none") /\ Excused'
    BY <1>0, <2>1, <2>2, <2>3 DEF Turns, Slips, Progress, Here, Stays, OtherPaths, Keeps, handleVars, InHand, What,
                            StagedWhole, Excused, Excuse, Readable, Swaps, OnTree, OnSubvolume, AtWork, Moving
  <2> QED BY <1>0, <2>1, <2>2, <2>3, <2>4, PathsKept
<1>21. CASE SnapLive
  <2>1. op.pc = "again" /\ h \in Piece /\ Keeps
    BY <1>0, <1>21 DEF SnapLive, Restoring, RestoreHand, AtWork
  <2>2. Turns("settle", h) /\ Here("snap", staged[h], prev[h])
    BY <1>0, <1>21, <2>1, TurnsTo
    DEF SnapLive, Stage, Fail, treeVars, TreeTypes, Here, Stays, Pcs
  <2>3. OtherPaths
    BY <1>0, <1>21 DEF SnapLive, Stage, treeVars, TreeTypes, OtherPaths
  <2>4. InHand(h)' /\ (Swaps(h) => prev'[h] = "none") /\ Excused'
    BY <1>0, <2>1, <2>2, <2>3 DEF Turns, Slips, Progress, Here, Stays, OtherPaths, Keeps, handleVars, InHand, What,
                            StagedWhole, Excused, Excuse, Readable, Swaps, OnTree, OnSubvolume, AtWork, Moving
  <2> QED BY <1>0, <2>1, <2>2, <2>3, <2>4, PathsKept
<1>22. CASE FailSnapLive
  <2>1. op.pc = "again" /\ h \in Piece /\ Keeps
    BY <1>0, <1>22 DEF FailSnapLive, Restoring, RestoreHand, AtWork
  <2>2. \/ Slips("stop", h) /\ Stays
        \/ Turns("stop", h) /\ Stays /\ live[h] # "none"
    BY <1>0, <1>22, <2>1, TurnsTo
    DEF FailSnapLive, Stage, Fail, treeVars, TreeTypes, Here, Stays, Pcs
  <2>3. OtherPaths
    BY <1>0, <1>22 DEF FailSnapLive, Stage, treeVars, TreeTypes, OtherPaths
  <2>4. InHand(h)' /\ (Swaps(h) => prev'[h] = "none") /\ Excused'
    BY <1>0, <2>1, <2>2, <2>3 DEF Turns, Slips, Progress, Here, Stays, OtherPaths, Keeps, handleVars, InHand, What,
                            StagedWhole, Excused, Excuse, Readable, Swaps, OnTree, OnSubvolume, AtWork, Moving
  <2> QED BY <1>0, <2>1, <2>2, <2>3, <2>4, PathsKept
<1>23. CASE ClearStaged
  <2>1. op.pc \in {"reset", "undo", "settle"} /\ h \in Piece /\ Keeps
    BY <1>0, <1>23 DEF ClearStaged, RestoreHand, AtWork
  <2>2. /\ live'[h] = live[h] /\ prev'[h] = prev[h] /\ OtherPaths
        /\ \/ Go(AfterClear) /\ staged'[h] = "none"
           \/ CommandFails(AfterClear)
    BY <1>0, <1>23, <2>1 DEF ClearStaged, Stage, TreeTypes, OtherPaths
  <2>3. Swaps(h) => prev'[h] = "none"
    BY <1>0, <2>1, <2>2
  <2>4. CASE op.pc = "reset"
    <3>1. \/ Turns("snap", h) /\ staged'[h] = "none"
          \/ Slips("snap", h)
      BY <1>0, <2>2, <2>4, TurnsTo DEF AfterClear, Pcs
    <3>2. InHand(h)' /\ Excused'
      BY <1>0, <2>1, <2>2, <2>4, <3>1
      DEF Turns, Slips, Progress, Keeps, handleVars, InHand, What,
          Excused, Excuse, Readable, Swaps, OnTree, OnSubvolume, AtWork, Moving
    <3> QED BY <1>0, <2>1, <2>2, <2>3, <3>1, <3>2, PathsKept
  <2>5. CASE op.pc = "undo"
    <3>1. Turns("stop", h) \/ Slips("stop", h)
      BY <1>0, <2>2, <2>5, TurnsTo DEF AfterClear, Pcs
    <3>2. InHand(h)' /\ Excused'
      BY <1>0, <2>1, <2>2, <2>5, <3>1
      DEF Turns, Slips, Progress, Keeps, handleVars, InHand, What, OtherPaths,
          Excused, Excuse, Readable, Swaps, OnTree, OnSubvolume, AtWork, Moving
    <3> QED BY <1>0, <2>1, <2>2, <2>3, <3>1, <3>2, PathsKept
  <2>6. CASE op.pc = "settle"
    <3>1. \/ Turns("path", h + 1) /\ staged'[h] = "none"
          \/ Slips("path", h + 1)
      BY <1>0, <2>1, <2>2, <2>6, TurnsOn DEF AfterClear
    <3>2. Finished(h)'
      BY <1>0, <2>1, <2>2, <2>6, <3>1
      DEF Turns, Slips, Progress, Keeps, handleVars, Finished, InHand, What, OnTree, OnSubvolume, AtWork
    <3> QED BY <1>0, <2>1, <2>2, <2>3, <3>1, <3>2, PathsKept
  <2> QED BY <2>1, <2>4, <2>5, <2>6
<1>24. CASE Restored \/ Failed
  <2>1. op' = Idle /\ backend' = backend /\ prev' = prev
    BY <1>24 DEF Restored, Failed, Answer, Ends, treeVars
  <2> QED BY <1>0, <2>1, Idles DEF PInv, NoPrevious, Swaps, PathsWell
<1>25. ~StartRestore
  BY <1>0, Idles DEF StartRestore
<1> QED BY <1>1, <1>2, <1>3, <1>4, <1>5, <1>6, <1>7, <1>8, <1>9, <1>10, <1>11, <1>12, <1>13, <1>14,
          <1>15, <1>16, <1>17, <1>18, <1>19, <1>20, <1>21, <1>22, <1>23, <1>24, <1>25
       DEF RestoreNext, SwapNext, SubvolumeNext

\* The backend is chosen once.
LEMMA BackendStays ==
    ASSUME HandleNext
    PROVE  backend' = backend
<1>1. CreateNext => backend' = backend
  BY DEF CreateNext, StartCreate, TakeCopy, FinishClone, FailClone, TakeSubvolume, TakeShadow,
         FailTake, LoseShadow, Mount, FailMount, OpenManifest, WriteManifest, FailManifest, PutRow,
         FailPutRow, To, Go, CommandFails, Trips, Answer
<1>2. DeleteNext => backend' = backend
  BY DEF DeleteNext, StartDelete, DeleteSubvolume, SkipSubvolume, StopAtMissing, StopAtSubvolume,
         Unmount, Unmounted, DeleteShadow, PiecesDone, RemovePart, RemoveDir, ReadOnlyLeft, FailRemove,
         ReturnError, DropRow, FailDropRow, KeepRow, NotRemoved, Removed,
         To, Go, Begin, CommandFails, Trips, Answer
<1>3. LifeNext => backend' = backend
  BY DEF LifeNext, HangUp, Evict, Crash, Restart, ReconcileRow, ReconcileOrphan, ReconcileClean, Go
<1> QED BY <1>1, <1>2, <1>3 DEF HandleNext

\* Which steps of a handle's life a restore can meet, and what they leave alone.
LEMMA AroundRestore ==
    ASSUME HandleTypes, op.kind = "restore", HandleNext
    PROVE  \/ op'.kind # "restore"
           \/ /\ op'.pc = op.pc /\ op'.i = op.i /\ op'.bad = op.bad
              /\ piece' = piece /\ manifest' = manifest /\ shadows' \subseteq shadows
<1>1. ~CreateNext
  BY Idles DEF CreateNext, In, StartCreate, TakeCopy, FinishClone, FailClone, TakeSubvolume, TakeShadow,
         FailTake, LoseShadow, Mount, FailMount, OpenManifest, WriteManifest, FailManifest, PutRow, FailPutRow
<1>2. ~DeleteNext
  BY Idles DEF DeleteNext, In, Removing, StartDelete, DeleteSubvolume, SkipSubvolume, StopAtMissing,
         StopAtSubvolume, Unmount, Unmounted, DeleteShadow, PiecesDone, RemovePart, RemoveDir,
         ReadOnlyLeft, FailRemove, ReturnError, DropRow, FailDropRow, KeepRow
<1>3. CASE HangUp
  <2>1. op' = [op EXCEPT !.gone = TRUE] /\ op \in Call
    BY <1>3 DEF HangUp, Go, HandleTypes
  <2> QED BY <1>3, <2>1 DEF HangUp, handleVars, Call
<1>4. CASE Evict
  BY <1>4 DEF Evict
<1>5. CASE Crash
  BY <1>5, Idles DEF Crash
<1>6. CASE Restart
  BY <1>6, Idles DEF Restart
<1>7. CASE ReconcileRow \/ ReconcileClean
  BY <1>7 DEF ReconcileRow, ReconcileClean, handleVars
<1>8. CASE ReconcileOrphan
  <2>1. op'.kind = "orphan"
    BY <1>8, SetDelete DEF ReconcileOrphan, HandleTypes, LifeTypes
  <2> QED BY <2>1
<1> QED BY <1>1, <1>2, <1>3, <1>4, <1>5, <1>6, <1>7, <1>8 DEF HandleNext, LifeNext

\* A restore begins with every path as it is.
LEMMA PathsBegin ==
    ASSUME PInv, StartRestore
    PROVE  NoPrevious' /\ PathsWell'
<1>1. /\ op' = [Idle EXCEPT !.kind = "restore", !.pc = "check"] /\ backend' = backend
      /\ was' = live /\ touched' = {} /\ live' = live /\ prev' = prev
  BY DEF StartRestore, Begin, treeVars
<1>2. op'.pc = "check" /\ op'.i = 1
  <2>1. [Idle EXCEPT !.kind = "restore", !.pc = "check"].pc = "check"
        /\ [Idle EXCEPT !.kind = "restore", !.pc = "check"].i = 1
    BY DEF Idle
  <2> QED BY <1>1, <2>1
<1>3. NoPrevious'
  BY <1>1 DEF PInv, NoPrevious, Swaps
<1>4. \A j \in Piece : ~(j < 1)
  BY EngineAssumption DEF Piece
<1>5. \A j \in Piece : Waiting(j)'
  BY <1>1 DEF Waiting
<1>6. \A j \in Piece : Waiting(j)' => InHand(j)'
  BY <1>1, <1>2 DEF Waiting, InHand, OnTree, OnSubvolume, AtWork, Moving
<1>7. Excused'
  BY <1>2 DEF Excused
<1> QED BY <1>2, <1>3, <1>4, <1>5, <1>6, <1>7 DEF PathsWell

\* The agent's edits are known as such.
LEMMA PathsEdited ==
    ASSUME PInv, AgentEdits
    PROVE  NoPrevious' /\ PathsWell'
<1>1. /\ op' = op /\ backend' = backend /\ piece' = piece /\ manifest' = manifest /\ shadows' = shadows
      /\ staged' = staged /\ prev' = prev /\ was' = was
  BY DEF AgentEdits, engineVars, handleVars
<1>2. NoPrevious'
  BY <1>1 DEF PInv, NoPrevious, Swaps
<1>3. CASE op.kind = "restore"
  <2>1. PICK i \in Piece : /\ touched' = touched \union {i}
                           /\ \A j \in Piece \ {i} : live'[j] = live[j]
    BY <1>3 DEF AgentEdits, PInv, IInv, TreeTypes
  <2>2. \A j \in Piece : /\ Finished(j) => Finished(j)'
                         /\ Waiting(j) => Waiting(j)'
    BY <1>1, <2>1 DEF Finished, Waiting, What
  <2>3. \A j \in Piece : InHand(j) => InHand(j)'
    BY <1>1, <2>1 DEF InHand, What, Swaps
  <2>4. Excused'
    BY <2>1 DEF Excused, Excuse
  <2> QED BY <1>1, <1>2, <2>2, <2>3, <2>4 DEF PInv, PathsWell
<1> QED BY <1>1, <1>2, <1>3 DEF PathsWell

\* Nor does the rest of the daemon's life take a restore back.
LEMMA PathsAround ==
    ASSUME PInv, HandleNext, UNCHANGED restoreVars
    PROVE  NoPrevious' /\ PathsWell'
<1>1. backend' = backend /\ Kept /\ HandleTypes
  BY BackendStays, CreateKeeps, DeleteKeeps, LifeKeeps DEF PInv, IInv, HandleNext
<1>2. /\ live' = live /\ staged' = staged /\ prev' = prev /\ was' = was /\ touched' = touched
  BY DEF restoreVars, treeVars
<1>3. NoPrevious'
  BY <1>1, <1>2 DEF PInv, NoPrevious, Swaps
<1>4. ASSUME op'.kind = "restore" PROVE PathsWell'
  <2>1. op.kind = "restore"
    BY <1>1, <1>4 DEF Kept, Settled
  <2>2. /\ op'.pc = op.pc /\ op'.i = op.i /\ op'.bad = op.bad
        /\ piece' = piece /\ manifest' = manifest /\ shadows' \subseteq shadows
    BY <1>1, <1>4, <2>1, AroundRestore
  <2>3. \A j \in Piece : /\ Finished(j) => Finished(j)'
                         /\ Waiting(j) => Waiting(j)'
                         /\ InHand(j) => InHand(j)'
    BY <1>1, <1>2, <2>2 DEF Finished, Waiting, InHand, What, Swaps
  <2>4. Excused => Excused'
    BY <1>1, <1>2, <2>2 DEF Excused, Excuse, Readable, Swaps
  <2> QED BY <1>2, <2>1, <2>2, <2>3, <2>4 DEF PInv, PathsWell
<1> QED BY <1>3, <1>4 DEF PathsWell

\* Every step keeps what is known of the paths: of a restore, of the agent, of a hang-up, an
\* eviction or a crash in the middle of it.
THEOREM NextPInv == PInv /\ [Next]_vars => PInv'
<1> SUFFICES ASSUME PInv, [Next]_vars PROVE PInv'
  OBVIOUS
<1>1. IInv'
  BY NextIInv DEF PInv
<1>2. CASE UNCHANGED vars
  <2>1. NoPrevious' /\ PathsWell'
    BY <1>2 DEF vars, engineVars, handleVars, restoreVars, treeVars, PInv, NoPrevious, PathsWell, Swaps,
                Finished, Waiting, InHand, What, Excused, Excuse, Readable
  <2> QED BY <1>1, <2>1 DEF PInv
<1>3. CASE RestoreNext
  <2>1. PICK h : h = op.i
    OBVIOUS
  <2>2. CASE op.kind = "restore"
    BY <1>1, <1>3, <2>1, <2>2, PathsStep DEF PInv
  <2>3. CASE op.kind # "restore"
    <3>1. StartRestore
      BY <1>3, <2>3 DEF RestoreNext, SwapNext, SubvolumeNext, Restoring, Check, Turn, Restored, Failed,
             ClearStagedTree, ClearPrevious, BeginClone, EndClone, FailRestoreClone, DropStaged, Park,
             FailPark, Land, FailLand, Rollback, Tidy, ClearStaged, SnapStaged, FailSnapStaged,
             DeleteLive, FailDeleteLive, RenameStaged, FailRenameStaged, SnapLive, FailSnapLive
    <3> QED BY <1>1, <3>1, PathsBegin DEF PInv
  <2> QED BY <2>2, <2>3
<1>4. CASE AgentEdits
  BY <1>1, <1>4, PathsEdited DEF PInv
<1>5. CASE HandleNext /\ UNCHANGED restoreVars
  BY <1>1, <1>5, PathsAround DEF PInv
<1> QED BY <1>2, <1>3, <1>4, <1>5 DEF Next

\* So every reachable state has it.
THEOREM PathsInvariant == Spec => []PInv
<1>1. Init => PInv
  <2> SUFFICES ASSUME Init PROVE PInv
    OBVIOUS
  <2>1. op = Idle /\ \A j \in Piece : prev[j] = "none"
    BY DEF Init, HandleInit
  <2> QED BY <2>1, InitIInv, Idles DEF PInv, NoPrevious, PathsWell
<1> QED BY <1>1, NextPInv, PTL DEF Spec

\* A restore that fails leaves the path it failed at, and those after it, as they were, unless a
\* second step fails or the agent edits them; those before it are restored (swapIn and the swap
\* of a subvolume in Btrfs.Restore).
THEOREM TheRestIsKept == Spec => []FailedRestoreKeepsTheRest
<1>1. PInv => FailedRestoreKeepsTheRest
  <2> SUFFICES ASSUME PInv, Restoring("stop"), op.bad <= 1, NEW i \in Piece \ touched
               PROVE  IF i < op.i THEN live[i] \in {"snap", "half"} ELSE live[i] = was[i]
    BY DEF FailedRestoreKeepsTheRest
  <2>1. PathsWell /\ op.kind = "restore" /\ op.pc = "stop"
    BY DEF PInv, Restoring
  <2>2. op.i \in Nat /\ i \in Nat /\ op.bad \in 0..2
    BY EngineAssumption DEF PInv, IInv, HandleTypes, Call, Piece
  <2>3. CASE i < op.i
    BY <2>1, <2>3 DEF PathsWell, Finished
  <2>4. CASE i = op.i
    BY <2>1, <2>2, <2>4 DEF PathsWell, InHand
  <2>5. CASE i > op.i
    BY <2>1, <2>2, <2>5 DEF PathsWell, Waiting
  <2> QED BY <2>2, <2>3, <2>4, <2>5
<1> QED BY <1>1, PathsInvariant, PTL

\* A restore no step of which fails lands, whatever an interrupted restore left beside the paths,
\* except for the reasons the property names: the staged and the previous name are cleared
\* before they are used (copy.go, swapIn; btrfs.go, clearStaged).
THEOREM RestoresLand == Spec => []RestoreLands
<1>1. PInv => RestoreLands
  BY DEF PInv, PathsWell, Excused, Excuse, RestoreLands, Restoring
<1> QED BY <1>1, PathsInvariant, PTL

\* When every step of a restore went well, each path the agent left alone holds what the handle
\* held of it, and nothing is left beside it.
THEOREM RestoresDeliver == Spec => []RestoreDelivers
<1>1. PInv => RestoreDelivers
  <2> SUFFICES ASSUME PInv, Restoring("path"), op.i = N + 1, op.bad = 0, NEW i \in Piece
               PROVE  /\ i \in touched \/ live[i] \in {"snap", IF piece[i] = "whole" THEN "snap" ELSE "half"}
                      /\ staged[i] = "none" /\ prev[i] = "none"
    BY DEF RestoreDelivers
  <2>1. i < op.i
    BY EngineAssumption DEF Piece
  <2> QED BY <2>1 DEF PInv, PathsWell, Restoring, Finished, What
<1> QED BY <1>1, PathsInvariant, PTL
==============================================================================
