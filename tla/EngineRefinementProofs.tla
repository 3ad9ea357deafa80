------------------------ MODULE EngineRefinementProofs ------------------------
(***************************************************************************)
(* For any sources, backends and bounds, the calls of the engine implement *)
(* HandleContract: every step, command by command, failing or not, maps to *)
(* a step of the contract or to none.  The second half proves what the     *)
(* calls on a handle promise beyond the contract.                          *)
(*                                                                         *)
(* The mapping needs more than types.  An identifier that is new has       *)
(* nothing on disk and no row (Lived); a create has no manifest before its *)
(* last step and every source of it by then (Creating); a removal that     *)
(* swallows its errors belongs to vss, and the row waits for the handle    *)
(* (Removes).                                                              *)
(***************************************************************************)
EXTENDS EngineRefinement, EngineRestoreProofs, WellFoundedInduction

Lived ==
    /\ ~born => ~dir /\ ~row /\ manifest = "none" /\ op.kind = "none"
    /\ phase = "down" => op.kind = "none"

Creating ==
    op.kind = "create" =>
        /\ dir /\ ~row
        /\ op.pc # "put" => manifest # "whole"
        /\ op.pc \in {"take", "clone", "mount", "write"} =>
               \A j \in Piece : j < op.i => piece[j] = "whole"
        /\ op.pc = "write" => op.i = N + 1

Removes ==
    /\ op.kind = "orphan" => ~row /\ phase = "boot"
    /\ op.kind \in {"delete", "orphan"} /\ op.quiet => backend = "vss"
    /\ op.kind = "delete" /\ op.pc = "drop" => ~dir \/ backend = "vss"

RInv == IInv /\ Lived /\ Creating /\ Removes

\* What a step owes.
Maps == Contract!Next \/ UNCHANGED Contract!vars
Owes == Lived' /\ Creating' /\ Removes' /\ Maps

\* What a step that stays in its call leaves alone.
StaysIn == UNCHANGED <<backend, row, born, phase>>

\* A call at the same source and with the same use of errors.
Onto(p) == op'.kind = op.kind /\ op'.pc = p /\ op'.i = op.i /\ op'.quiet = op.quiet

-----------------------------------------------------------------------------
\* A call moves to another point, failing a step or not.
LEMMA OntoPoint ==
    ASSUME op \in Call, NEW p \in Pcs,
           To(p) \/ CommandFails([op EXCEPT !.pc = p]) \/ Trips([op EXCEPT !.pc = p])
    PROVE  Onto(p) /\ StaysIn
  <1>1. PICK r \in Call : r = [op EXCEPT !.pc = p] /\ r.kind = op.kind /\ r.pc = p
                          /\ r.i = op.i /\ r.quiet = op.quiet
    <2>1. /\ [op EXCEPT !.pc = p] \in Call /\ [op EXCEPT !.pc = p].kind = op.kind
          /\ [op EXCEPT !.pc = p].pc = p /\ [op EXCEPT !.pc = p].i = op.i
          /\ [op EXCEPT !.pc = p].quiet = op.quiet
      BY DEF Call, Pcs
    <2> QED BY <2>1
  <1>2. op' = r \/ op' = [r EXCEPT !.bad = More(@)]
    BY <1>1 DEF To, Go, CommandFails, Trips
  <1>3. op'.kind = r.kind /\ op'.pc = r.pc /\ op'.i = r.i /\ op'.quiet = r.quiet
    BY <1>2 DEF Call
  <1> QED BY <1>1, <1>3 DEF Onto, StaysIn, To, Go, CommandFails, Trips, lifeVars

\* A removal has one piece less to go through.
LEMMA OntoRest ==
    ASSUME op \in Call, NEW S, S = op.todo \ {Lowest(op.todo)},
           Go([op EXCEPT !.todo = S]) \/ CommandFails([op EXCEPT !.todo = S])
    PROVE  Onto(op.pc) /\ StaysIn
  <1>1. PICK r \in Call : r = [op EXCEPT !.todo = S] /\ r.kind = op.kind /\ r.pc = op.pc
                          /\ r.i = op.i /\ r.quiet = op.quiet
    <2>1. S \in SUBSET Piece
      BY DEF Call
    <2>2. /\ [op EXCEPT !.todo = S] \in Call /\ [op EXCEPT !.todo = S].kind = op.kind
          /\ [op EXCEPT !.todo = S].pc = op.pc /\ [op EXCEPT !.todo = S].i = op.i
          /\ [op EXCEPT !.todo = S].quiet = op.quiet
      BY <2>1 DEF Call
    <2> QED BY <2>2
  <1>2. op' = r \/ op' = [r EXCEPT !.bad = More(@)]
    BY <1>1 DEF Go, CommandFails, Trips
  <1>3. op'.kind = r.kind /\ op'.pc = r.pc /\ op'.i = r.i /\ op'.quiet = r.quiet
    BY <1>2 DEF Call
  <1> QED BY <1>1, <1>3 DEF Onto, StaysIn, Go, CommandFails, Trips, lifeVars

\* A removal begins.
LEMMA OntoDelete ==
    ASSUME backend \in AllBackends, NEW k \in {"delete", "orphan"}
    PROVE  /\ DeleteCall(k) \in Call /\ DeleteCall(k).kind = k /\ DeleteCall(k).pc # "drop"
           /\ DeleteCall(k).quiet => backend = "vss"
  <1>1. DeleteCall(k) \in Call /\ DeleteCall(k).kind = k
    BY SetDelete
  <1>2. DeleteCall(k).pc = CASE backend = "copy" \/ manifest # "whole" -> "remove"
                             [] backend = "btrfs" /\ manifest = "whole" -> "subvols"
                             [] backend = "vss" /\ manifest = "whole" -> "unmount"
    BY DEF DeleteCall, Idle
  <1>3. DeleteCall(k).pc # "drop"
    BY <1>2 DEF AllBackends
  <1>4. DeleteCall(k).quiet = (backend = "vss" /\ manifest = "whole")
    BY DEF DeleteCall, Idle
  <1> QED BY <1>1, <1>3, <1>4

\* A removal without an error gives its call back, or goes on to the row.
Finishes ==
    /\ UNCHANGED <<backend, born>>
    /\ \/ op.kind = "delete" /\ row /\ Onto("drop") /\ StaysIn
       \/ /\ op.kind # "orphan" /\ op' = Idle /\ UNCHANGED phase
          /\ row' = FALSE /\ (op.kind = "create" \/ ~row)
       \/ op.kind = "orphan" /\ op' = Idle /\ row' = FALSE /\ phase' = "up"

\* One with an error keeps the row, and stops a start.
Keeping ==
    /\ UNCHANGED <<backend, born, row>>
    /\ op.kind # "create" /\ op' = Idle
    /\ phase' = IF op.kind = "orphan" THEN "down" ELSE phase

\* A removal that ends does one or the other; an error a cleanup swallows is no error.
LEMMA RemovalMaps ==
    ASSUME op \in Call, Removing
    PROVE  /\ Removed => Finishes
           /\ NotRemoved => (Finishes /\ (op.kind = "create" \/ op.quiet)) \/ Keeping
  <1>1. To("drop") => Onto("drop") /\ StaysIn
    BY OntoPoint DEF Pcs
  <1>2. Removed => Finishes
    <2>1. CASE op.kind = "delete" /\ row
      BY <1>1, <2>1 DEF Removed, Finishes, StaysIn
    <2>2. CASE ~(op.kind = "delete" /\ row)
      BY <2>2 DEF Removed, Finishes, Answer, Removing
    <2> QED BY <2>1, <2>2
  <1>3. NotRemoved => (Removed /\ (op.kind = "create" \/ op.quiet)) \/ Keeping
    BY DEF NotRemoved, Keeping, Answer, Removing
  <1> QED BY <1>2, <1>3

-----------------------------------------------------------------------------
\* The stage of the identifier follows the call.
LEMMA StageFollows ==
    ASSUME UNCHANGED born, op'.kind = "create" <=> op.kind = "create",
           op.kind = "create" => (op'.pc = "put" <=> op.pc = "put")
    PROVE  LifeStage' = LifeStage
  BY DEF LifeStage

\* A handle that only loses parts maps to Lose or to nothing.
LEMMA Loses ==
    ASSUME UNCHANGED <<backend, dir, row, phase>>, LifeStage' = LifeStage,
           Complete' => Complete,
           Complete => Complete' \/ LifeStage = "spent" \/ backend = "vss"
    PROVE  Maps
  <1>1. CASE dir /\ Complete /\ ~Complete'
    BY <1>1 DEF Maps, Contract!Next, Contract!Lose, OnDisk
  <1>2. CASE ~(dir /\ Complete /\ ~Complete')
    BY <1>2 DEF Maps, Contract!vars, OnDisk
  <1> QED BY <1>1, <1>2

\* A create that goes on maps to nothing: the handle stays in parts.
LEMMA InCreate ==
    ASSUME RInv, op.kind = "create", op.pc # "put", op'.kind = "create", op'.pc # "put",
           StaysIn, UNCHANGED dir, manifest' # "whole",
           op'.pc \in {"take", "clone", "mount", "write"} =>
               \A j \in Piece : j < op'.i => piece'[j] = "whole",
           op'.pc = "write" => op'.i = N + 1
    PROVE  Owes
  <1>1. Lived' /\ Creating' /\ Removes'
    BY DEF RInv, Lived, Creating, Removes, StaysIn
  <1>2. LifeStage' = LifeStage /\ ~Complete /\ ~Complete'
    BY StageFollows DEF StaysIn, RInv, Creating, Complete
  <1>3. Maps
    BY <1>2, Loses DEF StaysIn
  <1> QED BY <1>1, <1>3 DEF Owes

\* A removal that goes on maps to Lose or to nothing.
LEMMA InRemoval ==
    ASSUME RInv, Removing, op.pc # "put",
           NEW p, p \notin {"take", "clone", "mount", "write", "put", "drop"}, Onto(p),
           StaysIn, UNCHANGED dir, Complete' => Complete, manifest' \in {manifest, "none"}
    PROVE  Owes
  <1>1. Lived' /\ Creating' /\ Removes'
    BY DEF RInv, Lived, Creating, Removes, StaysIn, Onto, Removing
  <1>2. LifeStage' = LifeStage
    BY StageFollows DEF StaysIn, Onto
  <1>3. Complete => LifeStage = "spent"
    BY DEF RInv, Lived, Creating, Complete, LifeStage, Removing
  <1>4. Maps
    BY <1>2, <1>3, Loses DEF StaysIn
  <1> QED BY <1>1, <1>4 DEF Owes

\* A removal that ends without an error, the directory gone or its error swallowed.
LEMMA FinishMaps ==
    ASSUME RInv, Removing, op.pc # "put", UNCHANGED <<piece, manifest, shadows>>, Finishes,
           \/ dir' = FALSE /\ manifest = "none"
           \/ dir' = dir /\ (op.kind = "create" \/ op.quiet)
    PROVE  Owes
  <1>0. born /\ born' /\ backend' = backend
    BY DEF RInv, Lived, Removing, Finishes
  <1>1. Complete' = Complete
    BY <1>0 DEF Complete, Exists
  <1>2. ~dir' => OnDisk' = "absent"
    BY DEF OnDisk
  <1>3. CASE op.kind = "create"
    <2>1. op' = Idle /\ row' = FALSE /\ UNCHANGED phase /\ dir /\ ~row /\ row \in BOOLEAN /\ ~Complete
      BY <1>3 DEF Finishes, RInv, Creating, Complete, IInv, HandleTypes, LifeTypes
    <2>2. Lived' /\ Creating' /\ Removes'
      BY <1>0, <2>1 DEF Lived, Creating, Removes, Idle
    <2>3. LifeStage = "creating" /\ LifeStage' = "spent"
      BY <1>0, <1>3, <2>1 DEF LifeStage, Idle
    <2>4. OnDisk' \in {"absent", "parts"}
      BY <1>1, <2>1 DEF OnDisk
    <2>5. Contract!FailCreate
      BY <1>0, <2>1, <2>3, <2>4 DEF Contract!FailCreate
    <2> QED BY <2>2, <2>5 DEF Owes, Maps, Contract!Next
  <1>4. CASE op.kind = "orphan"
    <2>1. op' = Idle /\ row' = FALSE /\ phase' = "up" /\ ~row /\ row \in BOOLEAN /\ phase = "boot"
      BY <1>4 DEF Finishes, RInv, Removes, IInv, HandleTypes, LifeTypes
    <2>2. Lived' /\ Creating' /\ Removes'
      BY <1>0, <2>1 DEF Lived, Creating, Removes, Idle
    <2>3. LifeStage = "spent" /\ LifeStage' = "spent"
      BY <1>0, <1>4, <2>1 DEF LifeStage, Idle
    <2>4. CASE dir /\ ~dir'
      <3>1. OnDisk = "parts" /\ OnDisk' = "absent"
        BY <2>4 DEF OnDisk, Complete
      <3>2. Contract!EndDelete
        BY <1>0, <2>1, <2>3, <3>1 DEF Contract!EndDelete
      <3> QED BY <2>2, <3>2 DEF Owes, Maps, Contract!Next
    <2>5. CASE ~dir /\ ~dir'
      <3>1. Contract!Start
        BY <1>0, <2>1, <2>3, <2>5 DEF Contract!Start, OnDisk
      <3> QED BY <2>2, <3>1 DEF Owes, Maps, Contract!Next
    <2>6. CASE dir' = dir /\ dir
      <3>1. OnDisk' = OnDisk /\ backend = "vss"
        BY <1>1, <1>4, <2>6 DEF OnDisk, RInv, Removes, IInv, HandleTypes, DiskTypes
      <3>2. Contract!Start
        BY <1>0, <2>1, <2>3, <3>1 DEF Contract!Start
      <3> QED BY <2>2, <3>2 DEF Owes, Maps, Contract!Next
    <2>7. dir \in BOOLEAN
      BY DEF RInv, IInv, HandleTypes, DiskTypes
    <2> QED BY <2>4, <2>5, <2>6, <2>7
  <1>5. CASE op.kind = "delete"
    <2>1. op'.kind = "delete" \/ op' = Idle
      BY <1>5 DEF Finishes, Onto
    <2>2. row' = row /\ phase' = phase
      BY <1>5 DEF Finishes, StaysIn, RInv, IInv, HandleTypes, LifeTypes
    <2>3. LifeStage = "spent" /\ LifeStage' = "spent"
      BY <1>0, <1>5, <2>1 DEF LifeStage, Idle
    <2>4. op'.kind = "delete" => op'.quiet = op.quiet
      BY <1>5 DEF Finishes, Onto, Idle
    <2>5. op.quiet => backend = "vss"
      BY <1>5 DEF RInv, Removes
    <2>6. Lived' /\ Creating' /\ Removes'
      BY <1>0, <1>5, <2>1, <2>2, <2>4, <2>5 DEF RInv, Lived, Creating, Removes, Idle
    <2>7. CASE dir /\ ~dir'
      <3>1. OnDisk = "parts" /\ OnDisk' = "absent"
        BY <2>7 DEF OnDisk, Complete
      <3>2. Contract!EndDelete
        BY <1>0, <2>2, <2>3, <3>1 DEF Contract!EndDelete
      <3> QED BY <2>6, <3>2 DEF Owes, Maps, Contract!Next
    <2>8. CASE ~(dir /\ ~dir')
      <3>1. OnDisk' = OnDisk
        BY <1>1, <2>8 DEF OnDisk, RInv, IInv, HandleTypes, DiskTypes
      <3> QED BY <1>0, <2>2, <2>3, <2>6, <3>1 DEF Owes, Maps, Contract!vars
    <2> QED BY <2>7, <2>8
  <1> QED BY <1>3, <1>4, <1>5 DEF Removing

\* A removal that ends with an error maps to nothing.
LEMMA KeepingMaps ==
    ASSUME RInv, Removing, UNCHANGED handleVars, Keeping
    PROVE  Owes
  <1>0. born /\ born' /\ backend' = backend
    BY DEF RInv, Lived, Removing, Keeping
  <1>1. Lived' /\ Creating' /\ Removes'
    BY <1>0 DEF Lived, Creating, Removes, Keeping, Idle
  <1>2. OnDisk' = OnDisk
    BY <1>0 DEF OnDisk, Complete, Exists, handleVars
  <1>3. LifeStage = "spent" /\ LifeStage' = "spent"
    BY <1>0 DEF LifeStage, Keeping, Idle
  <1>4. (phase' = "up") = (phase = "up") /\ row' = row
    BY DEF Keeping, RInv, Removes
  <1> QED BY <1>0, <1>1, <1>2, <1>3, <1>4 DEF Owes, Maps, Contract!vars

-----------------------------------------------------------------------------
\* A create takes a source.
LEMMA TookMaps ==
    ASSUME RInv, op.kind = "create", op.pc \in {"take", "clone", "mount"}, op.i \in Piece,
           Go(Took), piece' = [piece EXCEPT ![op.i] = "whole"], UNCHANGED <<dir, manifest, shadows>>
    PROVE  Owes
  <1>1. Moved(op, Took, "take", op.i + 1)
    BY SetTook DEF RInv, IInv, HandleTypes
  <1>2. op'.kind = "create" /\ op'.pc = "take" /\ op'.i = op.i + 1 /\ StaysIn
    BY <1>1 DEF Go, Moved, StaysIn, lifeVars
  <1>3. \A j \in Piece : j < op'.i => piece'[j] = "whole"
    <2> SUFFICES ASSUME NEW j \in Piece, j < op.i + 1 PROVE piece'[j] = "whole"
      BY <1>2
    <2>1. piece \in [Piece -> Part]
      BY DEF RInv, IInv, HandleTypes, DiskTypes
    <2>2. CASE j = op.i
      BY <2>1, <2>2
    <2>3. CASE j # op.i
      <3>1. j < op.i
        BY <2>3, EngineAssumption DEF Piece
      <3> QED BY <2>1, <2>3, <3>1 DEF RInv, Creating
    <2> QED BY <2>2, <2>3
  <1>4. manifest' # "whole"
    BY DEF RInv, Creating
  <1> QED BY <1>2, <1>3, <1>4, InCreate

\* A create that fails a step maps to nothing.
LEMMA GivesUp ==
    ASSUME RInv, op.kind = "create", op.pc # "put", NEW S \in SUBSET Piece,
           UNCHANGED <<dir, piece, manifest>>,
           \/ CommandFails(Cleanup(S)) \/ Trips(Cleanup(S))
           \/ Trips([Cleanup(S) EXCEPT !.bad = 2])
    PROVE  Owes
  <1>1. PICK r \in Call : /\ r = Cleanup(S) /\ r.kind = "create"
                          /\ r.pc \in {"remove", "subvols", "unmount"}
    BY SetCleanup DEF RInv, IInv, HandleTypes, LifeTypes, Moved
  <1>2. PICK t \in Call : t = [r EXCEPT !.bad = 2] /\ t.kind = r.kind /\ t.pc = r.pc
    <2>1. [r EXCEPT !.bad = 2] \in Call /\ [r EXCEPT !.bad = 2].kind = r.kind /\ [r EXCEPT !.bad = 2].pc = r.pc
      BY DEF Call
    <2> QED BY <2>1
  <1>3. CommandFails(r) \/ Trips(r) \/ Trips(t)
    BY <1>1, <1>2
  <1>4. op'.kind = "create" /\ op'.pc = r.pc /\ StaysIn
    <2>1. op' = [r EXCEPT !.bad = More(@)] \/ op' = [t EXCEPT !.bad = More(@)]
      BY <1>3 DEF CommandFails, Trips
    <2>2. StaysIn
      BY <1>3 DEF CommandFails, Trips, StaysIn, lifeVars
    <2> QED BY <1>1, <1>2, <2>1, <2>2 DEF Call
  <1>5. manifest' # "whole"
    BY DEF RInv, Creating
  <1> QED BY <1>1, <1>4, <1>5, InCreate

\* The steps of a create.
LEMMA CreateMaps ==
    ASSUME RInv, CreateNext
    PROVE  Owes
  <1>0. /\ op \in Call /\ backend \in AllBackends /\ row \in BOOLEAN
        /\ piece \in [Piece -> Part] /\ op.m \in SUBSET Piece
    BY DEF RInv, IInv, HandleTypes, LifeTypes, DiskTypes, Call
  <1>1. CASE StartCreate
    <2>1. op'.kind = "create" /\ op'.pc = "take" /\ op'.i = 1
      BY <1>1 DEF StartCreate, Idle
    <2>2. manifest' = "none" /\ dir' /\ ~row' /\ born'
      BY <1>1 DEF StartCreate, RInv, Lived
    <2>3. \A j \in Piece : ~(j < 1)
      BY EngineAssumption DEF Piece
    <2>4. Lived' /\ Creating' /\ Removes'
      BY <1>1, <2>1, <2>2, <2>3 DEF StartCreate, Lived, Creating, Removes
    <2>5. LifeStage = "new" /\ LifeStage' = "creating" /\ OnDisk' = "parts"
      <3>1. LifeStage = "new"
        BY <1>1 DEF StartCreate, LifeStage, RInv, Lived
      <3>2. LifeStage' = "creating"
        BY <2>1, <2>2 DEF LifeStage
      <3>3. OnDisk' = "parts"
        BY <2>2 DEF OnDisk, Complete
      <3> QED BY <3>1, <3>2, <3>3
    <2>6. Contract!BeginCreate
      BY <1>1, <2>5 DEF StartCreate, Contract!BeginCreate
    <2> QED BY <2>4, <2>6 DEF Owes, Maps, Contract!Next
  <1>2. CASE TakeCopy
    <2>1. Onto("clone") /\ StaysIn /\ op.kind = "create" /\ op.pc = "take"
      BY <1>0, <1>2, OntoPoint DEF TakeCopy, In, Pcs
    <2>2. \A j \in Piece : j < op.i => piece'[j] = "whole"
      BY <1>0, <1>2, <2>1, EngineAssumption DEF TakeCopy, RInv, Creating, Piece
    <2>3. manifest' # "whole" /\ dir' = dir
      BY <1>2, <2>1 DEF TakeCopy, RInv, Creating
    <2> QED BY <2>1, <2>2, <2>3, InCreate DEF Onto
  <1>3. CASE FinishClone
    <2>1. op.kind = "create" /\ op.pc = "clone" /\ op.i \in Piece
      BY <1>3 DEF FinishClone, In, RInv, IInv, Hand
    <2> QED BY <1>3, <2>1, TookMaps DEF FinishClone
  <1>4. CASE FailClone
    BY <1>0, <1>4, GivesUp DEF FailClone, In, handleVars
  <1>5. CASE TakeSubvolume
    <2>1. op.kind = "create" /\ op.pc = "take" /\ op.i \in Piece
      BY <1>5 DEF TakeSubvolume, In
    <2> QED BY <1>5, <2>1, TookMaps DEF TakeSubvolume
  <1>6. CASE TakeShadow
    <2>1. Onto("mount") /\ StaysIn /\ op.kind = "create" /\ op.pc = "take"
      BY <1>0, <1>6, OntoPoint DEF TakeShadow, In, Pcs
    <2>2. \A j \in Piece : j < op.i => piece'[j] = "whole"
      BY <1>6, <2>1 DEF TakeShadow, RInv, Creating
    <2>3. manifest' # "whole" /\ dir' = dir
      BY <1>6, <2>1 DEF TakeShadow, RInv, Creating
    <2> QED BY <2>1, <2>2, <2>3, InCreate DEF Onto
  <1>7. CASE FailTake
    BY <1>0, <1>7, GivesUp DEF FailTake, In, handleVars
  <1>8. CASE LoseShadow
    BY <1>0, <1>8, GivesUp DEF LoseShadow, In
  <1>9. CASE Mount
    <2>1. op.kind = "create" /\ op.pc = "mount" /\ op.i \in Piece
      BY <1>9 DEF Mount, In, RInv, IInv, Hand
    <2> QED BY <1>9, <2>1, TookMaps DEF Mount
  <1>10. CASE FailMount
    <2>1. op.kind = "create" /\ op.pc = "mount" /\ op.i \in Piece
      BY <1>10 DEF FailMount, In, RInv, IInv, Hand
    <2>2. op.m \union {op.i} \in SUBSET Piece
      BY <1>0, <2>1
    <2> QED BY <1>10, <2>1, <2>2, GivesUp DEF FailMount, handleVars
  <1>11. CASE OpenManifest
    <2>1. Onto("write") /\ StaysIn /\ op.kind = "create" /\ op.pc = "take" /\ op.i = N + 1
      BY <1>0, <1>11, OntoPoint DEF OpenManifest, In, Pcs
    <2>2. \A j \in Piece : j < op.i => piece'[j] = "whole"
      BY <1>11, <2>1 DEF OpenManifest, RInv, Creating
    <2>3. manifest' # "whole" /\ dir' = dir
      BY <1>11 DEF OpenManifest
    <2> QED BY <2>1, <2>2, <2>3, InCreate DEF Onto
  <1>12. CASE WriteManifest
    <2>1. Onto("put") /\ StaysIn /\ op.kind = "create" /\ op.pc = "write" /\ op.i = N + 1
      BY <1>0, <1>12, OntoPoint DEF WriteManifest, In, Pcs, RInv, Creating
    <2>2. \A j \in Piece : piece[j] = "whole"
      <3>1. \A j \in Piece : j < N + 1
        BY EngineAssumption DEF Piece
      <3> QED BY <2>1, <3>1 DEF RInv, Creating
    <2>3. born /\ dir /\ ~row /\ manifest # "whole"
      BY <2>1 DEF RInv, Lived, Creating
    <2>4. Lived' /\ Creating' /\ Removes'
      BY <1>12, <2>1, <2>3 DEF WriteManifest, Onto, StaysIn, RInv, Lived, Creating, Removes
    <2>5. LifeStage = "creating" /\ LifeStage' = "created"
      BY <2>1, <2>3 DEF LifeStage, Onto, StaysIn
    <2>6. OnDisk = "parts" /\ OnDisk' \in {"whole"} \union (IF backend = "vss" THEN {"parts"} ELSE {})
      BY <1>12, <2>1, <2>2, <2>3 DEF WriteManifest, OnDisk, Complete, StaysIn
    <2>7. Contract!EndCreate
      BY <2>1, <2>5, <2>6 DEF Contract!EndCreate, StaysIn
    <2> QED BY <2>4, <2>7 DEF Owes, Maps, Contract!Next
  <1>13. CASE FailManifest
    BY <1>0, <1>13, GivesUp DEF FailManifest, In, handleVars
  <1>14. CASE PutRow
    <2>1. op.kind = "create" /\ op.pc = "put" /\ op' = Idle /\ row' /\ UNCHANGED <<backend, born, phase, handleVars>>
      BY <1>14 DEF PutRow, In, Answer
    <2>2. born
      BY <2>1 DEF RInv, Lived
    <2>3. Lived' /\ Creating' /\ Removes'
      BY <2>1, <2>2 DEF Lived, Creating, Removes, Idle
    <2>4. LifeStage = "created" /\ LifeStage' = "spent"
      BY <2>1, <2>2 DEF LifeStage, Idle
    <2>5. OnDisk' = OnDisk
      BY <2>1 DEF OnDisk, Complete, Exists, handleVars
    <2>6. Contract!PutRow
      BY <1>14, <2>1, <2>4, <2>5 DEF Contract!PutRow, PutRow, Answer
    <2> QED BY <2>3, <2>6 DEF Owes, Maps, Contract!Next
  <1>15. CASE FailPutRow
    <2>1. PICK r \in Call : /\ r = DeleteCall("delete") /\ r.kind = "delete" /\ r.pc # "drop"
                            /\ r.quiet => backend = "vss"
      BY <1>0, OntoDelete
    <2>2. PICK g \in BOOLEAN : g = op.gone
      BY <1>0 DEF Call
    <2>3. PICK t \in Call : t = [r EXCEPT !.gone = g] /\ t.kind = "delete" /\ t.pc = r.pc /\ t.quiet = r.quiet
      <3>1. /\ [r EXCEPT !.gone = g] \in Call /\ [r EXCEPT !.gone = g].kind = r.kind
            /\ [r EXCEPT !.gone = g].pc = r.pc /\ [r EXCEPT !.gone = g].quiet = r.quiet
        BY DEF Call
      <3> QED BY <2>1, <3>1
    <2>4. CommandFails(t)
      BY <1>15, <2>1, <2>2, <2>3 DEF FailPutRow
    <2>5. op'.kind = "delete" /\ op'.pc # "drop" /\ (op'.quiet => backend = "vss") /\ StaysIn
      <3>1. op' = [t EXCEPT !.bad = More(@)]
        BY <2>4 DEF CommandFails, Trips
      <3>2. op'.kind = t.kind /\ op'.pc = t.pc /\ op'.quiet = t.quiet
        BY <3>1 DEF Call
      <3> QED BY <2>1, <2>3, <2>4, <3>2 DEF CommandFails, Trips, StaysIn, lifeVars
    <2>6. op.kind = "create" /\ op.pc = "put" /\ born /\ UNCHANGED handleVars /\ phase # "down"
      BY <1>15 DEF FailPutRow, In, RInv, Lived
    <2>7. Lived' /\ Creating' /\ Removes'
      BY <2>5, <2>6 DEF Lived, Creating, Removes, StaysIn
    <2>8. LifeStage = "created" /\ LifeStage' = "spent" /\ OnDisk' = OnDisk
      BY <2>5, <2>6 DEF LifeStage, StaysIn, OnDisk, Complete, Exists, handleVars
    <2>9. Contract!FailPut
      BY <2>5, <2>8 DEF Contract!FailPut, StaysIn
    <2> QED BY <2>7, <2>9 DEF Owes, Maps, Contract!Next
  <1> QED BY <1>1, <1>2, <1>3, <1>4, <1>5, <1>6, <1>7, <1>8, <1>9, <1>10, <1>11, <1>12, <1>13,
             <1>14, <1>15 DEF CreateNext

\* The steps of a removal.
LEMMA DeleteMaps ==
    ASSUME RInv, DeleteNext
    PROVE  Owes
  <1>0. /\ op \in Call /\ backend \in AllBackends /\ row \in BOOLEAN
        /\ piece \in [Piece -> Part] /\ op.m \in SUBSET Piece
    BY DEF RInv, IInv, HandleTypes, LifeTypes, DiskTypes, Call
  <1>1. CASE StartDelete
    <2>1. /\ op'.kind = "delete" /\ op'.pc # "drop" /\ (op'.quiet => backend = "vss")
          /\ StaysIn /\ UNCHANGED handleVars
      BY <1>0, <1>1, OntoDelete DEF StartDelete, Begin, StaysIn, lifeVars
    <2>2. born /\ phase = "up" /\ op.kind = "none"
      BY <1>1 DEF StartDelete, RInv, Lived, Idle
    <2>3. Lived' /\ Creating' /\ Removes'
      BY <2>1, <2>2 DEF Lived, Creating, Removes, StaysIn
    <2>4. LifeStage' = LifeStage /\ Complete' = Complete
      BY <2>1, <2>2 DEF LifeStage, StaysIn, Complete, Exists, handleVars
    <2>5. Maps
      BY <2>1, <2>4, Loses DEF StaysIn, handleVars
    <2> QED BY <2>3, <2>5 DEF Owes
  <1>2. CASE DeleteSubvolume
    <2>1. PICK S : S = op.todo \ {Lowest(op.todo)}
      OBVIOUS
    <2>2. Go([op EXCEPT !.todo = S])
      BY <1>2, <2>1 DEF DeleteSubvolume
    <2>3. Onto(op.pc) /\ StaysIn
      BY <1>0, <2>1, <2>2, OntoRest
    <2>4. Complete' => Complete
      BY <1>0, <1>2, <2>3 DEF DeleteSubvolume, Complete, Exists, StaysIn, Part
    <2> QED BY <1>2, <2>3, <2>4, InRemoval DEF DeleteSubvolume
  <1>3. CASE SkipSubvolume
    <2>1. PICK S : S = op.todo \ {Lowest(op.todo)}
      OBVIOUS
    <2>2. CommandFails([op EXCEPT !.todo = S])
      BY <1>3, <2>1 DEF SkipSubvolume
    <2>3. Onto(op.pc) /\ StaysIn
      BY <1>0, <2>1, <2>2, OntoRest
    <2>4. Complete' => Complete
      BY <1>3, <2>3 DEF SkipSubvolume, Complete, Exists, StaysIn, handleVars
    <2> QED BY <1>3, <2>3, <2>4, InRemoval DEF SkipSubvolume, handleVars
  <1>4. CASE StopAtMissing
    <2>1. (Finishes /\ (op.kind = "create" \/ op.quiet)) \/ Keeping
      BY <1>0, <1>4, RemovalMaps DEF StopAtMissing
    <2> QED BY <1>4, <2>1, FinishMaps, KeepingMaps DEF StopAtMissing, handleVars
  <1>5. CASE StopAtSubvolume
    <2>1. Onto("stop") /\ StaysIn
      BY <1>0, <1>5, OntoPoint DEF StopAtSubvolume, Pcs
    <2>2. Complete' => Complete
      BY <1>5, <2>1 DEF StopAtSubvolume, Complete, Exists, StaysIn, handleVars
    <2> QED BY <1>5, <2>1, <2>2, InRemoval DEF StopAtSubvolume, handleVars
  <1>6. CASE Unmount
    <2>1. PICK S : S = op.todo \ {Lowest(op.todo)}
      OBVIOUS
    <2>2. Go([op EXCEPT !.todo = S]) \/ CommandFails([op EXCEPT !.todo = S])
      BY <1>6, <2>1 DEF Unmount
    <2>3. Onto(op.pc) /\ StaysIn
      BY <1>0, <2>1, <2>2, OntoRest
    <2>4. Complete' => Complete
      <3>1. \/ piece' = [piece EXCEPT ![Lowest(op.todo)] = "none"]
            \/ piece' = piece
        BY <1>6 DEF Unmount
      <3>2. \A j \in Piece : piece'[j] = "whole" => piece[j] = "whole"
        BY <1>0, <3>1
      <3>3. UNCHANGED <<manifest, shadows, backend>>
        BY <1>6, <2>3 DEF Unmount, StaysIn
      <3> QED BY <3>2, <3>3 DEF Complete, Exists
    <2> QED BY <1>6, <2>3, <2>4, InRemoval DEF Unmount
  <1>7. CASE Unmounted
    <2>1. PICK S \in SUBSET Piece : S = op.m
      BY <1>0
    <2>2. op' = [op EXCEPT !.pc = "unshadow", !.todo = S] /\ StaysIn
      BY <1>7, <2>1 DEF Unmounted, Go, StaysIn, lifeVars
    <2>3. Onto("unshadow")
      BY <1>0, <2>2 DEF Onto, Call
    <2>4. Complete' => Complete
      BY <1>7, <2>2 DEF Unmounted, Complete, Exists, StaysIn, handleVars
    <2> QED BY <1>7, <2>2, <2>3, <2>4, InRemoval DEF Unmounted, handleVars
  <1>8. CASE DeleteShadow
    <2>1. PICK S : S = op.todo \ {Lowest(op.todo)}
      OBVIOUS
    <2>2. Go([op EXCEPT !.todo = S]) \/ CommandFails([op EXCEPT !.todo = S])
      BY <1>8, <2>1 DEF DeleteShadow
    <2>3. Onto(op.pc) /\ StaysIn
      BY <1>0, <2>1, <2>2, OntoRest
    <2>4. Complete' => Complete
      <3>1. shadows' \subseteq shadows /\ UNCHANGED <<manifest, piece, backend>>
        BY <1>8, <2>3 DEF DeleteShadow, StaysIn
      <3> QED BY <3>1 DEF Complete, Exists
    <2> QED BY <1>8, <2>3, <2>4, InRemoval DEF DeleteShadow
  <1>9. CASE PiecesDone
    <2>1. Onto("remove") /\ StaysIn
      BY <1>0, <1>9, OntoPoint DEF PiecesDone, Pcs
    <2>2. Complete' => Complete
      BY <1>9, <2>1 DEF PiecesDone, Complete, Exists, StaysIn, handleVars
    <2> QED BY <1>9, <2>1, <2>2, InRemoval DEF PiecesDone, handleVars
  <1>10. CASE RemovePart
    <2>1. Onto("remove") /\ StaysIn
      BY <1>0, <1>10, OntoPoint DEF RemovePart, Pcs
    <2>2. \/ manifest' = "none"
          \/ /\ manifest' = manifest
             /\ \E j \in Piece : piece' = [piece EXCEPT ![j] =
                                    IF @ = "whole" /\ backend = "copy" THEN "part" ELSE "none"]
      BY <1>10 DEF RemovePart
    <2>3. Complete' => Complete
      BY <1>0, <1>10, <2>1, <2>2 DEF RemovePart, Complete, Exists, StaysIn
    <2> QED BY <1>10, <2>1, <2>2, <2>3, InRemoval DEF RemovePart
  <1>11. CASE RemoveDir
    <2>1. Finishes
      BY <1>0, <1>11, RemovalMaps DEF RemoveDir
    <2> QED BY <1>11, <2>1, FinishMaps DEF RemoveDir
  <1>12. CASE ReadOnlyLeft
    <2>1. (Finishes /\ (op.kind = "create" \/ op.quiet)) \/ Keeping
      BY <1>0, <1>12, RemovalMaps DEF ReadOnlyLeft
    <2> QED BY <1>12, <2>1, FinishMaps, KeepingMaps DEF ReadOnlyLeft, handleVars
  <1>13. CASE FailRemove
    <2>1. Onto("stop") /\ StaysIn
      BY <1>0, <1>13, OntoPoint DEF FailRemove, Pcs
    <2>2. Complete' => Complete
      BY <1>13, <2>1 DEF FailRemove, Complete, Exists, StaysIn, handleVars
    <2> QED BY <1>13, <2>1, <2>2, InRemoval DEF FailRemove, handleVars
  <1>14. CASE ReturnError
    <2>1. (Finishes /\ (op.kind = "create" \/ op.quiet)) \/ Keeping
      BY <1>0, <1>14, RemovalMaps DEF ReturnError
    <2> QED BY <1>14, <2>1, FinishMaps, KeepingMaps DEF ReturnError, handleVars
  <1>15. CASE DropRow
    <2>1. op.kind = "delete" /\ op' = Idle /\ row' = FALSE /\ UNCHANGED <<backend, born, phase, handleVars>>
      BY <1>15 DEF DropRow, In, Answer
    <2>2. born /\ (~dir \/ backend = "vss")
      BY <1>15, <2>1 DEF RInv, Lived, Removes, DropRow, In
    <2>3. Lived' /\ Creating' /\ Removes'
      BY <2>1, <2>2 DEF Lived, Creating, Removes, Idle
    <2>4. LifeStage = "spent" /\ LifeStage' = "spent" /\ OnDisk' = OnDisk
      BY <2>1, <2>2 DEF LifeStage, Idle, OnDisk, Complete, Exists, handleVars
    <2>5. CASE row
      <3>1. Contract!DropRow
        BY <2>1, <2>2, <2>4, <2>5 DEF Contract!DropRow, OnDisk
      <3> QED BY <2>3, <3>1 DEF Owes, Maps, Contract!Next
    <2>6. CASE ~row
      BY <1>0, <2>1, <2>3, <2>4, <2>6 DEF Owes, Maps, Contract!vars
    <2> QED BY <2>5, <2>6
  <1>16. CASE FailDropRow
    <2>1. Onto("kept") /\ StaysIn /\ Removing /\ op.pc # "put"
      BY <1>0, <1>16, OntoPoint DEF FailDropRow, In, Pcs, Removing
    <2>2. Complete' => Complete
      BY <1>16, <2>1 DEF FailDropRow, Complete, Exists, StaysIn, handleVars
    <2> QED BY <1>16, <2>1, <2>2, InRemoval DEF FailDropRow, handleVars
  <1>17. CASE KeepRow
    <2>1. Removing /\ UNCHANGED handleVars /\ Keeping
      BY <1>17 DEF KeepRow, In, Removing, Answer, Keeping
    <2> QED BY <2>1, KeepingMaps
  <1> QED BY <1>1, <1>2, <1>3, <1>4, <1>5, <1>6, <1>7, <1>8, <1>9, <1>10, <1>11, <1>12, <1>13,
             <1>14, <1>15, <1>16, <1>17 DEF DeleteNext

\* The client, the provider, the crash and the start.
LEMMA LifeMaps ==
    ASSUME RInv, LifeNext
    PROVE  Owes
  <1>0. op \in Call /\ row \in BOOLEAN /\ dir \in BOOLEAN /\ phase \in {"down", "boot", "up"}
    BY DEF RInv, IInv, HandleTypes, LifeTypes, DiskTypes
  <1>1. CASE HangUp
    <2>1. Onto(op.pc) /\ StaysIn /\ UNCHANGED handleVars
      BY <1>0, <1>1 DEF HangUp, Go, Onto, StaysIn, lifeVars, Call
    <2>2. Lived' /\ Creating' /\ Removes'
      BY <2>1 DEF RInv, Lived, Creating, Removes, Onto, StaysIn, handleVars
    <2>3. LifeStage' = LifeStage /\ Complete' = Complete
      BY <2>1, StageFollows DEF Onto, StaysIn, Complete, Exists, handleVars
    <2>4. Maps
      BY <2>1, <2>3, Loses DEF StaysIn, handleVars
    <2> QED BY <2>2, <2>4 DEF Owes
  <1>2. CASE Evict
    <2>1. /\ backend = "vss" /\ shadows' \subseteq shadows
          /\ UNCHANGED <<backend, dir, piece, manifest, lifeVars, op>>
      BY <1>2 DEF Evict
    <2>2. Lived' /\ Creating' /\ Removes'
      BY <2>1 DEF RInv, Lived, Creating, Removes, lifeVars
    <2>3. LifeStage' = LifeStage /\ (Complete' => Complete)
      BY <2>1 DEF LifeStage, Complete, Exists, lifeVars
    <2>4. Maps
      BY <2>1, <2>3, Loses DEF lifeVars
    <2> QED BY <2>2, <2>4 DEF Owes
  <1>3. CASE Crash \/ Restart
    <2>1. /\ phase' = "down" /\ op'.kind = "none"
          /\ UNCHANGED <<backend, handleVars, row, born>>
      BY <1>3, Idles DEF Crash, Restart
    <2>2. Lived' /\ Creating' /\ Removes'
      BY <2>1 DEF RInv, Lived, Creating, Removes, handleVars
    <2>3. OnDisk' = OnDisk
      BY <2>1 DEF OnDisk, Complete, Exists, handleVars
    <2>4. LifeStage' = IF LifeStage = "new" THEN "new" ELSE "spent"
      <3>1. CASE born
        BY <2>1, <3>1 DEF LifeStage
      <3>2. CASE ~born
        BY <2>1, <3>2 DEF LifeStage, RInv, Lived
      <3> QED BY <3>1, <3>2
    <2>5. Contract!Stop
      BY <2>1, <2>3, <2>4 DEF Contract!Stop
    <2> QED BY <2>2, <2>5 DEF Owes, Maps, Contract!Next
  <1>4. CASE ReconcileRow
    <2>1. /\ phase = "down" /\ phase' = "up" /\ row
          /\ \/ row' = TRUE /\ dir
             \/ row' = FALSE /\ (~dir \/ (backend = "vss" /\ ~Exists))
          /\ UNCHANGED <<backend, handleVars, born, op>>
      BY <1>0, <1>4 DEF ReconcileRow
    <2>2. Lived' /\ Creating' /\ Removes'
      BY <2>1 DEF RInv, Lived, Creating, Removes, handleVars
    <2>3. OnDisk' = OnDisk /\ LifeStage' = LifeStage
      BY <2>1 DEF OnDisk, Complete, Exists, handleVars, LifeStage
    <2>4. Contract!Start
      BY <2>1, <2>3 DEF Contract!Start, OnDisk, Complete
    <2> QED BY <2>2, <2>4 DEF Owes, Maps, Contract!Next
  <1>5. CASE ReconcileOrphan
    <2>1. /\ op'.kind = "orphan" /\ (op'.quiet => backend = "vss")
          /\ phase = "down" /\ phase' = "boot" /\ ~row /\ dir
          /\ UNCHANGED <<backend, handleVars, row, born>>
      BY <1>5, OntoDelete DEF ReconcileOrphan, RInv, IInv, HandleTypes, LifeTypes
    <2>2. born /\ op.kind = "none"
      BY <2>1 DEF RInv, Lived
    <2>3. Lived' /\ Creating' /\ Removes'
      BY <2>1, <2>2 DEF Lived, Creating, Removes, handleVars
    <2>4. OnDisk' = OnDisk /\ LifeStage' = LifeStage
      BY <2>1, <2>2 DEF OnDisk, Complete, Exists, handleVars, LifeStage
    <2> QED BY <2>1, <2>3, <2>4 DEF Owes, Maps, Contract!vars
  <1>6. CASE ReconcileClean
    <2>1. /\ phase = "down" /\ phase' = "up" /\ ~row /\ ~dir
          /\ UNCHANGED <<backend, handleVars, row, born, op>>
      BY <1>6 DEF ReconcileClean
    <2>2. Lived' /\ Creating' /\ Removes'
      BY <2>1 DEF RInv, Lived, Creating, Removes, handleVars
    <2>3. OnDisk' = OnDisk /\ OnDisk = "absent" /\ LifeStage' = LifeStage
      BY <2>1 DEF OnDisk, handleVars, LifeStage
    <2>4. Contract!Start
      BY <1>0, <2>1, <2>3 DEF Contract!Start
    <2> QED BY <2>2, <2>4 DEF Owes, Maps, Contract!Next
  <1> QED BY <1>1, <1>2, <1>3, <1>4, <1>5, <1>6 DEF LifeNext

-----------------------------------------------------------------------------
\* A step of a restore goes to another point, or to the next path.
Steps(p) ==
    To(p) \/ Go([op EXCEPT !.pc = p]) \/ Trips([op EXCEPT !.pc = p]) \/ CommandFails([op EXCEPT !.pc = p])

Advances ==
    \/ NextPath
    \/ Trips([op EXCEPT !.pc = "path", !.i = @ + 1])
    \/ CommandFails([op EXCEPT !.pc = "path", !.i = @ + 1])

\* It stays a restore and leaves the life of the handle alone.
LEMMA StepsStay ==
    ASSUME IInv, op.kind = "restore", NEW p \in Pcs, Steps(p)
    PROVE  op'.kind = "restore" /\ StaysIn
  <1>1. op'.kind = "restore"
    BY Moves DEF IInv, Steps, Progress
  <1> QED BY <1>1 DEF Steps, To, Go, Trips, CommandFails, StaysIn, lifeVars

\* The same of a step to the next path.
LEMMA AdvancesStay ==
    ASSUME IInv, op.kind = "restore", op.pc \in AtWork, Advances
    PROVE  op'.kind = "restore" /\ StaysIn
  <1>1. op.i \in Piece
    BY DEF IInv, RestoreHand
  <1>2. op'.kind = "restore"
    BY <1>1, MovesOn DEF IInv, Advances, Progress
  <1> QED BY <1>2 DEF Advances, NextPath, Go, Trips, CommandFails, StaysIn, lifeVars

\* A restore leaves the handle alone.
LEMMA RestoreStays ==
    ASSUME IInv, RestoreNext
    PROVE  /\ op.kind = "restore" \/ (op.kind = "none" /\ row /\ phase = "up")
           /\ op'.kind \in {"none", "restore"}
           /\ StaysIn /\ UNCHANGED handleVars
  <1>1. CASE StartRestore
    <2>1. op.kind = "none" /\ op'.kind = "restore"
      BY <1>1 DEF StartRestore, Begin, Idle
    <2> QED BY <1>1, <2>1 DEF StartRestore, Begin, StaysIn, lifeVars
  <1>2. CASE Restored \/ Failed
    <2>1. op.kind = "restore" /\ op'.kind = "none" /\ row' = row
      BY <1>2, Idles DEF Restored, Failed, Restoring, Answer
    <2> QED BY <1>2, <2>1 DEF Restored, Failed, Answer, Ends, StaysIn
  <1>3. CASE Check
    <2>1. op.kind = "restore" /\ UNCHANGED handleVars /\ (Steps("stop") \/ Steps("path"))
      BY <1>3 DEF Check, Restoring, Keeps, Steps, Fail, To
    <2> QED BY <2>1, StepsStay DEF Pcs
  <1>4. CASE Turn
    <2>1. op.kind = "restore" /\ UNCHANGED handleVars /\ (Steps("reset") \/ Steps("stop") \/ Steps("unstage"))
      BY <1>4 DEF Turn, Restoring, Keeps, Steps, Fail, To
    <2> QED BY <2>1, StepsStay DEF Pcs
  <1>5. CASE ClearStagedTree
    <2>1. op.kind = "restore" /\ UNCHANGED handleVars /\ (Steps("unprev") \/ Steps("stop"))
      BY <1>5 DEF ClearStagedTree, Restoring, Keeps, Steps, Fail, To
    <2> QED BY <2>1, StepsStay DEF Pcs
  <1>6. CASE ClearPrevious
    <2>1. op.kind = "restore" /\ UNCHANGED handleVars /\ (Steps("clone") \/ Steps("stop"))
      BY <1>6 DEF ClearPrevious, Restoring, Keeps, Steps, Fail, To
    <2> QED BY <2>1, StepsStay DEF Pcs
  <1>7. CASE BeginClone
    <2>1. op.kind = "restore" /\ UNCHANGED handleVars /\ (Steps("cloning") \/ Steps("unclone"))
      BY <1>7 DEF BeginClone, Restoring, Keeps, Steps, Fail, To
    <2> QED BY <2>1, StepsStay DEF Pcs
  <1>8. CASE EndClone
    <2>1. op.kind = "restore" /\ UNCHANGED handleVars /\ (Steps("park"))
      BY <1>8 DEF EndClone, Restoring, Keeps, Steps, Fail, To
    <2> QED BY <2>1, StepsStay DEF Pcs
  <1>9. CASE FailRestoreClone
    <2>1. op.kind = "restore" /\ UNCHANGED handleVars /\ (Steps("unclone"))
      BY <1>9 DEF FailRestoreClone, Restoring, Keeps, Steps, Fail, To
    <2> QED BY <2>1, StepsStay DEF Pcs
  <1>10. CASE DropStaged
    <2>1. op.kind = "restore" /\ UNCHANGED handleVars /\ (Steps("stop"))
      BY <1>10 DEF DropStaged, Restoring, Keeps, Steps, Fail, To
    <2> QED BY <2>1, StepsStay DEF Pcs
  <1>11. CASE Park
    <2>1. op.kind = "restore" /\ UNCHANGED handleVars /\ (Steps("land"))
      BY <1>11 DEF Park, Restoring, Keeps, Steps, Fail, To
    <2> QED BY <2>1, StepsStay DEF Pcs
  <1>12. CASE FailPark
    <2>1. op.kind = "restore" /\ UNCHANGED handleVars /\ (Steps("unclone"))
      BY <1>12 DEF FailPark, Restoring, Keeps, Steps, Fail, To
    <2> QED BY <2>1, StepsStay DEF Pcs
  <1>13. CASE Land
    <2>1. op.kind = "restore" /\ UNCHANGED handleVars /\ (Steps("tidy"))
      BY <1>13 DEF Land, Restoring, Keeps, Steps, Fail, To
    <2> QED BY <2>1, StepsStay DEF Pcs
  <1>14. CASE FailLand
    <2>1. op.kind = "restore" /\ UNCHANGED handleVars /\ (Steps("rollback"))
      BY <1>14 DEF FailLand, Restoring, Keeps, Steps, Fail, To
    <2> QED BY <2>1, StepsStay DEF Pcs
  <1>15. CASE Rollback
    <2>1. op.kind = "restore" /\ UNCHANGED handleVars /\ (Steps("unclone"))
      BY <1>15 DEF Rollback, Restoring, Keeps, Steps, Fail, To
    <2> QED BY <2>1, StepsStay DEF Pcs
  <1>16. CASE Tidy
    BY <1>16, AdvancesStay DEF Tidy, Restoring, Keeps, Advances, AtWork
  <1>17. CASE SnapStaged
    <2>1. op.kind = "restore" /\ UNCHANGED handleVars /\ (Steps("delete"))
      BY <1>17 DEF SnapStaged, Restoring, Keeps, Steps, Fail, To
    <2> QED BY <2>1, StepsStay DEF Pcs
  <1>18. CASE FailSnapStaged
    <2>1. op.kind = "restore" /\ UNCHANGED handleVars /\ (Steps("stop"))
      BY <1>18 DEF FailSnapStaged, Restoring, Keeps, Steps, Fail, To
    <2> QED BY <2>1, StepsStay DEF Pcs
  <1>19. CASE DeleteLive
    <2>1. op.kind = "restore" /\ UNCHANGED handleVars /\ (Steps("rename"))
      BY <1>19 DEF DeleteLive, Restoring, Keeps, Steps, Fail, To
    <2> QED BY <2>1, StepsStay DEF Pcs
  <1>20. CASE FailDeleteLive
    <2>1. op.kind = "restore" /\ UNCHANGED handleVars /\ (Steps("undo"))
      BY <1>20 DEF FailDeleteLive, Restoring, Keeps, Steps, Fail, To
    <2> QED BY <2>1, StepsStay DEF Pcs
  <1>21. CASE RenameStaged
    BY <1>21, AdvancesStay DEF RenameStaged, Restoring, Keeps, Advances, AtWork
  <1>22. CASE FailRenameStaged
    <2>1. op.kind = "restore" /\ UNCHANGED handleVars /\ (Steps("again"))
      BY <1>22 DEF FailRenameStaged, Restoring, Keeps, Steps, Fail, To
    <2> QED BY <2>1, StepsStay DEF Pcs
  <1>23. CASE SnapLive
    <2>1. op.kind = "restore" /\ UNCHANGED handleVars /\ (Steps("settle"))
      BY <1>23 DEF SnapLive, Restoring, Keeps, Steps, Fail, To
    <2> QED BY <2>1, StepsStay DEF Pcs
  <1>24. CASE FailSnapLive
    <2>1. op.kind = "restore" /\ UNCHANGED handleVars /\ (Steps("stop"))
      BY <1>24 DEF FailSnapLive, Restoring, Keeps, Steps, Fail, To
    <2> QED BY <2>1, StepsStay DEF Pcs
  <1>25. CASE ClearStaged
    <2>1. op.kind = "restore" /\ op.pc \in AtWork /\ UNCHANGED handleVars
      BY <1>25 DEF ClearStaged, Keeps, AtWork
    <2>2. Steps("snap") \/ Steps("stop") \/ Advances
      <3>1. Go(AfterClear) \/ CommandFails(AfterClear)
        BY <1>25 DEF ClearStaged
      <3>2. CASE op.pc = "reset"
        BY <3>1, <3>2 DEF AfterClear, Steps
      <3>3. CASE op.pc = "undo"
        BY <3>1, <3>3 DEF AfterClear, Steps
      <3>4. CASE op.pc = "settle"
        BY <3>1, <3>4 DEF AfterClear, Advances, NextPath
      <3> QED BY <1>25, <3>2, <3>3, <3>4 DEF ClearStaged
    <2> QED BY <2>1, <2>2, StepsStay, AdvancesStay DEF Pcs
  <1> QED BY <1>1, <1>2, <1>3, <1>4, <1>5, <1>6, <1>7, <1>8, <1>9, <1>10, <1>11, <1>12, <1>13, <1>14, <1>15, <1>16, <1>17, <1>18, <1>19, <1>20, <1>21, <1>22, <1>23, <1>24, <1>25 DEF RestoreNext, SwapNext, SubvolumeNext

\* So every step of it, and every edit of the agent, maps to nothing.
LEMMA RestoreMaps ==
    ASSUME RInv, RestoreNext \/ AgentEdits
    PROVE  Owes
  <1>1. CASE RestoreNext
    <2>1. /\ op.kind \in {"none", "restore"} /\ op'.kind \in {"none", "restore"}
          /\ StaysIn /\ UNCHANGED handleVars /\ born /\ phase # "down"
      BY <1>1, RestoreStays DEF RInv, Lived
    <2>2. Lived' /\ Creating' /\ Removes'
      BY <2>1 DEF Lived, Creating, Removes, StaysIn
    <2>3. LifeStage' = LifeStage /\ OnDisk' = OnDisk
      BY <2>1 DEF LifeStage, OnDisk, Complete, Exists, handleVars, StaysIn
    <2> QED BY <2>1, <2>2, <2>3 DEF Owes, Maps, Contract!vars, StaysIn
  <1>2. CASE AgentEdits
    <2>1. UNCHANGED engineVars
      BY <1>2 DEF AgentEdits
    <2>2. Lived' /\ Creating' /\ Removes'
      BY <2>1 DEF RInv, Lived, Creating, Removes, engineVars, handleVars, lifeVars
    <2>3. LifeStage' = LifeStage /\ OnDisk' = OnDisk
      BY <2>1 DEF LifeStage, OnDisk, Complete, Exists, engineVars, handleVars, lifeVars
    <2> QED BY <2>1, <2>2, <2>3 DEF Owes, Maps, Contract!vars, engineVars, lifeVars
  <1> QED BY <1>1, <1>2

\* The initial states map to initial states.
LEMMA InitMaps == Init => RInv /\ Contract!Init
  <1> SUFFICES ASSUME Init PROVE RInv /\ Contract!Init
    OBVIOUS
  <1>1. ~born /\ ~dir /\ row = FALSE /\ manifest = "none" /\ op.kind = "none" /\ phase = "up"
    BY Idles DEF Init, HandleInit
  <1>2. RInv
    BY <1>1, InitIInv DEF RInv, Lived, Creating, Removes
  <1>3. LifeStage = "new"
    BY <1>1 DEF LifeStage
  <1>4. OnDisk = "absent"
    BY <1>1 DEF OnDisk
  <1> QED BY <1>1, <1>2, <1>3, <1>4 DEF Contract!Init

\* Every step of a call, of the agent, of the provider, of a crash and of a
\* start keeps the invariant and maps to a step of the contract or to none.
THEOREM StepMaps == RInv /\ [Next]_vars => RInv' /\ [Contract!Next]_Contract!vars
  <1> SUFFICES ASSUME RInv, [Next]_vars
               PROVE  RInv' /\ [Contract!Next]_Contract!vars
    OBVIOUS
  <1>1. IInv'
    BY NextIInv DEF RInv
  <1>2. CASE Next
    <2>1. Owes
      BY <1>2, CreateMaps, DeleteMaps, LifeMaps, RestoreMaps DEF Next, HandleNext
    <2> QED BY <1>1, <2>1 DEF Owes, Maps, RInv
  <1>3. CASE UNCHANGED vars
    <2>1. UNCHANGED engineVars
      BY <1>3 DEF vars
    <2>2. Lived' /\ Creating' /\ Removes'
      BY <2>1 DEF RInv, Lived, Creating, Removes, engineVars, handleVars, lifeVars
    <2>3. LifeStage' = LifeStage /\ OnDisk' = OnDisk
      BY <2>1 DEF LifeStage, OnDisk, Complete, Exists, engineVars, handleVars, lifeVars
    <2> QED BY <1>1, <2>1, <2>2, <2>3 DEF RInv, Contract!vars, engineVars, lifeVars
  <1> QED BY <1>2, <1>3

\* The engine implements the contract, on any backends, with any number of
\* sources, failing steps, hang-ups, crashes, edits and evictions: what the
\* service takes a handle for is what Create, Delete, Restore and a start leave.
THEOREM EngineImplements == Spec => ImplementsContract
  BY InitMaps, StepMaps, PTL DEF Spec, ImplementsContract, Contract!Spec

-----------------------------------------------------------------------------
(***************************************************************************)
(* What the calls leave of a handle.  The promises are about how a call    *)
(* ended (last), so the invariant follows the call there: what a create    *)
(* took is in the manifest in memory (Noted), what a removal still owes is *)
(* on its list (ShadowsGo, SubvolumesGo) as long as it runs smoothly, and  *)
(* one that does not has counted the step that failed (Turned).            *)
(***************************************************************************)
Named == backend # "vss" => shadows = {}

Unborn == ~born => shadows = {} /\ \A j \in Piece : piece[j] = "none"

Answered == last.res # "none" => born /\ op.kind = "none"

Taking == {"take", "clone", "mount", "write", "put"}

Noted ==
    op.kind = "create" /\ op.pc \in Taking =>
        /\ op.bad = 0
        /\ shadows \subseteq op.m \union (IF op.pc = "mount" THEN {op.i} ELSE {})
        /\ backend = "btrfs" => \A j \in Piece : piece[j] # "none" => j \in op.m

\* The shadow copies a removal answers for: a create for all there are.
Owed == IF op.kind = "create" THEN shadows ELSE shadows \intersect op.m

\* No step of the removal failed, beside the one that made a create give up.
Smooth == op.bad <= IF op.kind = "create" THEN 1 ELSE 0

Turned ==
    /\ op.kind = "create" => op.quiet /\ op.bad > 0 /\ op.pc \notin {"drop", "kept"}
    /\ op.pc = "subvols" => backend = "btrfs"
    /\ op.pc \in {"unmount", "unshadow"} => backend = "vss"
    /\ op.pc \in {"stop", "kept"} => ~Smooth
    /\ op.pc = "drop" /\ (backend = "vss" => op.bad = 0) => ~dir

ShadowsGo ==
    /\ op.pc = "unmount" => Owed \subseteq op.m
    /\ op.pc = "unshadow" => Owed \subseteq op.todo
    /\ op.pc \in {"remove", "drop"} => Owed = {}

SubvolumesGo ==
    /\ op.pc = "subvols" =>
          \A j \in Piece : /\ piece[j] # "none" => j \in op.todo
                           /\ j \in op.todo /\ op.kind # "create" => piece[j] # "none"
    /\ op.pc = "remove" => \A j \in Piece : piece[j] = "none"

Clearing ==
    Removing /\ op.pc \notin Taking =>
        /\ Turned
        /\ Smooth => ShadowsGo
        /\ Smooth /\ backend = "btrfs" /\ (op.kind = "create" \/ op.fit) => SubvolumesGo

Promises == RefusedCreateCleans /\ RemovedMeansGone /\ DeleteWorks

HInv == RInv /\ Named /\ Unborn /\ Answered /\ Noted /\ Clearing /\ Promises

\* What a step owes beside the mapping.
Settles == Named' /\ Unborn' /\ Answered' /\ Noted' /\ Clearing' /\ Promises'

\* The call that goes on is r, but for what failed.
Like(r) ==
    /\ op'.kind = r.kind /\ op'.pc = r.pc /\ op'.i = r.i /\ op'.m = r.m
    /\ op'.todo = r.todo /\ op'.quiet = r.quiet /\ op'.fit = r.fit

\* A step of a call changes nothing but the call, and counts what failed.
LEMMA Goes ==
    ASSUME NEW r \in Call, Go(r) \/ CommandFails(r) \/ Trips(r)
    PROVE  /\ Like(r) /\ StaysIn /\ last' = last
           /\ Go(r) => op'.bad = r.bad
           /\ CommandFails(r) \/ Trips(r) => op'.bad = More(r.bad)
  <1>1. op' = r \/ op' = [r EXCEPT !.bad = More(@)]
    BY DEF Go, CommandFails, Trips
  <1>2. Like(r)
    BY <1>1 DEF Like, Call
  <1>3. CommandFails(r) \/ Trips(r) => op'.bad = More(r.bad)
    <2>1. CommandFails(r) \/ Trips(r) => op' = [r EXCEPT !.bad = More(@)]
      BY DEF CommandFails, Trips
    <2> QED BY <2>1 DEF Call
  <1>4. Go(r) => op'.bad = r.bad
    BY DEF Go
  <1>5. StaysIn /\ last' = last
    BY DEF Go, CommandFails, Trips, StaysIn, lifeVars
  <1> QED BY <1>2, <1>3, <1>4, <1>5

\* The count of failing steps is 0, 1, or more.
LEMMA Mores ==
    ASSUME NEW r \in Call
    PROVE  /\ r.bad \in 0..2 /\ More(r.bad) \in {1, 2}
           /\ r.bad > 0 => More(r.bad) = 2
           /\ r.bad = 0 => More(r.bad) = 1
  BY DEF Call, More

\* While a call goes on there is no answer to keep.
LEMMA StillInCall ==
    ASSUME HInv, op.kind # "none", op'.kind # "none", StaysIn, last' = last,
           Named', Noted', Clearing'
    PROVE  Settles
  <1>1. born /\ born' /\ last.res = "none" /\ last'.res = "none"
    BY DEF HInv, RInv, Lived, Answered, StaysIn
  <1>2. Unborn' /\ Answered'
    BY <1>1 DEF Unborn, Answered
  <1>3. Promises'
    BY <1>1 DEF Promises, RefusedCreateCleans, RemovedMeansGone, DeleteWorks
  <1> QED BY <1>2, <1>3 DEF Settles

\* Nothing is left to say of a call that is over.
LEMMA NoMoreCall ==
    ASSUME op'.kind \notin {"create", "delete", "orphan"}
    PROVE  Noted' /\ Clearing'
  BY DEF Noted, Clearing, Removing

-----------------------------------------------------------------------------
\* A create that takes a source has noted it.
LEMMA TookNotes ==
    ASSUME HInv, op.kind = "create", op.pc \in {"take", "clone", "mount"}, op.i \in Piece,
           Go(Took), piece' = [piece EXCEPT ![op.i] = "whole"], UNCHANGED shadows
    PROVE  Settles
  <1>1. PICK r \in Call : /\ r = Took /\ r.kind = "create" /\ r.pc = "take" /\ r.bad = op.bad
                          /\ r.m = op.m \union {op.i}
    <2>1. Took \in Call /\ Took.kind = "create" /\ Took.pc = "take"
      BY SetTook DEF HInv, RInv, IInv, HandleTypes, Moved
    <2>2. Took.bad = op.bad /\ Took.m = op.m \union {op.i}
      BY DEF Took, HInv, RInv, IInv, HandleTypes, Call
    <2> QED BY <2>1, <2>2
  <1>2. Like(r) /\ StaysIn /\ last' = last /\ op'.bad = op.bad
    BY <1>1, Goes
  <1>3. Named'
    BY <1>2 DEF HInv, Named, StaysIn
  <1>4. op.bad = 0 /\ shadows \subseteq op.m \union {op.i}
        /\ (backend = "btrfs" => \A j \in Piece : piece[j] # "none" => j \in op.m)
    BY DEF HInv, Noted, Taking
  <1>5. Noted'
    <2>1. op'.bad = 0 /\ op'.pc = "take" /\ op'.m = op.m \union {op.i} /\ backend' = backend
      BY <1>1, <1>2, <1>4 DEF Like, StaysIn
    <2>2. piece \in [Piece -> Part]
      BY DEF HInv, RInv, IInv, HandleTypes, DiskTypes
    <2>3. backend = "btrfs" => \A j \in Piece : piece'[j] # "none" => j \in op'.m
      BY <1>4, <2>1, <2>2
    <2> QED BY <1>4, <2>1, <2>3 DEF Noted
  <1>6. Clearing'
    BY <1>1, <1>2 DEF Clearing, Like, Taking
  <1>7. op'.kind # "none"
    BY <1>1, <1>2 DEF Like
  <1> QED BY <1>2, <1>3, <1>5, <1>6, <1>7, StillInCall

\* One that gives up has them all on its list.
LEMMA GivesUpClears ==
    ASSUME HInv, op.kind = "create", op.pc \in Taking, NEW S \in SUBSET Piece,
           op.m \subseteq S, UNCHANGED piece, backend = "vss" \/ UNCHANGED shadows,
           \/ /\ CommandFails(Cleanup(S)) \/ Trips(Cleanup(S))
              /\ UNCHANGED shadows /\ shadows \subseteq S
           \/ Trips([Cleanup(S) EXCEPT !.bad = 2])
    PROVE  Settles
  <1>0. op \in Call /\ backend \in AllBackends /\ op.bad = 0
    BY DEF HInv, RInv, IInv, HandleTypes, LifeTypes, Noted
  <1>1. PICK r \in Call : /\ r = Cleanup(S) /\ r.kind = "create" /\ r.bad = 0 /\ r.quiet = TRUE
                          /\ r.m = S /\ r.todo = S
                          /\ r.pc = CASE backend = "copy" -> "remove"
                                      [] backend = "btrfs" -> "subvols"
                                      [] backend = "vss" -> "unmount"
    <2>1. Cleanup(S) \in Call /\ Cleanup(S).kind = "create"
      BY <1>0, SetCleanup DEF Moved
    <2>2. /\ Cleanup(S).bad = 0 /\ Cleanup(S).quiet = TRUE
          /\ Cleanup(S).m = S /\ Cleanup(S).todo = S
      BY <1>0 DEF Cleanup, Call
    <2>3. Cleanup(S).pc = CASE backend = "copy" -> "remove"
                            [] backend = "btrfs" -> "subvols"
                            [] backend = "vss" -> "unmount"
      BY <1>0 DEF Cleanup, Call
    <2> QED BY <2>1, <2>2, <2>3
  <1>2. PICK t \in Call : /\ t = [r EXCEPT !.bad = 2] /\ t.kind = r.kind /\ t.pc = r.pc
                          /\ t.bad = 2 /\ t.quiet = r.quiet
    <2>1. /\ [r EXCEPT !.bad = 2] \in Call /\ [r EXCEPT !.bad = 2].kind = r.kind
          /\ [r EXCEPT !.bad = 2].pc = r.pc /\ [r EXCEPT !.bad = 2].bad = 2
          /\ [r EXCEPT !.bad = 2].quiet = r.quiet
      BY DEF Call
    <2> QED BY <2>1
  <1>3. r.pc \in {"remove", "subvols", "unmount"} /\ (r.pc = "subvols" <=> backend = "btrfs")
        /\ (r.pc = "unmount" <=> backend = "vss")
    BY <1>0, <1>1 DEF AllBackends
  <1>4. CASE /\ CommandFails(r) \/ Trips(r)
             /\ UNCHANGED shadows /\ shadows \subseteq S
    <2>1. Like(r) /\ StaysIn /\ last' = last /\ op'.bad = 1
      BY <1>1, <1>4, Goes, Mores
    <2>2. op'.kind = "create" /\ op'.pc = r.pc /\ op'.m = S /\ op'.todo = S /\ op'.quiet
      BY <1>1, <2>1 DEF Like
    <2>3. Named' /\ Noted'
      BY <1>3, <1>4, <2>1, <2>2 DEF HInv, Named, Noted, StaysIn, Taking
    <2>4. Turned'
      BY <1>3, <2>1, <2>2 DEF Turned, StaysIn
    <2>5. Owed' \subseteq S /\ (backend # "vss" => Owed' = {})
      BY <1>4, <2>2 DEF Owed, HInv, Named
    <2>6. ShadowsGo'
      BY <1>3, <2>2, <2>5 DEF ShadowsGo
    <2>7. backend = "btrfs" => SubvolumesGo'
      <3>1. backend = "btrfs" => \A j \in Piece : piece[j] # "none" => j \in S
        BY DEF HInv, Noted
      <3> QED BY <1>3, <2>2, <3>1 DEF SubvolumesGo
    <2>8. Clearing'
      BY <2>1, <2>4, <2>6, <2>7 DEF Clearing, StaysIn
    <2> QED BY <2>1, <2>2, <2>3, <2>8, StillInCall
  <1>5. CASE Trips(t)
    <2>1. Like(t) /\ StaysIn /\ last' = last /\ op'.bad = 2
      <3>1. Like(t) /\ StaysIn /\ last' = last /\ op'.bad = More(t.bad)
        BY <1>5, Goes
      <3>2. t.bad = 2
        BY <1>2
      <3>3. More(t.bad) = 2
        BY <3>2 DEF More
      <3> QED BY <3>1, <3>3
    <2>2. op'.kind = "create" /\ op'.pc = r.pc /\ op'.quiet
      BY <1>1, <1>2, <2>1 DEF Like
    <2>3. Named' /\ Noted'
      BY <1>3, <2>1, <2>2 DEF HInv, Named, Noted, StaysIn, Taking
    <2>4. Turned' /\ ~Smooth'
      BY <1>3, <2>1, <2>2 DEF Turned, StaysIn, Smooth
    <2>5. Clearing'
      BY <2>4 DEF Clearing
    <2> QED BY <2>1, <2>2, <2>3, <2>5, StillInCall
  <1> QED BY <1>1, <1>2, <1>4, <1>5

\* The steps of a create.
LEMMA CreateSettles ==
    ASSUME HInv, CreateNext
    PROVE  Settles
  <1>0. /\ op \in Call /\ backend \in AllBackends /\ op.m \in SUBSET Piece
        /\ piece \in [Piece -> Part]
    BY DEF HInv, RInv, IInv, HandleTypes, LifeTypes, DiskTypes, Call
  <1>1. CASE StartCreate
    <2>1. /\ op'.kind = "create" /\ op'.pc = "take" /\ op'.bad = 0
          /\ UNCHANGED <<backend, piece, shadows, last>> /\ born'
      BY <1>1 DEF StartCreate, Idle
    <2>2. shadows = {} /\ (\A j \in Piece : piece[j] = "none") /\ last.res = "none"
      BY <1>1 DEF StartCreate, HInv, Unborn, Answered
    <2>3. Named' /\ Unborn' /\ Answered'
      BY <2>1, <2>2 DEF Named, Unborn, Answered
    <2>4. Noted' /\ Clearing'
      BY <2>1, <2>2 DEF Noted, Clearing, Taking
    <2>5. Promises'
      BY <2>1, <2>2 DEF Promises, RefusedCreateCleans, RemovedMeansGone, DeleteWorks
    <2> QED BY <2>3, <2>4, <2>5 DEF Settles
  <1>2. CASE TakeCopy
    <2>1. PICK r \in Call : r = [op EXCEPT !.pc = "clone"] /\ r.kind = "create" /\ r.pc = "clone"
                            /\ r.bad = op.bad /\ r.m = op.m
      <3>1. /\ [op EXCEPT !.pc = "clone"] \in Call /\ [op EXCEPT !.pc = "clone"].kind = op.kind
            /\ [op EXCEPT !.pc = "clone"].pc = "clone" /\ [op EXCEPT !.pc = "clone"].bad = op.bad
            /\ [op EXCEPT !.pc = "clone"].m = op.m
        BY <1>0 DEF Call
      <3> QED BY <1>2, <3>1 DEF TakeCopy, In
    <2>2. Like(r) /\ StaysIn /\ last' = last /\ op'.bad = op.bad
      BY <1>2, <2>1, Goes DEF TakeCopy, To
    <2>3. backend = "copy" /\ op.kind = "create" /\ op.pc = "take" /\ shadows' = shadows
      BY <1>2 DEF TakeCopy, In
    <2>4. Named' /\ Noted' /\ Clearing'
      BY <2>1, <2>2, <2>3 DEF HInv, Named, Noted, Clearing, Like, Taking, StaysIn
    <2> QED BY <2>1, <2>2, <2>3, <2>4, StillInCall DEF Like
  <1>3. CASE FinishClone
    <2>1. op.kind = "create" /\ op.pc = "clone" /\ op.i \in Piece
      BY <1>3 DEF FinishClone, In, HInv, RInv, IInv, Hand
    <2> QED BY <1>3, <2>1, TookNotes DEF FinishClone
  <1>4. CASE FailClone
    <2>1. op.kind = "create" /\ op.pc = "clone"
      BY <1>4 DEF FailClone, In
    <2>2. shadows \subseteq op.m
      BY <2>1 DEF HInv, Noted, Taking
    <2> QED BY <1>0, <1>4, <2>1, <2>2, GivesUpClears DEF FailClone, Taking, handleVars
  <1>5. CASE TakeSubvolume
    <2>1. op.kind = "create" /\ op.pc = "take" /\ op.i \in Piece
      BY <1>5 DEF TakeSubvolume, In
    <2> QED BY <1>5, <2>1, TookNotes DEF TakeSubvolume
  <1>6. CASE TakeShadow
    <2>1. PICK r \in Call : r = [op EXCEPT !.pc = "mount"] /\ r.kind = "create" /\ r.pc = "mount"
                            /\ r.bad = op.bad /\ r.m = op.m /\ r.i = op.i
      <3>1. /\ [op EXCEPT !.pc = "mount"] \in Call /\ [op EXCEPT !.pc = "mount"].kind = op.kind
            /\ [op EXCEPT !.pc = "mount"].pc = "mount" /\ [op EXCEPT !.pc = "mount"].bad = op.bad
            /\ [op EXCEPT !.pc = "mount"].m = op.m /\ [op EXCEPT !.pc = "mount"].i = op.i
        BY <1>0 DEF Call
      <3> QED BY <1>6, <3>1 DEF TakeShadow, In
    <2>2. Like(r) /\ StaysIn /\ last' = last /\ op'.bad = op.bad
      BY <1>6, <2>1, Goes DEF TakeShadow, To
    <2>3. /\ backend = "vss" /\ op.kind = "create" /\ op.pc = "take"
          /\ shadows' = shadows \union {op.i}
      BY <1>6 DEF TakeShadow, In
    <2>4. op.bad = 0 /\ shadows \subseteq op.m
      BY <2>3 DEF HInv, Noted, Taking
    <2>5. Named' /\ Noted' /\ Clearing'
      BY <2>1, <2>2, <2>3, <2>4 DEF Named, Noted, Clearing, Like, Taking, StaysIn
    <2> QED BY <2>1, <2>2, <2>3, <2>5, StillInCall DEF Like
  <1>7. CASE FailTake
    <2>1. op.kind = "create" /\ op.pc = "take"
      BY <1>7 DEF FailTake, In
    <2>2. shadows \subseteq op.m
      BY <2>1 DEF HInv, Noted, Taking
    <2> QED BY <1>0, <1>7, <2>1, <2>2, GivesUpClears DEF FailTake, Taking, handleVars
  <1>8. CASE LoseShadow
    BY <1>0, <1>8, GivesUpClears DEF LoseShadow, In, Taking
  <1>9. CASE Mount
    <2>1. op.kind = "create" /\ op.pc = "mount" /\ op.i \in Piece
      BY <1>9 DEF Mount, In, HInv, RInv, IInv, Hand
    <2> QED BY <1>9, <2>1, TookNotes DEF Mount
  <1>10. CASE FailMount
    <2>1. op.kind = "create" /\ op.pc = "mount" /\ op.i \in Piece
      BY <1>10 DEF FailMount, In, HInv, RInv, IInv, Hand
    <2>2. PICK S \in SUBSET Piece : S = op.m \union {op.i}
      BY <1>0, <2>1
    <2>3. shadows \subseteq S /\ op.m \subseteq S
      BY <2>1, <2>2 DEF HInv, Noted, Taking
    <2>4. CommandFails(Cleanup(S)) /\ UNCHANGED <<piece, shadows>>
      BY <1>10, <2>2 DEF FailMount, handleVars
    <2> QED BY <2>1, <2>3, <2>4, GivesUpClears DEF Taking
  <1>11. CASE OpenManifest
    <2>1. PICK r \in Call : r = [op EXCEPT !.pc = "write"] /\ r.kind = "create" /\ r.pc = "write"
                            /\ r.bad = op.bad /\ r.m = op.m
      <3>1. /\ [op EXCEPT !.pc = "write"] \in Call /\ [op EXCEPT !.pc = "write"].kind = op.kind
            /\ [op EXCEPT !.pc = "write"].pc = "write" /\ [op EXCEPT !.pc = "write"].bad = op.bad
            /\ [op EXCEPT !.pc = "write"].m = op.m
        BY <1>0 DEF Call
      <3> QED BY <1>11, <3>1 DEF OpenManifest, In
    <2>2. Like(r) /\ StaysIn /\ last' = last /\ op'.bad = op.bad
      BY <1>11, <2>1, Goes DEF OpenManifest, To
    <2>3. op.kind = "create" /\ op.pc = "take" /\ UNCHANGED <<piece, shadows>>
      BY <1>11 DEF OpenManifest, In
    <2>4. Named' /\ Noted' /\ Clearing'
      BY <2>1, <2>2, <2>3 DEF HInv, Named, Noted, Clearing, Like, Taking, StaysIn
    <2> QED BY <2>1, <2>2, <2>3, <2>4, StillInCall DEF Like
  <1>12. CASE WriteManifest
    <2>1. PICK r \in Call : r = [op EXCEPT !.pc = "put"] /\ r.kind = "create" /\ r.pc = "put"
                            /\ r.bad = op.bad /\ r.m = op.m
      <3>1. /\ [op EXCEPT !.pc = "put"] \in Call /\ [op EXCEPT !.pc = "put"].kind = op.kind
            /\ [op EXCEPT !.pc = "put"].pc = "put" /\ [op EXCEPT !.pc = "put"].bad = op.bad
            /\ [op EXCEPT !.pc = "put"].m = op.m
        BY <1>0 DEF Call
      <3> QED BY <1>12, <3>1 DEF WriteManifest, In
    <2>2. Like(r) /\ StaysIn /\ last' = last /\ op'.bad = op.bad
      BY <1>12, <2>1, Goes DEF WriteManifest, To
    <2>3. op.kind = "create" /\ op.pc = "write" /\ UNCHANGED <<piece, shadows>>
      BY <1>12 DEF WriteManifest, In
    <2>4. Named' /\ Noted' /\ Clearing'
      BY <2>1, <2>2, <2>3 DEF HInv, Named, Noted, Clearing, Like, Taking, StaysIn
    <2> QED BY <2>1, <2>2, <2>3, <2>4, StillInCall DEF Like
  <1>13. CASE FailManifest
    <2>1. op.kind = "create" /\ op.pc = "write"
      BY <1>13 DEF FailManifest, In
    <2>2. shadows \subseteq op.m
      BY <2>1 DEF HInv, Noted, Taking
    <2> QED BY <1>0, <1>13, <2>1, <2>2, GivesUpClears DEF FailManifest, Taking, handleVars
  <1>14. CASE PutRow
    <2>1. /\ op.kind = "create" /\ op' = Idle /\ last'.res = "created"
          /\ UNCHANGED <<backend, born, handleVars>>
      BY <1>14 DEF PutRow, In, Answer
    <2>2. born /\ Named' /\ Unborn' /\ Answered'
      BY <2>1 DEF HInv, RInv, Lived, Named, Unborn, Answered, Idle, handleVars
    <2>3. Noted' /\ Clearing'
      BY <2>1, NoMoreCall DEF Idle
    <2>4. Promises'
      BY <2>1 DEF Promises, RefusedCreateCleans, RemovedMeansGone, DeleteWorks
    <2> QED BY <2>2, <2>3, <2>4 DEF Settles
  <1>15. CASE FailPutRow
    <2>1. PICK r \in Call : r = DeleteCall("delete")
      BY <1>0, OntoDelete
    <2>2. /\ r.kind = "delete" /\ r.bad = 0
          /\ r.pc \in {"remove", "subvols", "unmount"}
          /\ r.pc = "subvols" => backend = "btrfs"
          /\ r.pc = "unmount" => backend = "vss"
      BY <1>0, <2>1 DEF DeleteCall, Idle, AllBackends
    <2>3. PICK g \in BOOLEAN : g = op.gone
      BY <1>0 DEF Call
    <2>4. PICK t \in Call : t = [r EXCEPT !.gone = g] /\ t.kind = r.kind /\ t.pc = r.pc /\ t.bad = r.bad
      <3>1. /\ [r EXCEPT !.gone = g] \in Call /\ [r EXCEPT !.gone = g].kind = r.kind
            /\ [r EXCEPT !.gone = g].pc = r.pc /\ [r EXCEPT !.gone = g].bad = r.bad
        BY DEF Call
      <3> QED BY <3>1
    <2>5. CommandFails(t)
      BY <1>15, <2>1, <2>3, <2>4 DEF FailPutRow
    <2>6. Like(t) /\ StaysIn /\ last' = last /\ op'.bad = 1
      BY <2>2, <2>4, <2>5, Goes, Mores
    <2>7. op'.kind = "delete" /\ op'.pc = r.pc
      BY <2>2, <2>4, <2>6 DEF Like
    <2>8. op.kind = "create" /\ UNCHANGED handleVars
      BY <1>15 DEF FailPutRow, In
    <2>9. Named' /\ Noted'
      BY <2>6, <2>7, <2>8 DEF HInv, Named, Noted, StaysIn, handleVars
    <2>10. Turned' /\ ~Smooth'
      BY <2>2, <2>6, <2>7 DEF Turned, Smooth, StaysIn
    <2> QED BY <2>6, <2>7, <2>8, <2>9, <2>10, StillInCall DEF Clearing
  <1> QED BY <1>1, <1>2, <1>3, <1>4, <1>5, <1>6, <1>7, <1>8, <1>9, <1>10, <1>11, <1>12, <1>13,
             <1>14, <1>15 DEF CreateNext

-----------------------------------------------------------------------------
\* The lowest of some pieces is one of them.
LEMMA LowestIn ==
    ASSUME NEW T, T \subseteq Piece, T # {}
    PROVE  Lowest(T) \in T
  <1> DEFINE R == {ss \in Nat \X Nat : ss[1] < ss[2]}
  <1>1. IsWellFoundedOn(R, Nat)
    BY NatLessThanWellFounded DEF OpToRel
  <1>2. \A a, b \in Nat : a < b => <<a, b>> \in R
    OBVIOUS
  <1>3. T \subseteq Nat
    BY EngineAssumption DEF Piece
  <1> HIDE DEF R
  <1>4. PICK x \in T : \A y \in T : ~(<<y, x>> \in R)
    BY <1>1, <1>3, WFMin
  <1>5. \A y \in T : x <= y
    <2> SUFFICES ASSUME NEW y \in T PROVE x <= y
      OBVIOUS
    <2>1. ~(y < x) /\ x \in Nat /\ y \in Nat
      BY <1>2, <1>3, <1>4
    <2> QED BY <2>1
  <1> QED BY <1>5 DEF Lowest

\* What a removal begins with.
LEMMA DeleteFields ==
    ASSUME backend \in AllBackends, NEW k \in {"delete", "orphan"}
    PROVE  /\ DeleteCall(k) \in Call /\ DeleteCall(k).kind = k /\ DeleteCall(k).bad = 0
           /\ DeleteCall(k).todo = IF manifest = "whole" THEN Piece ELSE {}
           /\ DeleteCall(k).m = IF manifest = "whole" THEN Piece ELSE {}
           /\ DeleteCall(k).fit = ~Wedged
           /\ DeleteCall(k).pc = IF backend = "copy" \/ manifest # "whole" THEN "remove"
                                 ELSE IF backend = "btrfs" THEN "subvols" ELSE "unmount"
  <1>1. DeleteCall(k) \in Call
    BY OntoDelete
  <1>2. DeleteCall(k).pc = CASE backend = "copy" \/ manifest # "whole" -> "remove"
                             [] backend = "btrfs" /\ manifest = "whole" -> "subvols"
                             [] backend = "vss" /\ manifest = "whole" -> "unmount"
    BY DEF DeleteCall, Idle
  <1>3. DeleteCall(k).pc = IF backend = "copy" \/ manifest # "whole" THEN "remove"
                           ELSE IF backend = "btrfs" THEN "subvols" ELSE "unmount"
    BY <1>2 DEF AllBackends
  <1>4. /\ DeleteCall(k).kind = k /\ DeleteCall(k).bad = 0 /\ DeleteCall(k).fit = ~Wedged
        /\ DeleteCall(k).todo = IF manifest = "whole" THEN Piece ELSE {}
        /\ DeleteCall(k).m = IF manifest = "whole" THEN Piece ELSE {}
    BY DEF DeleteCall, Idle
  <1> QED BY <1>1, <1>3, <1>4

\* It owes what is there, all of it on its list unless the handle is wedged.
LEMMA DeletesClear ==
    ASSUME HInv, NEW k \in {"delete", "orphan"}, op' = DeleteCall(k), UNCHANGED <<backend, handleVars>>
    PROVE  Noted' /\ Clearing'
  <1>0. backend \in AllBackends
    BY DEF HInv, RInv, IInv, HandleTypes, LifeTypes
  <1>1. /\ op'.kind = k /\ op'.bad = 0 /\ op'.fit = ~Wedged
        /\ op'.todo = (IF manifest = "whole" THEN Piece ELSE {})
        /\ op'.m = (IF manifest = "whole" THEN Piece ELSE {})
        /\ op'.pc = IF backend = "copy" \/ manifest # "whole" THEN "remove"
                    ELSE IF backend = "btrfs" THEN "subvols" ELSE "unmount"
    BY <1>0, DeleteFields
  <1>2. UNCHANGED <<backend, dir, piece, manifest, shadows>>
    BY DEF handleVars
  <1>3. Noted'
    BY <1>1 DEF Noted
  <1>4. Turned'
    BY <1>0, <1>1, <1>2 DEF Turned, AllBackends
  <1>5. ShadowsGo'
    <2>1. Owed' = shadows \intersect op'.m
      BY <1>1, <1>2 DEF Owed
    <2>2. op'.pc = "remove" => Owed' = {}
      BY <1>1, <2>1 DEF HInv, Named
    <2>3. op'.pc \notin {"drop", "unshadow"}
      BY <1>1
    <2> QED BY <2>1, <2>2, <2>3 DEF ShadowsGo
  <1>6. backend = "btrfs" /\ op'.fit => SubvolumesGo'
    BY <1>1, <1>2 DEF SubvolumesGo, Wedged
  <1>7. backend' = "btrfs" /\ (op'.kind = "create" \/ op'.fit) => SubvolumesGo'
    BY <1>1, <1>2, <1>6
  <1> QED BY <1>3, <1>4, <1>5, <1>7 DEF Clearing

\* A removal has one piece less on its list.
LEMMA RestLike ==
    ASSUME op \in Call, NEW S, S = op.todo \ {Lowest(op.todo)},
           Go([op EXCEPT !.todo = S]) \/ CommandFails([op EXCEPT !.todo = S])
    PROVE  /\ op'.kind = op.kind /\ op'.pc = op.pc /\ op'.m = op.m /\ op'.todo = S
           /\ op'.quiet = op.quiet /\ op'.fit = op.fit
           /\ StaysIn /\ last' = last
           /\ Go([op EXCEPT !.todo = S]) => op'.bad = op.bad
           /\ CommandFails([op EXCEPT !.todo = S]) => op'.bad = More(op.bad)
  <1>1. PICK r \in Call : /\ r = [op EXCEPT !.todo = S] /\ r.kind = op.kind /\ r.pc = op.pc
                          /\ r.m = op.m /\ r.todo = S /\ r.quiet = op.quiet /\ r.fit = op.fit
                          /\ r.bad = op.bad
    <2>1. S \in SUBSET Piece
      BY DEF Call
    <2>2. /\ [op EXCEPT !.todo = S] \in Call /\ [op EXCEPT !.todo = S].kind = op.kind
          /\ [op EXCEPT !.todo = S].pc = op.pc /\ [op EXCEPT !.todo = S].m = op.m
          /\ [op EXCEPT !.todo = S].todo = S /\ [op EXCEPT !.todo = S].quiet = op.quiet
          /\ [op EXCEPT !.todo = S].fit = op.fit /\ [op EXCEPT !.todo = S].bad = op.bad
      BY <2>1 DEF Call
    <2> QED BY <2>2
  <1>2. /\ Like(r) /\ StaysIn /\ last' = last
        /\ Go(r) => op'.bad = r.bad
        /\ CommandFails(r) => op'.bad = More(r.bad)
    BY <1>1, Goes
  <1> QED BY <1>1, <1>2 DEF Like

\* Or it moves to another point.
LEMMA PointLike ==
    ASSUME op \in Call, NEW p \in Pcs,
           To(p) \/ CommandFails([op EXCEPT !.pc = p]) \/ Trips([op EXCEPT !.pc = p])
    PROVE  /\ op'.kind = op.kind /\ op'.pc = p /\ op'.m = op.m /\ op'.todo = op.todo
           /\ op'.quiet = op.quiet /\ op'.fit = op.fit
           /\ StaysIn /\ last' = last
           /\ To(p) => op'.bad = op.bad
           /\ CommandFails([op EXCEPT !.pc = p]) \/ Trips([op EXCEPT !.pc = p]) => op'.bad = More(op.bad)
  <1>1. PICK r \in Call : /\ r = [op EXCEPT !.pc = p] /\ r.kind = op.kind /\ r.pc = p
                          /\ r.m = op.m /\ r.todo = op.todo /\ r.quiet = op.quiet
                          /\ r.fit = op.fit /\ r.bad = op.bad
    <2>1. /\ [op EXCEPT !.pc = p] \in Call /\ [op EXCEPT !.pc = p].kind = op.kind
          /\ [op EXCEPT !.pc = p].pc = p /\ [op EXCEPT !.pc = p].m = op.m
          /\ [op EXCEPT !.pc = p].todo = op.todo /\ [op EXCEPT !.pc = p].quiet = op.quiet
          /\ [op EXCEPT !.pc = p].fit = op.fit /\ [op EXCEPT !.pc = p].bad = op.bad
      BY DEF Call, Pcs
    <2> QED BY <2>1
  <1>2. /\ Like(r) /\ StaysIn /\ last' = last
        /\ Go(r) => op'.bad = r.bad
        /\ CommandFails(r) \/ Trips(r) => op'.bad = More(r.bad)
    BY <1>1, Goes DEF To
  <1> QED BY <1>1, <1>2 DEF Like, To

\* A step of a removal that fails has counted itself.
LEMMA Fails ==
    ASSUME HInv, Removing, op.pc \notin Taking, op'.kind = op.kind, op'.bad = More(op.bad)
    PROVE  ~Smooth' /\ op'.bad > 0
  <1>1. op \in Call
    BY DEF HInv, RInv, IInv, HandleTypes
  <1>2. op.kind = "create" => op.bad > 0
    BY DEF HInv, Clearing, Turned
  <1>3. op'.bad \in {1, 2} /\ (op.kind = "create" => op'.bad = 2)
    BY <1>1, <1>2, Mores
  <1> QED BY <1>3 DEF Smooth

\* A removal that only stops, or skips a piece, by failing a step.
LEMMA FailureClears ==
    ASSUME HInv, Removing, op.pc \notin Taking, op'.kind = op.kind, op'.bad = More(op.bad),
           op'.quiet = op.quiet, StaysIn, last' = last, UNCHANGED handleVars,
           op'.pc \in {op.pc, "stop"} \/ (op.kind = "delete" /\ op.pc = "drop" /\ op'.pc = "kept")
    PROVE  Settles
  <1>1. ~Smooth' /\ op'.bad > 0
    BY Fails
  <1>2. Turned
    BY DEF HInv, Clearing
  <1>3. Turned'
    <2>1. op'.pc = "drop" /\ (backend = "vss" => op'.bad = 0) => ~dir
      <3>1. op'.pc = "drop" => op.kind # "create" /\ op.pc = "drop"
        BY <1>2 DEF Turned
      <3>2. op.pc = "drop" /\ op.kind # "create" => ~dir \/ backend = "vss"
        <4>1. op.pc = "drop" => op.kind # "orphan" \/ ~dir \/ backend = "vss"
          BY <1>2 DEF Turned, Smooth, HInv, RInv, Removes
        <4> QED BY <4>1 DEF HInv, RInv, Removes, Removing
      <3> QED BY <1>1, <3>1, <3>2
    <2> QED BY <1>1, <1>2, <2>1 DEF Turned, StaysIn, handleVars
  <1>4. Clearing'
    BY <1>1, <1>3 DEF Clearing
  <1>5. op.kind # "none" /\ op'.kind # "none"
    BY DEF Removing
  <1>6. Named' /\ Noted'
    <2>1. op'.kind = "create" => op'.pc \notin Taking
      BY <1>2 DEF Turned, Taking
    <2> QED BY <2>1 DEF HInv, Named, Noted, StaysIn, handleVars
  <1> QED BY <1>4, <1>5, <1>6, StillInCall

\* A removal that ends without an error: the directory is gone and, if all
\* went smoothly, so is what it owed; or a step failed and nobody is told.
LEMMA RemovedSettles ==
    ASSUME HInv, Removing, op.pc \notin Taking, Removed, UNCHANGED <<piece, manifest, shadows>>,
           \/ dir' = FALSE /\ (Smooth => Owed = {})
           \/ dir' = dir /\ ~Smooth /\ (op.kind = "create" \/ backend = "vss")
    PROVE  Settles
  <1>0. op \in Call /\ op.bad \in 0..2 /\ born
    BY Mores DEF HInv, RInv, IInv, HandleTypes, Lived, Removing
  <1>1. CASE op.kind = "delete" /\ row
    <2>1. To("drop")
      BY <1>1 DEF Removed
    <2>2. /\ op'.kind = "delete" /\ op'.pc = "drop" /\ op'.m = op.m /\ op'.bad = op.bad
          /\ StaysIn /\ last' = last
      BY <1>0, <1>1, <2>1, PointLike DEF Pcs
    <2>3. Named' /\ Noted'
      BY <2>2 DEF HInv, Named, Noted, StaysIn
    <2>4. Turned'
      <3>1. (backend = "vss" => op.bad = 0) => ~dir'
        BY <1>0, <1>1 DEF Smooth
      <3> QED BY <2>2, <3>1 DEF Turned, StaysIn
    <2>5. Smooth' => ShadowsGo'
      <3>1. Smooth' = Smooth /\ Owed' = Owed
        BY <1>1, <2>2 DEF Smooth, Owed
      <3>2. Smooth => Owed = {} \/ backend # "vss"
        BY <1>1
      <3>3. backend # "vss" => Owed = {}
        BY DEF HInv, Named, Owed
      <3> QED BY <2>2, <3>1, <3>2, <3>3 DEF ShadowsGo
    <2>6. SubvolumesGo'
      BY <2>2 DEF SubvolumesGo
    <2>7. Clearing'
      BY <2>4, <2>5, <2>6 DEF Clearing
    <2> QED BY <1>1, <2>2, <2>3, <2>7, StillInCall
  <1>2. CASE ~(op.kind = "delete" /\ row)
    <2>1. /\ op' = Idle /\ UNCHANGED <<backend, born>>
          /\ last' = [res |-> IF op.kind = "create" THEN "refused" ELSE "removed",
                      bad |-> op.bad, m |-> op.m, fit |-> op.fit]
      BY <1>2 DEF Removed, Answer
    <2>2. Named' /\ Unborn' /\ Answered'
      BY <1>0, <2>1 DEF HInv, Named, Unborn, Answered, Idle
    <2>3. Noted' /\ Clearing'
      BY <2>1, NoMoreCall DEF Idle
    <2>4. RefusedCreateCleans'
      BY <1>0, <2>1 DEF RefusedCreateCleans, Smooth, Owed
    <2>5. RemovedMeansGone'
      <3> SUFFICES ASSUME op.kind # "create", backend = "vss" => op.bad = 0
                   PROVE  ~dir' /\ op.m \intersect shadows = {}
        BY <2>1 DEF RemovedMeansGone
      <3>1. backend = "vss" => Smooth
        BY <1>0 DEF Smooth
      <3>2. ~dir'
        BY <3>1
      <3>3. op.m \intersect shadows = {}
        <4>1. CASE backend = "vss"
          BY <3>1, <4>1 DEF Owed
        <4>2. CASE backend # "vss"
          BY <4>2 DEF HInv, Named
        <4> QED BY <4>1, <4>2
      <3> QED BY <3>2, <3>3
    <2>6. DeleteWorks'
      BY <2>1 DEF DeleteWorks
    <2> QED BY <2>2, <2>3, <2>4, <2>5, <2>6 DEF Settles, Promises
  <1> QED BY <1>1, <1>2

\* A removal whose error is returned: a step of it failed, or the handle was
\* wedged when it began.
LEMMA StuckSettles ==
    ASSUME HInv, Removing, Answer("stuck", row), UNCHANGED handleVars,
           op.kind # "create", op.bad > 0 \/ ~op.fit
    PROVE  Settles
  <1>1. /\ op' = Idle /\ UNCHANGED <<backend, born>>
        /\ last' = [res |-> "stuck", bad |-> op.bad, m |-> op.m, fit |-> op.fit]
    BY DEF Answer
  <1>2. born /\ op \in Call /\ op.bad \in 0..2
    BY Mores DEF HInv, RInv, IInv, HandleTypes, Lived, Removing
  <1>3. Named' /\ Unborn' /\ Answered'
    BY <1>1, <1>2 DEF HInv, Named, Unborn, Answered, Idle, handleVars
  <1>4. Noted' /\ Clearing'
    BY <1>1, NoMoreCall DEF Idle
  <1>5. Promises'
    BY <1>1, <1>2 DEF Promises, RefusedCreateCleans, RemovedMeansGone, DeleteWorks
  <1> QED BY <1>3, <1>4, <1>5 DEF Settles

\* Whether the error is returned or swallowed.
LEMMA NotRemovedSettles ==
    ASSUME HInv, Removing, op.pc \notin Taking, NotRemoved, UNCHANGED handleVars,
           ~Smooth \/ (op.kind # "create" /\ ~op.quiet /\ ~op.fit)
    PROVE  Settles
  <1>0. op \in Call /\ op.bad \in 0..2
    BY Mores DEF HInv, RInv, IInv, HandleTypes
  <1>1. CASE op.kind = "create" \/ op.quiet
    <2>1. Removed /\ ~Smooth
      BY <1>1 DEF NotRemoved
    <2>2. op.kind = "create" \/ backend = "vss"
      BY <1>1 DEF HInv, RInv, Removes, Removing
    <2> QED BY <2>1, <2>2, RemovedSettles DEF handleVars
  <1>2. CASE ~(op.kind = "create" \/ op.quiet)
    <2>1. Answer("stuck", row)
      BY <1>2 DEF NotRemoved
    <2>2. op.bad > 0 \/ ~op.fit
      BY <1>0, <1>2 DEF Smooth
    <2> QED BY <1>2, <2>1, <2>2, StuckSettles
  <1> QED BY <1>1, <1>2

\* A removal that goes on smoothly owes no more than its list says.
LEMMA GoesOn ==
    ASSUME HInv, Removing, op.pc \notin Taking, op'.kind = op.kind, op'.bad = op.bad,
           op'.quiet = op.quiet, op'.m = op.m, op'.fit = op.fit, StaysIn, last' = last,
           op'.pc \in {"subvols", "unmount", "unshadow", "remove"},
           op'.pc = "subvols" => backend = "btrfs",
           op'.pc \in {"unmount", "unshadow"} => backend = "vss",
           shadows' \subseteq shadows,
           Smooth => ShadowsGo', Smooth /\ backend = "btrfs" /\ SubvolumesGo => SubvolumesGo'
    PROVE  Settles
  <1>1. Clearing
    BY DEF HInv
  <1>2. Turned'
    BY <1>1 DEF Clearing, Turned, StaysIn
  <1>3. Smooth' = Smooth
    BY DEF Smooth
  <1>4. Clearing'
    BY <1>1, <1>2, <1>3 DEF Clearing, StaysIn
  <1>5. Named' /\ Noted'
    BY DEF HInv, Named, Noted, StaysIn, Taking
  <1>6. op.kind # "none" /\ op'.kind # "none"
    BY DEF Removing
  <1> QED BY <1>4, <1>5, <1>6, StillInCall

\* The steps of a removal.
LEMMA DeleteSettles ==
    ASSUME HInv, DeleteNext
    PROVE  Settles
  <1>0. /\ op \in Call /\ backend \in AllBackends /\ op.m \in SUBSET Piece /\ op.todo \in SUBSET Piece
        /\ op.bad \in 0..2 /\ piece \in [Piece -> Part]
    BY Mores DEF HInv, RInv, IInv, HandleTypes, LifeTypes, DiskTypes, Call
  <1>a. Removing /\ op.pc \notin Taking =>
           /\ Turned
           /\ Smooth => ShadowsGo
           /\ Smooth /\ backend = "btrfs" /\ (op.kind = "create" \/ op.fit) => SubvolumesGo
    BY DEF HInv, Clearing
  <1>1. CASE StartDelete
    <2>1. /\ op' = DeleteCall("delete") /\ last' = NoCall /\ row
          /\ UNCHANGED <<backend, handleVars, born>>
      BY <1>1 DEF StartDelete, Begin, lifeVars
    <2>2. Noted' /\ Clearing'
      BY <2>1, DeletesClear
    <2>3. Named' /\ Unborn' /\ Answered' /\ Promises'
      BY <2>1 DEF HInv, Named, Unborn, Answered, Promises, RefusedCreateCleans, RemovedMeansGone,
                  DeleteWorks, NoCall, handleVars
    <2> QED BY <2>2, <2>3 DEF Settles
  <1>2. CASE DeleteSubvolume
    <2>1. PICK S : S = op.todo \ {Lowest(op.todo)}
      OBVIOUS
    <2>2. /\ Removing /\ op.pc = "subvols" /\ Go([op EXCEPT !.todo = S])
          /\ piece' = [piece EXCEPT ![Lowest(op.todo)] = "none"] /\ shadows' = shadows
      BY <1>2, <2>1 DEF DeleteSubvolume
    <2>3. /\ op'.kind = op.kind /\ op'.pc = "subvols" /\ op'.m = op.m /\ op'.todo = S
          /\ op'.quiet = op.quiet /\ op'.fit = op.fit /\ StaysIn /\ last' = last /\ op'.bad = op.bad
      BY <1>0, <2>1, <2>2, RestLike
    <2>4. backend = "btrfs"
      BY <1>a, <2>2 DEF Turned, Taking
    <2>5. ShadowsGo'
      BY <2>3 DEF ShadowsGo
    <2>6. SubvolumesGo => SubvolumesGo'
      <3> SUFFICES ASSUME SubvolumesGo, NEW j \in Piece
                   PROVE  /\ piece'[j] # "none" => j \in S
                          /\ j \in S /\ op.kind # "create" => piece'[j] # "none"
        BY <2>3 DEF SubvolumesGo
      <3>1. /\ piece[j] # "none" => j \in op.todo
            /\ j \in op.todo /\ op.kind # "create" => piece[j] # "none"
        BY <2>2 DEF SubvolumesGo
      <3>2. piece'[j] = IF j = Lowest(op.todo) THEN "none" ELSE piece[j]
        BY <1>0, <2>2
      <3> QED BY <2>1, <3>1, <3>2
    <2> QED BY <2>2, <2>3, <2>4, <2>5, <2>6, GoesOn DEF Taking
  <1>3. CASE SkipSubvolume
    <2>1. PICK S : S = op.todo \ {Lowest(op.todo)}
      OBVIOUS
    <2>2. Removing /\ op.pc = "subvols" /\ CommandFails([op EXCEPT !.todo = S]) /\ UNCHANGED handleVars
      BY <1>3, <2>1 DEF SkipSubvolume
    <2>3. /\ op'.kind = op.kind /\ op'.pc = op.pc /\ op'.quiet = op.quiet /\ StaysIn /\ last' = last
          /\ op'.bad = More(op.bad)
      BY <1>0, <2>1, <2>2, RestLike
    <2> QED BY <2>2, <2>3, FailureClears DEF Taking
  <1>4. CASE StopAtMissing
    <2>1. /\ Removing /\ op.pc = "subvols" /\ ~op.quiet /\ op.todo # {}
          /\ piece[Lowest(op.todo)] = "none" /\ NotRemoved /\ UNCHANGED handleVars
      BY <1>4 DEF StopAtMissing
    <2>2. op.kind # "create" /\ backend = "btrfs"
      BY <1>a, <2>1 DEF Turned, Taking
    <2>3. Lowest(op.todo) \in op.todo /\ Lowest(op.todo) \in Piece
      BY <1>0, <2>1, LowestIn
    <2>4. SubvolumesGo => FALSE
      BY <2>1, <2>2, <2>3 DEF SubvolumesGo
    <2>5. ~Smooth \/ ~op.fit
      BY <1>a, <2>1, <2>2, <2>4 DEF Taking
    <2> QED BY <2>1, <2>2, <2>5, NotRemovedSettles DEF Taking
  <1>5. CASE StopAtSubvolume
    <2>1. Removing /\ op.pc = "subvols" /\ CommandFails([op EXCEPT !.pc = "stop"]) /\ UNCHANGED handleVars
      BY <1>5 DEF StopAtSubvolume
    <2>2. /\ op'.kind = op.kind /\ op'.pc = "stop" /\ op'.quiet = op.quiet /\ StaysIn /\ last' = last
          /\ op'.bad = More(op.bad)
      BY <1>0, <2>1, PointLike DEF Pcs
    <2> QED BY <2>1, <2>2, FailureClears DEF Taking
  <1>6. CASE Unmount
    <2>1. PICK S : S = op.todo \ {Lowest(op.todo)}
      OBVIOUS
    <2>2. /\ Removing /\ op.pc = "unmount" /\ UNCHANGED <<dir, manifest, shadows>>
          /\ \/ Go([op EXCEPT !.todo = S])
             \/ CommandFails([op EXCEPT !.todo = S]) /\ UNCHANGED piece
      BY <1>6, <2>1 DEF Unmount
    <2>3. /\ op'.kind = op.kind /\ op'.pc = "unmount" /\ op'.m = op.m /\ op'.quiet = op.quiet
          /\ op'.fit = op.fit /\ StaysIn /\ last' = last
          /\ Go([op EXCEPT !.todo = S]) => op'.bad = op.bad
          /\ CommandFails([op EXCEPT !.todo = S]) => op'.bad = More(op.bad)
      BY <1>0, <2>1, <2>2, RestLike
    <2>4. CASE Go([op EXCEPT !.todo = S])
      <3>1. backend = "vss" /\ Owed' = Owed
        BY <1>a, <2>2, <2>3 DEF Turned, Owed, Taking
      <3>2. Smooth => ShadowsGo'
        BY <1>a, <2>2, <2>3, <3>1 DEF ShadowsGo, Taking
      <3> QED BY <2>2, <2>3, <2>4, <3>1, <3>2, GoesOn DEF Taking
    <2>5. CASE CommandFails([op EXCEPT !.todo = S]) /\ UNCHANGED piece
      BY <2>2, <2>3, <2>5, FailureClears DEF Taking, handleVars
    <2> QED BY <2>2, <2>4, <2>5
  <1>7. CASE Unmounted
    <2>1. PICK S \in SUBSET Piece : S = op.m
      BY <1>0
    <2>2. PICK r \in Call : /\ r = [op EXCEPT !.pc = "unshadow", !.todo = S] /\ r.kind = op.kind
                            /\ r.pc = "unshadow" /\ r.m = op.m /\ r.todo = S /\ r.quiet = op.quiet
                            /\ r.fit = op.fit /\ r.bad = op.bad
      <3> DEFINE r == [op EXCEPT !.pc = "unshadow", !.todo = S]
      <3>1. /\ r \in Call /\ r.kind = op.kind
            /\ r.pc = "unshadow" /\ r.m = op.m /\ r.todo = S /\ r.quiet = op.quiet
            /\ r.fit = op.fit /\ r.bad = op.bad
        BY <1>0 DEF Call
      <3> QED BY <3>1
    <2>3. Removing /\ op.pc = "unmount" /\ Go(r) /\ UNCHANGED handleVars
      BY <1>7, <2>1, <2>2 DEF Unmounted
    <2>4. /\ op'.kind = op.kind /\ op'.pc = "unshadow" /\ op'.m = op.m /\ op'.todo = op.m
          /\ op'.quiet = op.quiet /\ op'.fit = op.fit /\ op'.bad = op.bad /\ StaysIn /\ last' = last
      BY <2>1, <2>2, <2>3, Goes DEF Like
    <2>5. backend = "vss" /\ Owed' = Owed
      BY <1>a, <2>3, <2>4 DEF Turned, Owed, Taking, handleVars
    <2>6. Smooth => ShadowsGo'
      BY <1>a, <2>3, <2>4, <2>5 DEF ShadowsGo, Taking
    <2> QED BY <2>3, <2>4, <2>5, <2>6, GoesOn DEF Taking, handleVars
  <1>8. CASE DeleteShadow
    <2>1. PICK S : S = op.todo \ {Lowest(op.todo)}
      OBVIOUS
    <2>2. /\ Removing /\ op.pc = "unshadow" /\ UNCHANGED <<dir, manifest, piece>>
          /\ \/ Go([op EXCEPT !.todo = S]) /\ shadows' = shadows \ {Lowest(op.todo)}
             \/ CommandFails([op EXCEPT !.todo = S]) /\ UNCHANGED shadows
      BY <1>8, <2>1 DEF DeleteShadow
    <2>3. /\ op'.kind = op.kind /\ op'.pc = "unshadow" /\ op'.m = op.m /\ op'.todo = S
          /\ op'.quiet = op.quiet /\ op'.fit = op.fit /\ StaysIn /\ last' = last
          /\ Go([op EXCEPT !.todo = S]) => op'.bad = op.bad
          /\ CommandFails([op EXCEPT !.todo = S]) => op'.bad = More(op.bad)
      BY <1>0, <2>1, <2>2, RestLike
    <2>4. CASE Go([op EXCEPT !.todo = S]) /\ shadows' = shadows \ {Lowest(op.todo)}
      <3>1. backend = "vss" /\ Owed' = Owed \ {Lowest(op.todo)}
        BY <1>a, <2>2, <2>3, <2>4 DEF Turned, Owed, Taking
      <3>2. Smooth => ShadowsGo'
        BY <1>a, <2>1, <2>2, <2>3, <3>1 DEF ShadowsGo, Taking
      <3> QED BY <2>2, <2>3, <2>4, <3>1, <3>2, GoesOn DEF Taking
    <2>5. CASE CommandFails([op EXCEPT !.todo = S]) /\ UNCHANGED shadows
      BY <2>2, <2>3, <2>5, FailureClears DEF Taking, handleVars
    <2> QED BY <2>2, <2>4, <2>5
  <1>9. CASE PiecesDone
    <2>1. Removing /\ op.pc \in {"subvols", "unshadow"} /\ op.todo = {} /\ To("remove") /\ UNCHANGED handleVars
      BY <1>9 DEF PiecesDone
    <2>2. /\ op'.kind = op.kind /\ op'.pc = "remove" /\ op'.m = op.m
          /\ op'.quiet = op.quiet /\ op'.fit = op.fit /\ op'.bad = op.bad /\ StaysIn /\ last' = last
      BY <1>0, <2>1, PointLike DEF Pcs
    <2>3. Owed' = Owed /\ Turned /\ op.pc \notin Taking
      BY <1>a, <2>1, <2>2 DEF Owed, Taking, handleVars
    <2>4. Smooth => ShadowsGo'
      <3>1. CASE op.pc = "unshadow"
        BY <1>a, <2>1, <2>2, <2>3, <3>1 DEF ShadowsGo
      <3>2. CASE op.pc = "subvols"
        <4>1. Owed = {}
          BY <2>3, <3>2 DEF Turned, HInv, Named, Owed
        <4> QED BY <2>2, <2>3, <4>1 DEF ShadowsGo
      <3> QED BY <2>1, <3>1, <3>2
    <2>5. backend = "btrfs" /\ SubvolumesGo => SubvolumesGo'
      BY <2>1, <2>2, <2>3 DEF SubvolumesGo, Turned, handleVars
    <2> QED BY <2>1, <2>2, <2>3, <2>4, <2>5, GoesOn DEF handleVars
  <1>10. CASE RemovePart
    <2>1. /\ Removing /\ op.pc = "remove" /\ To("remove") /\ UNCHANGED shadows
          /\ UNCHANGED piece \/ backend # "btrfs"
      BY <1>10 DEF RemovePart
    <2>2. /\ op'.kind = op.kind /\ op'.pc = "remove" /\ op'.m = op.m
          /\ op'.quiet = op.quiet /\ op'.fit = op.fit /\ op'.bad = op.bad /\ StaysIn /\ last' = last
      BY <1>0, <2>1, PointLike DEF Pcs
    <2>3. Owed' = Owed
      BY <2>1, <2>2 DEF Owed
    <2>4. Smooth => ShadowsGo'
      BY <1>a, <2>1, <2>2, <2>3 DEF ShadowsGo, Taking
    <2>5. backend = "btrfs" /\ SubvolumesGo => SubvolumesGo'
      BY <2>1, <2>2 DEF SubvolumesGo
    <2> QED BY <2>1, <2>2, <2>4, <2>5, GoesOn DEF Taking
  <1>11. CASE RemoveDir
    <2>1. /\ Removing /\ op.pc = "remove" /\ dir' = FALSE /\ Removed
          /\ UNCHANGED <<piece, manifest, shadows>>
      BY <1>11 DEF RemoveDir
    <2>2. Smooth => Owed = {}
      BY <1>a, <2>1 DEF ShadowsGo, Taking
    <2> QED BY <2>1, <2>2, RemovedSettles DEF Taking
  <1>12. CASE ReadOnlyLeft
    <2>1. /\ Removing /\ op.pc = "remove" /\ backend = "btrfs" /\ NotRemoved /\ UNCHANGED handleVars
          /\ ~SubvolumesGo
      BY <1>12 DEF ReadOnlyLeft, SubvolumesGo
    <2>2. ~Smooth \/ (op.kind # "create" /\ ~op.quiet /\ ~op.fit)
      <3>1. op.quiet => op.kind = "create"
        BY <2>1 DEF HInv, RInv, Removes, Removing
      <3> QED BY <1>a, <2>1, <3>1 DEF Taking
    <2> QED BY <2>1, <2>2, NotRemovedSettles DEF Taking
  <1>13. CASE FailRemove
    <2>1. Removing /\ op.pc = "remove" /\ Trips([op EXCEPT !.pc = "stop"]) /\ UNCHANGED handleVars
      BY <1>13 DEF FailRemove
    <2>2. /\ op'.kind = op.kind /\ op'.pc = "stop" /\ op'.quiet = op.quiet /\ StaysIn /\ last' = last
          /\ op'.bad = More(op.bad)
      BY <1>0, <2>1, PointLike DEF Pcs
    <2> QED BY <2>1, <2>2, FailureClears DEF Taking
  <1>14. CASE ReturnError
    <2>1. Removing /\ op.pc = "stop" /\ NotRemoved /\ UNCHANGED handleVars
      BY <1>14 DEF ReturnError
    <2>2. ~Smooth
      BY <1>a, <2>1 DEF Turned, Taking
    <2> QED BY <2>1, <2>2, NotRemovedSettles DEF Taking
  <1>15. CASE DropRow
    <2>1. /\ op.kind = "delete" /\ op.pc = "drop" /\ op' = Idle /\ UNCHANGED <<backend, born, handleVars>>
          /\ last' = [res |-> "removed", bad |-> op.bad, m |-> op.m, fit |-> op.fit]
      BY <1>15 DEF DropRow, In, Answer
    <2>2. born /\ Removing /\ op.pc \notin Taking
      BY <2>1 DEF HInv, RInv, Lived, Removing, Taking
    <2>3. Named' /\ Unborn' /\ Answered'
      BY <2>1, <2>2 DEF HInv, Named, Unborn, Answered, Idle, handleVars
    <2>4. Noted' /\ Clearing'
      BY <2>1, NoMoreCall DEF Idle
    <2>5. RemovedMeansGone'
      <3> SUFFICES ASSUME backend = "vss" => op.bad = 0
                   PROVE  ~dir /\ op.m \intersect shadows = {}
        BY <2>1 DEF RemovedMeansGone, handleVars
      <3>1. ~dir
        BY <1>a, <2>1, <2>2 DEF Turned
      <3>2. CASE backend = "vss"
        <4>1. Owed = {}
          BY <1>0, <1>a, <2>1, <2>2, <3>2 DEF Smooth, ShadowsGo
        <4> QED BY <2>1, <3>1, <4>1 DEF Owed
      <3>3. CASE backend # "vss"
        BY <3>1, <3>3 DEF HInv, Named
      <3> QED BY <3>2, <3>3
    <2>6. RefusedCreateCleans' /\ DeleteWorks'
      BY <2>1 DEF RefusedCreateCleans, DeleteWorks
    <2> QED BY <2>3, <2>4, <2>5, <2>6 DEF Settles, Promises
  <1>16. CASE FailDropRow
    <2>1. /\ op.kind = "delete" /\ op.pc = "drop" /\ Removing
          /\ CommandFails([op EXCEPT !.pc = "kept"]) /\ UNCHANGED handleVars
      BY <1>16 DEF FailDropRow, In, Removing
    <2>2. /\ op'.kind = op.kind /\ op'.pc = "kept" /\ op'.quiet = op.quiet /\ StaysIn /\ last' = last
          /\ op'.bad = More(op.bad)
      BY <1>0, <2>1, PointLike DEF Pcs
    <2> QED BY <2>1, <2>2, FailureClears DEF Taking
  <1>17. CASE KeepRow
    <2>1. op.kind = "delete" /\ op.pc = "kept" /\ Removing /\ Answer("stuck", row) /\ UNCHANGED handleVars
      BY <1>17 DEF KeepRow, In, Removing
    <2>2. op.bad > 0
      BY <1>0, <1>a, <2>1 DEF Turned, Smooth, Taking
    <2> QED BY <2>1, <2>2, StuckSettles
  <1> QED BY <1>1, <1>2, <1>3, <1>4, <1>5, <1>6, <1>7, <1>8, <1>9, <1>10, <1>11, <1>12, <1>13,
             <1>14, <1>15, <1>16, <1>17 DEF DeleteNext

\* The client, the provider, the crash and the start.
LEMMA LifeSettles ==
    ASSUME HInv, LifeNext
    PROVE  Settles
  <1>0. op \in Call
    BY DEF HInv, RInv, IInv, HandleTypes
  <1>1. CASE HangUp
    <2>1. PICK r \in Call : /\ r = [op EXCEPT !.gone = TRUE] /\ r.kind = op.kind /\ r.pc = op.pc
                            /\ r.i = op.i /\ r.m = op.m /\ r.todo = op.todo /\ r.quiet = op.quiet
                            /\ r.fit = op.fit /\ r.bad = op.bad
      <3> DEFINE r == [op EXCEPT !.gone = TRUE]
      <3>1. /\ r \in Call /\ r.kind = op.kind /\ r.pc = op.pc
            /\ r.i = op.i /\ r.m = op.m /\ r.todo = op.todo /\ r.quiet = op.quiet
            /\ r.fit = op.fit /\ r.bad = op.bad
        BY <1>0 DEF Call
      <3> QED BY <3>1
    <2>2. op.kind # "none" /\ Go(r) /\ UNCHANGED handleVars
      BY <1>1, <2>1 DEF HangUp
    <2>3. /\ op'.kind = op.kind /\ op'.pc = op.pc /\ op'.i = op.i /\ op'.m = op.m /\ op'.todo = op.todo
          /\ op'.quiet = op.quiet /\ op'.fit = op.fit /\ op'.bad = op.bad /\ StaysIn /\ last' = last
      BY <2>1, <2>2, Goes DEF Like
    <2>4. Named' /\ Noted'
      BY <2>2, <2>3 DEF HInv, Named, Noted, StaysIn, handleVars
    <2>5. Owed' = Owed /\ Smooth' = Smooth /\ Removing' = Removing
      BY <2>2, <2>3 DEF Owed, Smooth, Removing, handleVars
    <2>6. Turned' = Turned /\ ShadowsGo' = ShadowsGo /\ SubvolumesGo' = SubvolumesGo
      BY <2>2, <2>3, <2>5 DEF Turned, ShadowsGo, SubvolumesGo, StaysIn, handleVars
    <2>7. Clearing'
      BY <2>3, <2>5, <2>6 DEF HInv, Clearing, StaysIn
    <2> QED BY <2>2, <2>3, <2>4, <2>7, StillInCall
  <1>2. CASE Evict
    <2>1. /\ backend = "vss" /\ shadows' \subseteq shadows
          /\ UNCHANGED <<backend, dir, piece, manifest, row, born, op, last>>
      BY <1>2 DEF Evict, lifeVars
    <2>2. Named' /\ Unborn' /\ Answered' /\ Noted'
      BY <2>1 DEF HInv, Named, Unborn, Answered, Noted
    <2>3. Owed' \subseteq Owed /\ Smooth' = Smooth /\ Removing' = Removing
      BY <2>1 DEF Owed, Smooth, Removing
    <2>4. (Turned => Turned') /\ (ShadowsGo => ShadowsGo')
      BY <2>1, <2>3 DEF Turned, ShadowsGo
    <2>5. Clearing'
      BY <2>1, <2>3, <2>4 DEF HInv, Clearing
    <2>6. Promises'
      BY <2>1 DEF HInv, Promises, RefusedCreateCleans, RemovedMeansGone, DeleteWorks
    <2> QED BY <2>2, <2>5, <2>6 DEF Settles
  <1>3. CASE Crash \/ Restart \/ ReconcileRow \/ ReconcileClean
    <2>1. last' = NoCall /\ UNCHANGED <<backend, handleVars, born>>
      BY <1>3 DEF Crash, Restart, ReconcileRow, ReconcileClean
    <2>2. op'.kind = "none"
      BY <1>3, Idles DEF Crash, Restart, ReconcileRow, ReconcileClean, HInv, RInv, Lived
    <2>3. Named' /\ Unborn' /\ Answered' /\ Promises'
      BY <2>1 DEF HInv, Named, Unborn, Answered, Promises, RefusedCreateCleans, RemovedMeansGone,
                  DeleteWorks, NoCall, handleVars
    <2> QED BY <2>2, <2>3, NoMoreCall DEF Settles
  <1>4. CASE ReconcileOrphan
    <2>1. op' = DeleteCall("orphan") /\ last' = NoCall /\ UNCHANGED <<backend, handleVars, born>>
      BY <1>4 DEF ReconcileOrphan
    <2>2. Noted' /\ Clearing'
      BY <2>1, DeletesClear
    <2>3. Named' /\ Unborn' /\ Answered' /\ Promises'
      BY <2>1 DEF HInv, Named, Unborn, Answered, Promises, RefusedCreateCleans, RemovedMeansGone,
                  DeleteWorks, NoCall, handleVars
    <2> QED BY <2>2, <2>3 DEF Settles
  <1> QED BY <1>1, <1>2, <1>3, <1>4 DEF LifeNext

\* A restore answers for itself.
LEMMA RestoreAnswers ==
    ASSUME RestoreNext
    PROVE  \/ last' = NoCall
           \/ op.kind = "restore" /\ last' = last
           \/ op' = Idle /\ last'.res \in {"restored", "failed"}
  <1>1. CASE StartRestore
    BY <1>1 DEF StartRestore, Begin
  <1>2. CASE Check \/ Turn
    BY <1>2 DEF Check, Turn, Restoring, Fail, To, Go, Trips, CommandFails
  <1>3. CASE Restored \/ Failed
    BY <1>3 DEF Restored, Failed, Answer
  <1>4. CASE SwapNext
    BY <1>4 DEF SwapNext, ClearStagedTree, ClearPrevious, BeginClone, EndClone, FailRestoreClone, DropStaged,
                Park, FailPark, Land, FailLand, Rollback, Tidy, NextPath, Restoring, Fail, To, Go, Trips,
                CommandFails
  <1>5. CASE SubvolumeNext
    BY <1>5 DEF SubvolumeNext, ClearStaged, SnapStaged, FailSnapStaged, DeleteLive, FailDeleteLive,
                RenameStaged, FailRenameStaged, SnapLive, FailSnapLive, NextPath, Restoring, Fail, To, Go,
                Trips, CommandFails
  <1> QED BY <1>1, <1>2, <1>3, <1>4, <1>5 DEF RestoreNext

\* And takes nothing from the handle.
LEMMA RestoreSettles ==
    ASSUME HInv, RestoreNext
    PROVE  Settles
  <1>1. /\ op.kind = "restore" \/ (op.kind = "none" /\ row /\ phase = "up")
        /\ op'.kind \in {"none", "restore"}
        /\ StaysIn /\ UNCHANGED handleVars
    BY RestoreStays DEF HInv, RInv
  <1>2. born /\ born'
    BY <1>1 DEF HInv, RInv, Lived, StaysIn
  <1>3. Noted' /\ Clearing'
    BY <1>1, NoMoreCall
  <1>4. Named' /\ Unborn'
    BY <1>1, <1>2 DEF HInv, Named, Unborn, StaysIn, handleVars
  <1>5. last'.res \in {"none", "restored", "failed"} /\ (last'.res # "none" => op'.kind = "none")
    <2>1. CASE last' = NoCall
      BY <2>1 DEF NoCall
    <2>2. CASE op.kind = "restore" /\ last' = last
      BY <2>2 DEF HInv, Answered
    <2>3. CASE op' = Idle /\ last'.res \in {"restored", "failed"}
      BY <2>3, Idles
    <2> QED BY <2>1, <2>2, <2>3, RestoreAnswers
  <1>6. Answered' /\ Promises'
    BY <1>2, <1>5 DEF Answered, Promises, RefusedCreateCleans, RemovedMeansGone, DeleteWorks
  <1> QED BY <1>3, <1>4, <1>6 DEF Settles

\* Every step of every call, and of what comes between, keeps the invariant.
THEOREM NextHInv == HInv /\ [Next]_vars => HInv'
  <1> SUFFICES ASSUME HInv, [Next]_vars PROVE HInv'
    OBVIOUS
  <1>1. RInv'
    BY StepMaps DEF HInv
  <1>2. CASE HandleNext
    BY <1>1, <1>2, CreateSettles, DeleteSettles, LifeSettles DEF HandleNext, Settles, HInv
  <1>3. CASE RestoreNext
    BY <1>1, <1>3, RestoreSettles DEF Settles, HInv
  <1>4. CASE AgentEdits \/ UNCHANGED vars
    <2>1. UNCHANGED engineVars
      BY <1>4 DEF AgentEdits, vars
    <2>2. /\ op' = op /\ last' = last /\ backend' = backend /\ born' = born
          /\ dir' = dir /\ piece' = piece /\ shadows' = shadows
      BY <2>1 DEF engineVars, handleVars, lifeVars
    <2>3. Named' /\ Unborn' /\ Answered' /\ Noted' /\ Promises'
      BY <2>2 DEF HInv, Named, Unborn, Answered, Noted, Promises, RefusedCreateCleans, RemovedMeansGone,
                  DeleteWorks
    <2>4. Owed' = Owed /\ Smooth' = Smooth /\ Removing' = Removing
      BY <2>2 DEF Owed, Smooth, Removing
    <2>5. Turned' = Turned /\ ShadowsGo' = ShadowsGo /\ SubvolumesGo' = SubvolumesGo
      BY <2>2, <2>4 DEF Turned, ShadowsGo, SubvolumesGo
    <2>6. Clearing'
      BY <2>2, <2>4, <2>5 DEF HInv, Clearing
    <2> QED BY <1>1, <2>3, <2>6 DEF HInv
  <1> QED BY <1>2, <1>3, <1>4 DEF Next

\* So every reachable state has it.
THEOREM HandleInvariant == Spec => []HInv
  <1>1. Init => HInv
    <2> SUFFICES ASSUME Init PROVE HInv
      OBVIOUS
    <2>1. /\ op = Idle /\ last = NoCall /\ shadows = {} /\ \A j \in Piece : piece[j] = "none"
      BY DEF Init, HandleInit
    <2>2. Named /\ Unborn /\ Answered /\ Noted /\ Clearing /\ Promises
      BY <2>1, Idles DEF Named, Unborn, Answered, Noted, Clearing, Removing, Promises, RefusedCreateCleans,
                         RemovedMeansGone, DeleteWorks, NoCall
    <2> QED BY <2>2, InitMaps DEF HInv
  <1> QED BY <1>1, NextHInv, PTL DEF Spec

\* A create that is refused leaves neither directory nor shadow copy, unless a
\* second step fails (cleanup in copy.go, btrfs.go and vss.go).
THEOREM RefusedCreatesClean == Spec => []RefusedCreateCleans
  BY HandleInvariant, PTL DEF HInv, Promises

\* A delete that answers without an error has freed all the handle named, on
\* vss when no step of it failed (Delete of the three backends).
THEOREM RemovedIsGone == Spec => []RemovedMeansGone
  BY HandleInvariant, PTL DEF HInv, Promises

\* A delete no step of which fails succeeds, on what any create, delete or
\* crash left, unless the handle is one btrfs cannot free.
THEOREM DeletesWork == Spec => []DeleteWorks
  BY HandleInvariant, PTL DEF HInv, Promises

\* A start that comes up leaves no handle without a row, but for a row it
\* dropped itself or an error vss swallowed (Reconcile in reconcile.go).
THEOREM StartsLeaveNoOrphan == Spec => StartLeavesNoOrphan
  <1>1. ASSUME HInv, Next, phase # "up", phase' = "up", dir', ~row
        PROVE  backend = "vss" /\ op.bad > 0
    <2>1. op \in Call /\ op.bad \in 0..2
      <3>1. op \in Call
        BY <1>1 DEF HInv, RInv, IInv, HandleTypes
      <3> QED BY <3>1, Mores
    <2>2. ~CreateNext
      BY <1>1 DEF CreateNext, StartCreate, TakeCopy, FinishClone, FailClone, TakeSubvolume, TakeShadow,
             FailTake, LoseShadow, Mount, FailMount, OpenManifest, WriteManifest, FailManifest, PutRow,
             FailPutRow, To, Go, CommandFails, Trips, lifeVars
    <2>3. ~LifeNext
      BY <1>1 DEF LifeNext, HangUp, Evict, Crash, Restart, ReconcileRow, ReconcileOrphan, ReconcileClean,
             Go, lifeVars, handleVars
    <2>4. ~RestoreNext /\ ~AgentEdits
      <3>1. RestoreNext => phase' = phase
        BY <1>1, RestoreStays DEF HInv, RInv, StaysIn
      <3>2. AgentEdits => phase' = phase
        BY DEF AgentEdits, engineVars, lifeVars
      <3> QED BY <1>1, <3>1, <3>2
    <2>5. DeleteNext => StopAtMissing \/ ReadOnlyLeft \/ ReturnError
      <3>1. ~(StartDelete \/ DropRow \/ KeepRow \/ FailDropRow \/ RemoveDir)
        BY <1>1 DEF StartDelete, DropRow, KeepRow, FailDropRow, RemoveDir, Begin, CommandFails, Trips, lifeVars
      <3>2. ~(DeleteSubvolume \/ SkipSubvolume \/ StopAtSubvolume \/ Unmount \/ Unmounted)
        BY <1>1 DEF DeleteSubvolume, SkipSubvolume, StopAtSubvolume, Unmount, Unmounted, To, Go,
               CommandFails, Trips, lifeVars
      <3>3. ~(DeleteShadow \/ PiecesDone \/ RemovePart \/ FailRemove)
        BY <1>1 DEF DeleteShadow, PiecesDone, RemovePart, FailRemove, To, Go, CommandFails, Trips, lifeVars
      <3> QED BY <3>1, <3>2, <3>3 DEF DeleteNext
    <2>6. StopAtMissing \/ ReadOnlyLeft \/ ReturnError
      BY <1>1, <2>2, <2>3, <2>4, <2>5 DEF Next, HandleNext
    <2>7. Removing /\ NotRemoved
      BY <2>6 DEF StopAtMissing, ReadOnlyLeft, ReturnError
    <2>8. op.kind = "orphan" /\ op.quiet
      BY <1>1, <2>1, <2>7, RemovalMaps DEF Finishes, Keeping, StaysIn
    <2>9. backend = "vss"
      BY <1>1, <2>8 DEF HInv, RInv, Removes
    <2>10. ReturnError
      BY <2>6, <2>8, <2>9 DEF StopAtMissing, ReadOnlyLeft
    <2>11. ~Smooth
      BY <1>1, <2>7, <2>10 DEF ReturnError, HInv, Clearing, Turned, Taking
    <2> QED BY <2>1, <2>8, <2>9, <2>11 DEF Smooth
  <1>2. HInv /\ [Next]_vars =>
           [phase # "up" /\ phase' = "up" /\ dir' /\ ~row'
               => row \/ (backend = "vss" /\ op.bad > 0)]_engineVars
    BY <1>1 DEF vars
  <1> QED BY <1>2, HandleInvariant, PTL DEF Spec, StartLeavesNoOrphan
==============================================================================
