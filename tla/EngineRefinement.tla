-------------------------- MODULE EngineRefinement --------------------------
(***************************************************************************)
(* The calls on a handle, command by command, implement HandleContract: a  *)
(* handle is whole when its manifest is and every source has its part, for *)
(* vss with the shadow copy behind it.                                     *)
(***************************************************************************)
EXTENDS EngineRestore

Complete ==
    /\ manifest = "whole" /\ \A i \in Piece : piece[i] = "whole"
    /\ backend = "vss" => Exists

OnDisk == IF ~dir THEN "absent" ELSE IF Complete THEN "whole" ELSE "parts"

LifeStage ==
    CASE ~born -> "new"
      [] op.kind = "create" -> IF op.pc = "put" THEN "created" ELSE "creating"
      [] OTHER -> "spent"

Contract == INSTANCE HandleContract WITH
    provider <- backend = "vss", stage <- LifeStage, disk <- OnDisk, serving <- phase = "up"

\* The service sees nothing of a handle but what HandleContract says.
ImplementsContract == Contract!Spec
=============================================================================
