-------------------------- MODULE MCSnapshotService --------------------------
(***************************************************************************)
(* SnapshotService on small instances.                                     *)
(***************************************************************************)
EXTENDS SnapshotServiceRefinement, TLC

\* Requests are interchangeable, and so are worksets.  Used with safety
\* properties only.
Symmetry == Permutations(Clients) \union Permutations(Worksets)
==============================================================================
