------------------------------ MODULE MCEngine ------------------------------
EXTENDS EngineRefinement

\* The backends of the instances: all three that can make a handle, or btrfs.
MCAll == {"copy", "btrfs", "vss"}
MCBtrfs == {"btrfs"}

\* Two sources, the first a subvolume of its own.
MCSwappable == {1}
=============================================================================
