------------------------------- MODULE MCVfs -------------------------------
(***************************************************************************)
(* Model checking instances of Vfs: two VMs of one pool.                   *)
(***************************************************************************)
EXTENDS Vfs, TLC

CONSTANTS v1, v2

MCVMs == {v1, v2}

MCSizes == {2}

VMSymmetry == Permutations(MCVMs)
=============================================================================
