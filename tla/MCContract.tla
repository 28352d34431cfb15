----------------------------- MODULE MCContract -----------------------------
(***************************************************************************)
(* Model checking instances of Contract; the constants are in the .cfg     *)
(* files.  The model never tells one sender from another.                  *)
(***************************************************************************)
EXTENDS Contract, TLC

SenderSymmetry == Permutations(Senders)
=============================================================================
