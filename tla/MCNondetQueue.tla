---------------------------- MODULE MCNondetQueue ----------------------------
(***************************************************************************)
(* Model checking instances of NondetQueue: the constants are in the .cfg  *)
(* files.                                                                  *)
(***************************************************************************)
EXTENDS NondetQueue

(* Nothing waits for ever: await_nondet_vms returns, a send on the channel *)
(* completes, and the workers stop unless the caller is blocked            *)
(* (supervisor/mod.rs await_nondet_vms, submit_nondet_vm_task,             *)
(* nondet_vms_loop; NondetQueue.tla has the parts).                        *)
NobodyWaitsForever == AwaitReturns /\ SendCompletes /\ ShutdownUnlessBlocked
=============================================================================
