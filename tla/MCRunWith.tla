------------------------------ MODULE MCRunWith ------------------------------
(***************************************************************************)
(* Model checking instances of RunWith; the constants are in the .cfg      *)
(* files.                                                                  *)
(***************************************************************************)
EXTENDS RunWith

\* The result of an execution: the state is of its type, a return nobody
\* contests was validated, and a failure is called what it is: a timeout
\* exactly after cancellation (lib.rs run_with; the parts are in RunWith).
ResultSound == RunWithTypeOK /\ UncontestedReturnIsValidated /\ FailuresNamed

\* What the host is told, in which order, and by whom (lib.rs run_with,
\* host/mod.rs; the parts are in RunWith).
HostTold == HostProtocol /\ OnlyValidatorsDisagree
=============================================================================
