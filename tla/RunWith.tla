------------------------------- MODULE RunWith -------------------------------
(***************************************************************************)
(* One execution of a contract (run_with in executor/src/lib.rs) composed  *)
(* with the queue of validator blocks: the run_nondet calls of the         *)
(* contract in leader, validator and sync mode, the end of its VM, the     *)
(* merge of its result with the verdict of the queue, the override after   *)
(* cancellation, and what the host is told.                                *)
(***************************************************************************)
EXTENDS NondetQueue

VARIABLES
  isSync,    \* SharedData.is_sync
  role,      \* external: what the host answers to get_leader_result
  hostUp,    \* external: the socket to the host works
  trapped,   \* the error a run_nondet call trapped the contract with
  runRes,    \* the result of run_with_impl
  execPc,    \* where run_with is once await_nondet_vms has returned
  merged,    \* the merged result and disagreement
  sawCancel, \* history: what is_cancelled() answered at the merge
  hostLog    \* what the host was sent, in order

execVars == <<isSync, role, hostUp, trapped, runRes, execPc, merged, sawCancel, hostLog>>
allVars == <<vars, execVars>>

Kinds == {"Return", "UserError", "VmError", "Timeout", "Err"}

Messages == [method : {"post", "notify"}, call : Calls, kind : {"-"}]
            \cup [method : {"consume"}, call : {NoCall}, kind : Kinds]

Post(c) == [method |-> "post", call |-> c, kind |-> "-"]
Notification(c) == [method |-> "notify", call |-> c, kind |-> "-"]
Consumed(k) == [method |-> "consume", call |-> NoCall, kind |-> k]

RunWithTypeOK ==
  /\ TypeOK
  /\ isSync \in BOOLEAN
  /\ role \in {"leader", "validator"}
  /\ hostUp \in BOOLEAN
  /\ trapped \in {"no", "VmError", "Err"}
  /\ runRes \in Kinds \cup {"none"}
  /\ execPc \in {"executing", "notify", "consume", "exited"}
  /\ merged \in [kind : Kinds \cup {"none"}, call : Calls \cup {NoCall}]
  /\ sawCancel \in BOOLEAN
  /\ hostLog \in Seq(Messages)

RunInit ==
  /\ Init
  /\ isSync \in BOOLEAN
  /\ role \in {"leader", "validator"}
  /\ hostUp = TRUE
  /\ trapped = "no"
  /\ runRes = "none"
  /\ execPc = "executing"
  /\ merged = [kind |-> "none", call |-> NoCall]
  /\ sawCancel = FALSE
  /\ hostLog = <<>>

-----------------------------------------------------------------------------
\* run_nondet

\* set_vm_run_result: a VMError of the block traps the caller, the other
\* results become file contents the contract reads.
DeliverResult(kind) == trapped' = IF kind = "VmError" THEN "VmError" ELSE "no"

\* get_leader_result fails: a host error code is a VMError, a broken socket
\* an internal error.  The call number is spent.
LeaderResultFails ==
  /\ trapped = "no"
  /\ CallInline
  /\ trapped' = IF hostUp THEN "VmError" ELSE "Err"
  /\ UNCHANGED <<isSync, role, hostUp, runRes, execPc, merged, sawCancel, hostLog>>

\* Sync mode replays the leader's result; without one it traps.
SyncCall ==
  /\ trapped = "no" /\ hostUp /\ isSync
  /\ CallInline
  /\ \/ role = "leader" /\ trapped' = "Err"
     \/ role = "validator" /\ \E k \in {"Return", "UserError", "VmError"} : DeliverResult(k)
  /\ UNCHANGED <<isSync, role, hostUp, runRes, execPc, merged, sawCancel, hostLog>>

\* The leader runs the block now and posts its result to the host; the post
\* is refused with a host error code or lost with the socket.
LeaderCall ==
  /\ trapped = "no" /\ ~isSync /\ role = "leader"
  /\ CallInline
  /\ \/ trapped' = "Err" /\ UNCHANGED hostLog
     \/ /\ hostUp
        /\ hostLog' = Append(hostLog, Post(nextCall))
        /\ \E k \in {"Return", "UserError", "VmError"} : DeliverResult(k)
     \/ hostUp /\ trapped' = "VmError" /\ hostLog' = Append(hostLog, Post(nextCall))
  /\ UNCHANGED <<isSync, role, hostUp, runRes, execPc, merged, sawCancel>>

\* A validator submits its block and goes on with the leader's result.
ValidatorCall ==
  /\ trapped = "no" /\ hostUp /\ ~isSync /\ role = "validator"
  /\ Submit
  /\ \E k \in {"Return", "UserError", "VmError"} : DeliverResult(k)
  /\ UNCHANGED <<isSync, role, hostUp, runRes, execPc, merged, sawCancel, hostLog>>

\* VM::run and run_with_impl return.  After cancellation VM::run reports a
\* VMError, and an internal error from inside the VM, as the timeout; errors
\* from before the VM runs stay internal errors.
ContractEnds ==
  /\ Close
  /\ \/ /\ trapped = "no"
        /\ \/ runRes' \in {"Return", "UserError", "Err"}
           \/ ~cancelled /\ runRes' = "VmError"
           \/ cancelled /\ runRes' = "Timeout"
     \/ /\ trapped # "no"
        /\ runRes' = IF cancelled THEN "Timeout" ELSE trapped
  /\ UNCHANGED <<isSync, role, hostUp, trapped, execPc, merged, sawCancel, hostLog>>

-----------------------------------------------------------------------------
\* run_with

\* The contract's error wins over the queue's, which wins over a result.
MergedResult ==
  IF runRes = "Err" \/ result.tag = "err"
  THEN [kind |-> "Err", call |-> NoCall]
  ELSE [kind |-> runRes, call |-> result.call]

\* Mutant: the results are not looked at again after cancellation.
NoOverride(m) == m

\* After cancellation a VMError says timeout and an error becomes one; any
\* other result is kept with its disagreement.
AfterCancellation(m) ==
  CASE m.kind = "VmError" -> [m EXCEPT !.kind = "Timeout"]
    [] m.kind = "Err" -> [kind |-> "Timeout", call |-> NoCall]
    [] OTHER -> m

Merge ==
  /\ mainPc = "done"
  /\ execPc = "executing"
  /\ sawCancel' = cancelled
  /\ merged' = IF cancelled THEN AfterCancellation(MergedResult) ELSE MergedResult
  /\ execPc' = IF merged'.call # NoCall THEN "notify" ELSE "consume"
  /\ UNCHANGED <<vars, isSync, role, hostUp, trapped, runRes, hostLog>>

\* Both host calls are followed by `?`: with a broken socket run_with leaves
\* without telling the host anything more.
NotifyDisagreement ==
  /\ execPc = "notify"
  /\ IF hostUp
     THEN execPc' = "consume" /\ hostLog' = Append(hostLog, Notification(merged.call))
     ELSE execPc' = "exited" /\ UNCHANGED hostLog
  /\ UNCHANGED <<vars, isSync, role, hostUp, trapped, runRes, merged, sawCancel>>

\* Mutant: the result is sent first, the disagreement after it.
ConsumeThenNotify ==
  /\ execPc = "consume"
  /\ hostLog' = Append(hostLog, Consumed(merged.kind))
  /\ execPc' = IF merged.call # NoCall THEN "notify" ELSE "exited"
  /\ UNCHANGED <<vars, isSync, role, hostUp, trapped, runRes, merged, sawCancel>>

ConsumeResult ==
  /\ execPc = "consume"
  /\ IF hostUp
     THEN hostLog' = Append(hostLog, Consumed(merged.kind))
     ELSE UNCHANGED hostLog
  /\ execPc' = "exited"
  /\ UNCHANGED <<vars, isSync, role, hostUp, trapped, runRes, merged, sawCancel>>

HostDies ==
  /\ hostUp
  /\ hostUp' = FALSE
  /\ UNCHANGED <<vars, isSync, role, trapped, runRes, execPc, merged, sawCancel, hostLog>>

QueueStep ==
  /\ Cancel \/ Send \/ AwaitStep \/ \E w \in Workers : WorkerStep(w)
  /\ UNCHANGED execVars

RunNext ==
  \/ LeaderResultFails \/ SyncCall \/ LeaderCall \/ ValidatorCall \/ ContractEnds
  \/ QueueStep
  \/ Merge \/ NotifyDisagreement \/ ConsumeResult \/ HostDies

RunSpec == RunInit /\ [][RunNext]_allVars

-----------------------------------------------------------------------------
\* Properties

Sent(m) == \E i \in DOMAIN hostLog : hostLog[i] = m

\* The host hears of a contract's success, without a disagreement, only when
\* every validator block agreed (executions nobody cancelled).
UncontestedReturnIsValidated ==
  (~cancelled /\ Sent(Consumed("Return")) /\ ~ \E c \in Calls : Sent(Notification(c)))
     => \A c \in Submitted : fate[c] = "agree"

\* The same, cancelled or not: "Executes validator functions to verify
\* leader results".
ReturnIsValidated ==
  (Sent(Consumed("Return")) /\ ~ \E c \in Calls : Sent(Notification(c)))
     => \A c \in Submitted : fate[c] = "agree"

\* The contract or a validator block met an internal error.
ErrorMet == runRes = "Err" \/ \E c \in Calls : fate[c] = "error"

\* What a failed execution is called hangs on whether it was cancelled when the
\* results were merged.  If it was, no internal error and no VMError of the
\* contract is left: every failure is a timeout and nothing else is.  If it was
\* not, whoever met an internal error it is reported, and nothing is a timeout.
\* A value or a VMError is the contract's own, and an error, even one renamed,
\* never comes with a disagreement.
FailuresNamed ==
  execPc # "executing" =>
    /\ IF sawCancel
       THEN /\ merged.kind \notin {"Err", "VmError"}
            /\ merged.kind = "Timeout" <=> ErrorMet \/ runRes \in {"VmError", "Timeout"}
       ELSE /\ merged.kind = "Err" <=> ErrorMet
            /\ merged.kind # "Timeout"
    /\ merged.kind \in {"Return", "UserError", "VmError"} => merged.kind = runRes
    /\ ErrorMet => merged.call = NoCall

\* Host protocol: the result is the last thing the host is sent and is sent
\* once; a disagreement comes right before it; leader results come in the
\* order of their calls, once each; one execution never both posts results
\* and disagrees.
HostProtocol ==
  \A i, j \in DOMAIN hostLog : i < j =>
    /\ hostLog[i].method # "consume"
    /\ hostLog[i].method = "notify" => hostLog[j].method = "consume" /\ j = Len(hostLog)
    /\ (hostLog[i].method = "post" /\ hostLog[j].method = "post")
          => hostLog[i].call < hostLog[j].call
    /\ hostLog[j].method = "notify" => hostLog[i].method # "post"

\* Only a validator's execution starts validator blocks or reports a
\* disagreement: in leader and sync mode the queue stays empty.
OnlyValidatorsDisagree ==
  (isSync \/ role = "leader") => Submitted = {} /\ merged.call = NoCall

-----------------------------------------------------------------------------
\* The inductive invariant behind the safety properties; it stands on IndInv
\* of the queue.

\* The contract has a result once its VM has ended, run_with goes on once
\* await_nondet_vms has returned, and a disagreement is what leads to "notify".
PhaseInv ==
  /\ closed <=> runRes # "none"
  /\ execPc # "executing" => mainPc = "done"
  /\ execPc = "executing" <=> merged.kind = "none"
  /\ execPc = "executing" => merged.call = NoCall
  /\ execPc = "notify" => merged.call # NoCall
  /\ runRes = "Timeout" => cancelled

\* The merged result is the one computed from the two results, overridden
\* exactly when cancellation was seen; a contract that timed out had been
\* cancelled before that.
MergedInv ==
  execPc # "executing" =>
    /\ merged = IF sawCancel THEN AfterCancellation(MergedResult) ELSE MergedResult
    /\ sawCancel => cancelled
    /\ runRes = "Timeout" => sawCancel

\* Every message the host was sent belongs to what the execution has done: a
\* posted result to a call of the leader, a notification to the merged
\* disagreement, the result to the end, after the notification if there is one.
LogInv ==
  /\ \A i \in DOMAIN hostLog :
       /\ hostLog[i].method = "post" => /\ hostLog[i].call < nextCall
                                       /\ role = "leader" /\ ~isSync
       /\ hostLog[i].method = "notify" => execPc \in {"consume", "exited"}
       /\ hostLog[i].method = "consume" => execPc = "exited" /\ hostLog[i].kind = merged.kind
  /\ (merged.call # NoCall /\ (execPc = "consume" \/ Sent(Consumed(merged.kind))))
        => Sent(Notification(merged.call))

RunInv ==
  /\ RunWithTypeOK /\ PhaseInv /\ MergedInv
  /\ LogInv /\ HostProtocol /\ OnlyValidatorsDisagree
=============================================================================
