---------------------------- MODULE RunWithProofs ----------------------------
(***************************************************************************)
(* Proofs about one whole execution: the queue's invariant carries over to *)
(* run_with, and with it what the result of an execution means and what    *)
(* the host is told, for every number of calls and every channel capacity. *)
(* Last, what it means that a validator's block agrees.                    *)
(***************************************************************************)
EXTENDS MCRunWith, NondetQueueProofs

\* Every step of run_with is a step of the queue or leaves the queue alone.
LEMMA RunStepIsQueueStep == [RunNext]_allVars => [Next]_vars
<1>1. CASE LeaderResultFails \/ SyncCall \/ LeaderCall
  BY <1>1 DEF LeaderResultFails, SyncCall, LeaderCall, Next
<1>2. CASE ValidatorCall
  BY <1>2 DEF ValidatorCall, Next
<1>3. CASE ContractEnds
  BY <1>3 DEF ContractEnds, Next
<1>4. CASE QueueStep
  BY <1>4 DEF QueueStep, Next
<1>5. CASE Merge \/ NotifyDisagreement \/ ConsumeResult \/ HostDies
  BY <1>5 DEF Merge, NotifyDisagreement, ConsumeResult, HostDies
<1>6. CASE UNCHANGED allVars
  BY <1>6 DEF allVars
<1> QED
  BY <1>1, <1>2, <1>3, <1>4, <1>5, <1>6 DEF RunNext

\* An execution is a behaviour of the queue, so the queue's invariant holds.
LEMMA QueueInside == RunSpec => []IndInv
<1>1. RunInit => Init
  BY DEF RunInit
<1> QED
  BY <1>1, RunStepIsQueueStep, Inductive, PTL DEF RunSpec, Spec

-----------------------------------------------------------------------------
\* What a step of the queue leaves alone.

\* No step of a worker or of await_nondet_vms submits a task or takes the
\* submission of one back.
LEMMA SubmittedStable ==
  ASSUME IndInv, Cancel \/ Send \/ AwaitStep \/ \E w \in Workers : WorkerStep(w)
  PROVE  Submitted' = Submitted /\ nextCall' = nextCall
<1> USE DEF IndInv
<1>0. fate \in [Calls -> Fates]
  BY DEF TypeOK
<1>1. CASE Cancel \/ Send \/ AwaitStep
  BY <1>1 DEF Cancel, Send, AwaitStep, DropOwnCount, CheckEmpty, SecondaryReturned, Collect,
              mainVars, verdictVars, Submitted
<1>2. ASSUME NEW w \in Workers, WorkerStep(w) PROVE Submitted' = Submitted /\ nextCall' = nextCall
  <2>1. UNCHANGED nextCall
    BY <1>2 DEF WorkerStep, Park, StopCancelled, StopCountdown, StopDrained, Receive, Skip,
                StartRun, FinishRun, Release, mainVars
  <2>2. CASE Skip(w) \/ FinishRun(w)
    <3>1. task[w] \in Calls /\ fate[task[w]] = "queued"
      BY <2>2 DEF Skip, FinishRun, ControlInv, Holds, OrderInv, InHand
    <3>2. \E f \in Fates \ {"unsubmitted"} : fate' = [fate EXCEPT ![task[w]] = f]
      BY <2>2 DEF Skip, FinishRun, Fates
    <3>3. \A c \in Calls : fate'[c] = "unsubmitted" <=> fate[c] = "unsubmitted"
      BY <1>0, <3>1, <3>2
    <3> QED
      BY <2>1, <3>3 DEF Submitted
  <2>3. CASE ~(Skip(w) \/ FinishRun(w))
    <3>1. UNCHANGED fate
      BY <1>2, <2>3 DEF WorkerStep, Park, StopCancelled, StopCountdown, StopDrained, Receive,
                        StartRun, Release, verdictVars
    <3> QED
      BY <2>1, <3>1 DEF Submitted
  <2> QED
    BY <2>2, <2>3
<1> QED
  BY <1>1, <1>2

\* Once await_nondet_vms has returned, its result stands and so does the fate
\* of every task: both workers have left.
LEMMA DoneIsFinal ==
  ASSUME IndInv, mainPc = "done",
         Cancel \/ Send \/ AwaitStep \/ \E w \in Workers : WorkerStep(w)
  PROVE  UNCHANGED <<mainPc, result, fate>>
<1>1. \A w \in Workers : workerPc[w] \in {"idle", "gone"}
  BY DEF IndInv, StopInv, ReadGuards
<1>2. ASSUME NEW w \in Workers, WorkerStep(w) PROVE FALSE
  BY <1>1, <1>2 DEF WorkerStep, Park, StopCancelled, StopCountdown, StopDrained, Receive, Skip,
                    StartRun, FinishRun, Release, Selecting
<1>3. ~Send /\ ~AwaitStep
  BY DEF Send, AwaitStep, DropOwnCount, CheckEmpty, SecondaryReturned, Collect
<1> QED
  BY <1>2, <1>3 DEF Cancel, mainVars, verdictVars

\* The contract's side of the queue is closed for good.
LEMMA ClosedStable ==
  ASSUME IndInv, Cancel \/ Send \/ AwaitStep \/ \E w \in Workers : WorkerStep(w)
  PROVE  closed' <=> closed
<1>1. CASE Cancel \/ Send \/ AwaitStep
  BY <1>1 DEF Cancel, Send, AwaitStep, DropOwnCount, CheckEmpty, SecondaryReturned, Collect,
              mainVars, closed
<1>2. ASSUME NEW w \in Workers, WorkerStep(w) PROVE closed' <=> closed
  BY <1>2 DEF WorkerStep, Park, StopCancelled, StopCountdown, StopDrained, Receive, Skip,
              StartRun, FinishRun, Release, mainVars, closed
<1> QED
  BY <1>1, <1>2

\* Cancellation is never withdrawn.
LEMMA CancelledStable == ASSUME IndInv, [RunNext]_allVars PROVE cancelled => cancelled'
<1>1. ASSUME NEW w \in Workers, WorkerStep(w) PROVE cancelled' = cancelled
  BY <1>1 DEF WorkerStep, Park, StopCancelled, StopCountdown, StopDrained, Receive, Skip,
              StartRun, FinishRun, Release
<1>2. CASE QueueStep
  BY <1>1, <1>2 DEF QueueStep, Cancel, Send, AwaitStep, DropOwnCount, CheckEmpty,
              SecondaryReturned, Collect
<1>3. CASE UNCHANGED allVars
  BY <1>3 DEF allVars, vars
<1>4. CASE LeaderResultFails \/ SyncCall \/ LeaderCall
  BY <1>4 DEF LeaderResultFails, SyncCall, LeaderCall, CallInline
<1>5. CASE ValidatorCall
  BY <1>5 DEF ValidatorCall, Submit
<1>6. CASE ContractEnds
  BY <1>6 DEF ContractEnds, Close
<1>7. CASE Merge \/ NotifyDisagreement \/ ConsumeResult \/ HostDies
  BY <1>7 DEF Merge, NotifyDisagreement, ConsumeResult, HostDies, vars
<1> QED
  BY <1>2, <1>3, <1>4, <1>5, <1>6, <1>7 DEF RunNext
-----------------------------------------------------------------------------
\* The inductive invariant of run_with.

\* An execution starts with nothing sent and nothing merged.
LEMMA RunInvInit == RunInit => RunInv
<1> SUFFICES ASSUME RunInit PROVE RunInv
  OBVIOUS
<1>1. TypeOK /\ mainPc = "running" /\ Submitted = {} /\ cancelled = FALSE
  BY BaseInit DEF RunInit, Init, BaseInv, Submitted
<1>2. RunWithTypeOK
  <2>1. sawCancel \in BOOLEAN /\ hostUp \in BOOLEAN /\ isSync \in BOOLEAN
    BY DEF RunInit
  <2>2. hostLog \in Seq(Messages) /\ trapped \in {"no", "VmError", "Err"} /\ runRes \in Kinds \cup {"none"}
    BY DEF RunInit
  <2>3. merged \in [kind : Kinds \cup {"none"}, call : Calls \cup {NoCall}]
    BY DEF RunInit
  <2> QED
    BY <1>1, <2>1, <2>2, <2>3 DEF RunInit, RunWithTypeOK
<1>3. PhaseInv /\ MergedInv
  BY <1>1 DEF RunInit, PhaseInv, MergedInv, closed
<1>4. LogInv /\ HostProtocol /\ OnlyValidatorsDisagree
  BY <1>1 DEF RunInit, LogInv, HostProtocol, OnlyValidatorsDisagree
<1> QED
  BY <1>2, <1>3, <1>4 DEF RunInv

\* A run_nondet call that leaves the queue alone: the leader's, the one in sync
\* mode, and the one whose leader result cannot be fetched.
LEMMA InlineKeeps ==
  ASSUME IndInv, IndInv', RunInv, LeaderResultFails \/ SyncCall \/ LeaderCall
  PROVE  RunInv'
<1> USE DEF RunInv
<1>1. /\ mainPc = "running" /\ mainPc' = mainPc /\ nextCall \in Nat /\ nextCall' = nextCall + 1
      /\ nextCall \in Calls
      /\ UNCHANGED <<isSync, role, hostUp, runRes, execPc, merged, sawCancel, cancelled, result, fate>>
      /\ trapped' \in {"no", "VmError", "Err"}
  BY QueueAssumption DEF LeaderResultFails, SyncCall, LeaderCall, CallInline, DeliverResult, RunWithTypeOK,
         TypeOK, verdictVars, Calls
<1>2. execPc = "executing" /\ merged.call = NoCall
  BY <1>1 DEF PhaseInv, RunWithTypeOK
<1>3. /\ hostLog \in Seq(Messages)
      /\ \/ hostLog' = hostLog
         \/ role = "leader" /\ ~isSync /\ hostLog' = Append(hostLog, Post(nextCall))
  BY DEF LeaderResultFails, SyncCall, LeaderCall, RunWithTypeOK
<1>4. Post(nextCall) \in Messages
  BY <1>1 DEF Post, Messages
<1>5. RunWithTypeOK'
  BY <1>1, <1>3, <1>4 DEF RunWithTypeOK, IndInv
<1>6. PhaseInv' /\ MergedInv' /\ OnlyValidatorsDisagree'
  BY <1>1, <1>2 DEF PhaseInv, MergedInv, OnlyValidatorsDisagree, closed, Submitted
<1>7. LogInv' /\ HostProtocol'
  <2>1. CASE hostLog' = hostLog
    <3>0. \A i \in DOMAIN hostLog : hostLog[i].method = "post" => hostLog[i].call \in Nat
      BY <1>3, QueueAssumption DEF Messages, Calls
    <3>1. HostProtocol'
      BY <2>1 DEF HostProtocol
    <3>2. LogInv'
      BY <1>1, <1>2, <2>1, <3>0 DEF LogInv, Sent
    <3> QED
      BY <3>1, <3>2
  <2>2. CASE role = "leader" /\ ~isSync /\ hostLog' = Append(hostLog, Post(nextCall))
    <3>0. \A i \in DOMAIN hostLog : /\ hostLog[i].method = "post" => hostLog[i].call \in Nat
                                    /\ hostLog[i].method \in {"post", "notify", "consume"}
      BY <1>3, QueueAssumption DEF Messages, Calls
    <3>1. \A i \in DOMAIN hostLog : hostLog[i].method = "post" /\ hostLog[i].call < nextCall
      BY <1>2, <3>0 DEF LogInv
    <3>2. /\ DOMAIN hostLog = 1 .. Len(hostLog) /\ Len(hostLog) \in Nat
          /\ Len(hostLog') = Len(hostLog) + 1 /\ DOMAIN hostLog' = 1 .. Len(hostLog) + 1
          /\ \A i \in DOMAIN hostLog : hostLog'[i] = hostLog[i]
          /\ hostLog'[Len(hostLog) + 1] = Post(nextCall)
      BY <1>3, <1>4, <2>2
    <3>3. \A i \in DOMAIN hostLog' :
            /\ hostLog'[i].method = "post" /\ hostLog'[i].call < nextCall + 1
            /\ i \in DOMAIN hostLog => hostLog'[i].call < nextCall
      BY <1>1, <3>0, <3>1, <3>2 DEF Post
    <3>4. HostProtocol'
      <4> SUFFICES ASSUME NEW i \in DOMAIN hostLog', NEW j \in DOMAIN hostLog', i < j
                   PROVE  hostLog'[i].call < hostLog'[j].call
        BY <3>3 DEF HostProtocol
      <4>1. i \in DOMAIN hostLog
        BY <3>2
      <4>2. CASE j \in DOMAIN hostLog
        BY <3>1, <3>2, <4>1, <4>2 DEF HostProtocol
      <4>3. CASE j = Len(hostLog) + 1
        BY <3>1, <3>2, <4>1, <4>3 DEF Post
      <4> QED
        BY <3>2, <4>2, <4>3
    <3>5. LogInv'
      BY <1>1, <1>2, <2>2, <3>3 DEF LogInv
    <3> QED
      BY <3>4, <3>5
  <2> QED
    BY <1>3, <2>1, <2>2
<1> QED
  BY <1>5, <1>6, <1>7

\* A validator's call submits a block: only validators do.
LEMMA ValidatorCallKeeps == ASSUME IndInv, IndInv', RunInv, ValidatorCall PROVE RunInv'
<1> USE DEF RunInv
<1>1. /\ mainPc = "running" /\ mainPc' = "sending" /\ nextCall \in Nat /\ nextCall' = nextCall + 1
      /\ ~isSync /\ role = "validator"
      /\ UNCHANGED <<isSync, role, hostUp, runRes, execPc, merged, sawCancel, hostLog, cancelled, result>>
      /\ trapped' \in {"no", "VmError", "Err"}
  BY QueueAssumption DEF ValidatorCall, Submit, DeliverResult, RunWithTypeOK, TypeOK
<1>2. execPc = "executing" /\ merged.call = NoCall
  BY <1>1 DEF PhaseInv, RunWithTypeOK
<1>3. RunWithTypeOK'
  BY <1>1 DEF RunWithTypeOK, IndInv
<1>4. PhaseInv' /\ MergedInv' /\ OnlyValidatorsDisagree'
  BY <1>1, <1>2 DEF PhaseInv, MergedInv, OnlyValidatorsDisagree, closed
<1>5. LogInv' /\ HostProtocol'
  BY <1>1, <1>2 DEF LogInv, HostProtocol, Sent
<1> QED
  BY <1>3, <1>4, <1>5

\* The contract ends: its result is recorded, a timeout only after cancellation.
LEMMA ContractEndsKeeps == ASSUME IndInv, IndInv', RunInv, ContractEnds PROVE RunInv'
<1> USE DEF RunInv
<1>1. /\ mainPc = "running" /\ mainPc' = "closed"
      /\ UNCHANGED <<nextCall, isSync, role, hostUp, trapped, execPc, merged, sawCancel, hostLog, cancelled,
                     result, fate>>
      /\ runRes' \in Kinds /\ (runRes' = "Timeout" => cancelled)
  BY DEF ContractEnds, Close, RunWithTypeOK, TypeOK, Kinds, verdictVars
<1>2. execPc = "executing" /\ merged.call = NoCall
  BY <1>1 DEF PhaseInv, RunWithTypeOK
<1>3. RunWithTypeOK'
  BY <1>1 DEF RunWithTypeOK, IndInv
<1>4. PhaseInv' /\ MergedInv' /\ OnlyValidatorsDisagree'
  BY <1>1, <1>2 DEF PhaseInv, MergedInv, OnlyValidatorsDisagree, closed, Kinds, Submitted
<1>5. LogInv' /\ HostProtocol'
  BY <1>1 DEF LogInv, HostProtocol, Sent
<1> QED
  BY <1>3, <1>4, <1>5

\* The queue moves on: nothing the host was told, and nothing merged, depends
\* on anything that still changes.
LEMMA QueueStepKeeps == ASSUME IndInv, IndInv', RunInv, QueueStep PROVE RunInv'
<1> USE DEF RunInv
<1>1. /\ UNCHANGED execVars
      /\ Cancel \/ Send \/ AwaitStep \/ \E w \in Workers : WorkerStep(w)
  BY DEF QueueStep
<1>2. UNCHANGED <<isSync, role, hostUp, trapped, runRes, execPc, merged, sawCancel, hostLog>>
  BY <1>1 DEF execVars
<1>3. Submitted' = Submitted /\ nextCall' = nextCall
  BY <1>1, SubmittedStable
<1>4. closed' <=> closed
  BY <1>1, ClosedStable
<1>5. cancelled => cancelled'
  BY CancelledStable DEF RunNext
<1>6. mainPc = "done" => UNCHANGED <<mainPc, result, fate>>
  BY <1>1, DoneIsFinal
<1>7. RunWithTypeOK'
  BY <1>2 DEF RunWithTypeOK, IndInv
<1>8. PhaseInv'
  BY <1>2, <1>4, <1>5, <1>6 DEF PhaseInv
<1>9. MergedInv'
  BY <1>2, <1>5, <1>6 DEF MergedInv, PhaseInv, MergedResult, AfterCancellation
<1>10. LogInv' /\ HostProtocol' /\ OnlyValidatorsDisagree'
  BY <1>2, <1>3 DEF LogInv, HostProtocol, OnlyValidatorsDisagree, Sent
<1> QED
  BY <1>7, <1>8, <1>9, <1>10
\* What the override after cancellation does to a merged result: a failure
\* becomes the timeout, an internal error loses its disagreement with it, and
\* any other result is kept.
LEMMA AfterCancellationIs ==
  ASSUME NEW m \in [kind : Kinds, call : Calls \cup {NoCall}]
  PROVE  /\ m.kind = "VmError" => AfterCancellation(m) = [kind |-> "Timeout", call |-> m.call]
         /\ m.kind = "Err" => AfterCancellation(m) = [kind |-> "Timeout", call |-> NoCall]
         /\ m.kind \notin {"VmError", "Err"} => AfterCancellation(m) = m
<1>1. ASSUME m.kind = "VmError" PROVE AfterCancellation(m) = [kind |-> "Timeout", call |-> m.call]
  <2>1. m.kind # "Err"
    BY <1>1
  <2>2. AfterCancellation(m) = [m EXCEPT !.kind = "Timeout"]
    BY <1>1, <2>1, Zenon DEF AfterCancellation
  <2>3. [m EXCEPT !.kind = "Timeout"] = [kind |-> "Timeout", call |-> m.call]
    OBVIOUS
  <2> QED
    BY <2>2, <2>3
<1>2. ASSUME m.kind = "Err" PROVE AfterCancellation(m) = [kind |-> "Timeout", call |-> NoCall]
  <2>1. m.kind # "VmError"
    BY <1>2
  <2> QED
    BY <1>2, <2>1, Zenon DEF AfterCancellation
<1>3. ASSUME m.kind \notin {"VmError", "Err"} PROVE AfterCancellation(m) = m
  BY <1>3, Zenon DEF AfterCancellation
<1> QED
  BY <1>1, <1>2, <1>3

\* What the merge computes once await_nondet_vms has returned: a result with a
\* call number is a disagreement the queue reported and no error.
LEMMA MergedResultIs ==
  ASSUME IndInv, RunInv, mainPc = "done"
  PROVE  /\ MergedResult \in [kind : Kinds, call : Calls \cup {NoCall}]
         /\ MergedResult.call # NoCall => result.tag = "ok" /\ MergedResult.call = result.call
         /\ MergedResult.kind = "Err" => MergedResult.call = NoCall
         /\ MergedResult.kind = "Err" <=> runRes = "Err" \/ result.tag = "err"
         /\ MergedResult.kind = "Timeout" => cancelled
         /\ (isSync \/ role = "leader") => MergedResult.call = NoCall
<1> USE DEF IndInv, RunInv
<1>1. runRes \in Kinds /\ (runRes = "Timeout" => cancelled)
  BY DEF RunWithTypeOK, PhaseInv, closed
<1>2. /\ result \in Results /\ result.tag \in {"ok", "err"}
      /\ result.tag = "ok" => result.call = disagree
  BY DEF TypeOK, StopInv
<1>3. MergedResult \in [kind : Kinds, call : Calls \cup {NoCall}]
  BY <1>1, <1>2 DEF MergedResult, Results, Kinds
<1>4. /\ MergedResult.call # NoCall => result.tag = "ok" /\ MergedResult.call = result.call
      /\ MergedResult.kind = "Err" => MergedResult.call = NoCall
      /\ MergedResult.kind = "Err" <=> runRes = "Err" \/ result.tag = "err"
      /\ MergedResult.kind = "Timeout" => cancelled
  BY <1>1, <1>2 DEF MergedResult
<1>5. ASSUME isSync \/ role = "leader" PROVE MergedResult.call = NoCall
  <2>1. Submitted = {}
    BY <1>5 DEF OnlyValidatorsDisagree
  <2>2. disagree \in Calls => fate[disagree] = "disagree" \/ disagree = NoCall
    BY DEF VerdictInv
  <2>3. disagree = NoCall
    BY <2>1, <2>2 DEF Submitted, TypeOK
  <2> QED
    BY <1>2, <1>4, <2>3
<1> QED
  BY <1>3, <1>4, <1>5

\* The merge: two results become one, overridden if the execution is cancelled.
LEMMA MergeKeeps == ASSUME IndInv, IndInv', RunInv, Merge PROVE RunInv'
<1> USE DEF RunInv
<1> DEFINE Over == AfterCancellation(MergedResult)
<1>1. /\ mainPc = "done" /\ mainPc' = "done" /\ execPc = "executing"
      /\ merged' = IF cancelled THEN Over ELSE MergedResult
      /\ sawCancel' = cancelled /\ cancelled \in BOOLEAN
      /\ (runRes = "Timeout" => cancelled)
      /\ execPc' = IF merged'.call # NoCall THEN "notify" ELSE "consume"
      /\ UNCHANGED <<nextCall, isSync, role, hostUp, trapped, runRes, hostLog, cancelled, result, fate>>
  BY DEF Merge, vars, IndInv, TypeOK, PhaseInv
<1>2. /\ MergedResult \in [kind : Kinds, call : Calls \cup {NoCall}]
      /\ MergedResult.kind = "Timeout" => cancelled
      /\ (isSync \/ role = "leader") => MergedResult.call = NoCall
  BY <1>1, MergedResultIs
<1>3. /\ Over \in [kind : Kinds, call : Calls \cup {NoCall}]
      /\ Over.call # NoCall => Over.call = MergedResult.call
  BY <1>2, AfterCancellationIs DEF Kinds
<1> HIDE DEF Over
<1>4. /\ merged' \in [kind : Kinds, call : Calls \cup {NoCall}]
      /\ (isSync \/ role = "leader") => merged'.call = NoCall
  BY <1>1, <1>2, <1>3
<1>5. RunWithTypeOK'
  BY <1>1, <1>4 DEF RunWithTypeOK, IndInv, Kinds
<1>6. PhaseInv'
  BY <1>1, <1>4 DEF PhaseInv, closed, Kinds
<1>7. MergedInv'
  <2>1. MergedResult' = MergedResult
    BY <1>1 DEF MergedResult
  <2>2. Over' = AfterCancellation(MergedResult')
    BY DEF Over, AfterCancellation
  <2>3. Over' = Over
    BY <2>1, <2>2 DEF Over
  <2> QED
    BY <1>1, <2>1, <2>3 DEF MergedInv, Over
<1>8. OnlyValidatorsDisagree'
  BY <1>1, <1>4 DEF OnlyValidatorsDisagree, Submitted
<1>9. HostProtocol'
  BY <1>1 DEF HostProtocol
<1>10. LogInv'
  <2>1. \A i \in DOMAIN hostLog : hostLog[i].method \notin {"notify", "consume"}
    BY <1>1 DEF LogInv
  <2>2. ~ Sent(Consumed(merged.kind))'
    BY <1>1, <2>1 DEF Sent, Consumed
  <2>3. execPc' = "consume" => merged'.call = NoCall
    BY <1>1
  <2> QED
    BY <1>1, <2>1, <2>2, <2>3 DEF LogInv
<1> QED
  BY <1>5, <1>6, <1>7, <1>8, <1>9, <1>10
\* The disagreement is told before the result, by a validator that posted
\* nothing.
LEMMA NotifyKeeps == ASSUME IndInv, IndInv', RunInv, NotifyDisagreement PROVE RunInv'
<1> USE DEF RunInv
<1>1. /\ execPc = "notify" /\ hostLog \in Seq(Messages) /\ merged.call # NoCall
      /\ merged.call \in Calls
      /\ UNCHANGED <<mainPc, nextCall, isSync, role, hostUp, trapped, runRes, merged, sawCancel, cancelled,
                     result, fate>>
      /\ \/ execPc' = "consume" /\ hostLog' = Append(hostLog, Notification(merged.call))
         \/ execPc' = "exited" /\ UNCHANGED hostLog
  BY DEF NotifyDisagreement, vars, RunWithTypeOK, PhaseInv
<1>2. Notification(merged.call) \in Messages
  BY <1>1 DEF Notification, Messages
<1>3. RunWithTypeOK'
  BY <1>1, <1>2 DEF RunWithTypeOK, IndInv
<1>4. PhaseInv' /\ MergedInv' /\ OnlyValidatorsDisagree'
  BY <1>1 DEF PhaseInv, MergedInv, OnlyValidatorsDisagree, closed, Submitted, MergedResult,
              AfterCancellation
<1>5. hostLog = <<>>
  <2>1. \A i \in DOMAIN hostLog : hostLog[i].method = "post"
    BY <1>1 DEF LogInv, Messages
  <2>2. role # "leader" /\ ~isSync
    BY <1>1 DEF OnlyValidatorsDisagree
  <2>3. DOMAIN hostLog = {}
    BY <2>1, <2>2 DEF LogInv
  <2> QED
    BY <1>1, <2>3
<1>6. LogInv' /\ HostProtocol'
  <2>1. CASE execPc' = "exited" /\ hostLog' = hostLog
    BY <1>5, <2>1 DEF LogInv, HostProtocol, Sent
  <2>2. CASE execPc' = "consume" /\ hostLog' = Append(hostLog, Notification(merged.call))
    <3>1. hostLog' = <<Notification(merged.call)>>
      BY <1>2, <1>5, <2>2
    <3>2. DOMAIN hostLog' = {1} /\ hostLog'[1] = Notification(merged.call)
      BY <3>1
    <3>3. HostProtocol'
      BY <3>2 DEF HostProtocol
    <3>4. Sent(Notification(merged.call))'
      BY <1>1, <3>2 DEF Sent, Notification
    <3> QED
      BY <1>1, <2>2, <3>2, <3>3, <3>4 DEF LogInv, Notification
  <2> QED
    BY <1>1, <2>1, <2>2
<1> QED
  BY <1>3, <1>4, <1>6

\* The result is the last thing the host is told.
LEMMA ConsumeKeeps == ASSUME IndInv, IndInv', RunInv, ConsumeResult PROVE RunInv'
<1> USE DEF RunInv
<1>1. /\ execPc = "consume" /\ execPc' = "exited" /\ hostLog \in Seq(Messages)
      /\ merged.kind \in Kinds
      /\ UNCHANGED <<mainPc, nextCall, isSync, role, hostUp, trapped, runRes, merged, sawCancel, cancelled,
                     result, fate>>
      /\ hostLog' = Append(hostLog, Consumed(merged.kind)) \/ UNCHANGED hostLog
  BY DEF ConsumeResult, vars, RunWithTypeOK, PhaseInv
<1>2. Consumed(merged.kind) \in Messages
  BY <1>1 DEF Consumed, Messages
<1>3. RunWithTypeOK'
  BY <1>1, <1>2 DEF RunWithTypeOK, IndInv
<1>4. PhaseInv' /\ MergedInv' /\ OnlyValidatorsDisagree'
  BY <1>1 DEF PhaseInv, MergedInv, OnlyValidatorsDisagree, closed, Submitted, MergedResult,
              AfterCancellation
<1>5. \A i \in DOMAIN hostLog : hostLog[i].method \in {"post", "notify"}
  BY <1>1 DEF LogInv, Messages
<1>6. merged.call # NoCall => Sent(Notification(merged.call))
  BY <1>1 DEF LogInv
<1>7. LogInv' /\ HostProtocol'
  <2>1. CASE hostLog' = hostLog
    BY <1>1, <1>6, <2>1 DEF LogInv, HostProtocol, Sent
  <2>2. CASE hostLog' = Append(hostLog, Consumed(merged.kind))
    <3>1. /\ DOMAIN hostLog = 1 .. Len(hostLog) /\ Len(hostLog) \in Nat
          /\ Len(hostLog') = Len(hostLog) + 1 /\ DOMAIN hostLog' = 1 .. Len(hostLog) + 1
          /\ \A i \in DOMAIN hostLog : hostLog'[i] = hostLog[i]
          /\ hostLog'[Len(hostLog) + 1] = Consumed(merged.kind)
      BY <1>1, <1>2, <2>2
    <3>2. HostProtocol'
      <4> SUFFICES ASSUME NEW i \in DOMAIN hostLog', NEW j \in DOMAIN hostLog', i < j
                   PROVE  (/\ hostLog[i].method # "consume"
                           /\ hostLog[i].method = "notify" =>
                                hostLog[j].method = "consume" /\ j = Len(hostLog)
                           /\ (hostLog[i].method = "post" /\ hostLog[j].method = "post")
                                 => hostLog[i].call < hostLog[j].call
                           /\ hostLog[j].method = "notify" => hostLog[i].method # "post")'
        BY DEF HostProtocol
      <4>1. i \in DOMAIN hostLog /\ hostLog'[i] = hostLog[i]
        BY <3>1
      <4>2. CASE j \in DOMAIN hostLog
        <5>1. hostLog[i].method = "post"
          BY <1>5, <4>1, <4>2 DEF HostProtocol
        <5> QED
          BY <3>1, <4>1, <4>2, <5>1 DEF HostProtocol
      <4>3. CASE j = Len(hostLog) + 1
        BY <1>5, <3>1, <4>1, <4>3 DEF Consumed
      <4> QED
        BY <3>1, <4>2, <4>3
    <3>3. Sent(Notification(merged.call)) => Sent(Notification(merged.call))'
      BY <1>1, <3>1 DEF Sent, Notification
    <3>4. \A i \in DOMAIN hostLog' : i \in DOMAIN hostLog \/ i = Len(hostLog) + 1
      BY <3>1
    <3>5. LogInv'
      BY <1>1, <1>6, <3>1, <3>3, <3>4 DEF LogInv, Consumed
    <3> QED
      BY <3>2, <3>5
  <2> QED
    BY <1>1, <2>1, <2>2
<1> QED
  BY <1>3, <1>4, <1>7

\* Every step of an execution preserves the invariant.
LEMMA RunInvNext == ASSUME IndInv, IndInv', RunInv, [RunNext]_allVars PROVE RunInv'
<1>1. CASE HostDies
  <2>1. /\ hostUp' = FALSE
        /\ UNCHANGED <<mainPc, nextCall, isSync, role, trapped, runRes, execPc, merged, sawCancel, hostLog,
                       cancelled, result, fate>>
    BY <1>1 DEF HostDies, vars
  <2>2. RunWithTypeOK' /\ PhaseInv' /\ OnlyValidatorsDisagree'
    BY <2>1 DEF RunInv, RunWithTypeOK, IndInv, PhaseInv, OnlyValidatorsDisagree, closed, Submitted
  <2>3. MergedInv'
    BY <2>1 DEF RunInv, MergedInv, MergedResult, AfterCancellation
  <2>4. LogInv' /\ HostProtocol'
    BY <2>1 DEF RunInv, LogInv, HostProtocol, Sent
  <2> QED
    BY <2>2, <2>3, <2>4 DEF RunInv
<1>2. CASE UNCHANGED allVars
  <2>1. UNCHANGED <<mainPc, nextCall, isSync, role, hostUp, trapped, runRes, execPc, merged, sawCancel,
                    hostLog, cancelled, result, fate>>
    BY <1>2 DEF allVars, vars, execVars
  <2>2. RunWithTypeOK' /\ PhaseInv' /\ OnlyValidatorsDisagree'
    BY <2>1 DEF RunInv, RunWithTypeOK, IndInv, PhaseInv, OnlyValidatorsDisagree, closed, Submitted
  <2>3. MergedInv'
    BY <2>1 DEF RunInv, MergedInv, MergedResult, AfterCancellation
  <2>4. LogInv' /\ HostProtocol'
    BY <2>1 DEF RunInv, LogInv, HostProtocol, Sent
  <2> QED
    BY <2>2, <2>3, <2>4 DEF RunInv
<1> QED
  BY <1>1, <1>2, InlineKeeps, ValidatorCallKeeps, ContractEndsKeeps, QueueStepKeeps, MergeKeeps,
     NotifyKeeps, ConsumeKeeps DEF RunNext

\* The invariant holds in every state of every execution.
THEOREM RunInductive == RunSpec => [](IndInv /\ RunInv)
<1>1. RunInit => RunInv
  BY RunInvInit
<1> QED
  BY <1>1, QueueInside, RunInvNext, PTL DEF RunSpec

-----------------------------------------------------------------------------
\* What the invariant says about results and about the host.

\* A result that reached the host uncontested, in an execution nobody
\* cancelled, was agreed to by every block that was submitted.
LEMMA UncontestedIsAgreed == ASSUME IndInv, RunInv PROVE UncontestedReturnIsValidated
<1> SUFFICES ASSUME ~cancelled, Sent(Consumed("Return")),
                    ~ \E c \in Calls : Sent(Notification(c)),
                    NEW c \in Submitted
             PROVE  fate[c] = "agree"
  BY DEF UncontestedReturnIsValidated
<1> USE DEF IndInv, RunInv
<1>1. execPc = "exited" /\ merged.kind = "Return" /\ mainPc = "done"
  BY DEF Sent, Consumed, LogInv, PhaseInv
<1>2. Sent(Consumed(merged.kind))
  BY <1>1
<1>3. merged.call = NoCall
  BY <1>2 DEF LogInv, RunWithTypeOK
<1>4. merged = MergedResult
  BY <1>1 DEF MergedInv
<1>5. result.tag # "err" /\ result.call = NoCall
  BY <1>1, <1>3, <1>4 DEF MergedResult
<1>6. disagree = NoCall /\ \A d \in Calls : fate[d] # "error"
  BY <1>1, <1>5 DEF StopInv
<1>7. fate[c] # "queued"
  BY <1>1, SafetyParts DEF NoTaskLeftBehind, Submitted
<1>8. c \in Calls /\ fate[c] \in Fates /\ fate[c] # "unsubmitted"
  BY DEF Submitted, TypeOK
<1>9. fate[c] # "disagree" /\ fate[c] # "skipped"
  BY <1>6, <1>8, QueueAssumption DEF VerdictInv, Calls
<1> QED
  BY <1>6, <1>7, <1>8, <1>9 DEF Fates

\* What a failed execution is called, by the answer of is_cancelled() at the
\* merge.
LEMMA FailuresAreNamed == ASSUME IndInv, RunInv PROVE FailuresNamed
<1> SUFFICES ASSUME execPc # "executing" PROVE FailuresNamed
  BY DEF FailuresNamed
<1>1. mainPc = "done" /\ runRes \in Kinds /\ sawCancel \in BOOLEAN
  BY DEF RunInv, PhaseInv, RunWithTypeOK, closed
<1>2. ErrorMet <=> runRes = "Err" \/ result.tag = "err"
  BY <1>1 DEF IndInv, StopInv, ErrorMet
<1>3. /\ MergedResult \in [kind : Kinds, call : Calls \cup {NoCall}]
      /\ MergedResult.kind = IF ErrorMet THEN "Err" ELSE runRes
      /\ ErrorMet => MergedResult.call = NoCall
  BY <1>1, <1>2, MergedResultIs DEF MergedResult
<1>4. /\ merged = IF sawCancel THEN AfterCancellation(MergedResult) ELSE MergedResult
      /\ runRes = "Timeout" => sawCancel
  BY DEF RunInv, MergedInv
<1>5. CASE ~ sawCancel
  BY <1>1, <1>3, <1>4, <1>5 DEF FailuresNamed, ErrorMet
<1>6. CASE sawCancel
  <2>1. CASE MergedResult.kind \in {"VmError", "Err"}
    <3>1. merged.kind = "Timeout" /\ (MergedResult.kind = "Err" => merged.call = NoCall)
      BY <1>3, <1>4, <1>6, <2>1, AfterCancellationIs
    <3>2. ErrorMet \/ runRes = "VmError"
      BY <1>3, <2>1 DEF ErrorMet
    <3> QED
      BY <1>3, <1>6, <3>1, <3>2 DEF FailuresNamed
  <2>2. CASE MergedResult.kind \notin {"VmError", "Err"}
    <3>1. merged = MergedResult
      BY <1>3, <1>4, <1>6, <2>2, AfterCancellationIs
    <3>2. ~ ErrorMet /\ merged.kind = runRes
      BY <1>3, <2>2, <3>1
    <3> QED
      BY <1>1, <1>6, <2>2, <1>3, <3>1, <3>2 DEF FailuresNamed
  <2> QED
    BY <2>1, <2>2
<1> QED
  BY <1>1, <1>5, <1>6

\* The result of an execution, for every number of calls and every capacity:
\* a return the host hears of without a disagreement was validated unless the
\* execution was cancelled, and a failure is called a timeout exactly when
\* cancellation was seen at the merge.
THEOREM ResultsAreSound == RunSpec => []ResultSound
<1>1. IndInv /\ RunInv => ResultSound
  BY UncontestedIsAgreed, FailuresAreNamed DEF RunInv, ResultSound
<1> QED
  BY <1>1, RunInductive, PTL

\* What the host is told: results of a leader in the order of the calls, a
\* disagreement only from a validator and right before the result, and the
\* result once and last.
THEOREM HostIsTold == RunSpec => []HostTold
<1>1. RunInv => HostTold
  BY DEF RunInv, HostTold
<1> QED
  BY <1>1, RunInductive, PTL

\* One execution is a behaviour of the queue's specification and so of the
\* abstract promise of await_nondet_vms.
THEOREM RunImplementsVerdict == RunSpec => VerdictSpec
<1>1. RunInit => Init
  BY DEF RunInit
<1> QED
  BY <1>1, RunStepIsQueueStep, Implements, PTL DEF RunSpec, Spec

-----------------------------------------------------------------------------
\* How a validator's block comes to agree or disagree.
EQ == INSTANCE EqPrinciple

\* The values of types T with contents N, the outcomes of a function that
\* returns them or fails with a message, and the answers of a prompt.
Value(T, N)   == [t : T, n : N]
Outcome(T, N) == [k : {"return"}, v : Value(T, N)] \cup [k : {"user", "vm"}, v : Value({"str"}, N)]
Answer        == [ok : BOOLEAN, verdict : BOOLEAN]

\* A vote of yes, a vote of no and a raised exception differ.
LEMMA SaidIs ==
  /\ EQ!Said(TRUE) = [k |-> "return", v |-> [t |-> "bool", n |-> "1"]]
  /\ EQ!Said(FALSE) = [k |-> "return", v |-> [t |-> "bool", n |-> "0"]]
  /\ EQ!Raised = [k |-> "vm", v |-> [t |-> "str", n |-> "exit_code 1"]]
  /\ EQ!Said(TRUE).k = "return" /\ EQ!Said(FALSE).k = "return" /\ EQ!Raised.k = "vm"
  /\ EQ!Said(TRUE) # EQ!Said(FALSE) /\ EQ!Said(TRUE) # EQ!Raised
<1>1. /\ EQ!Said(TRUE) = [k |-> "return", v |-> [t |-> "bool", n |-> "1"]]
      /\ EQ!Said(FALSE) = [k |-> "return", v |-> [t |-> "bool", n |-> "0"]]
      /\ EQ!Raised = [k |-> "vm", v |-> [t |-> "str", n |-> "exit_code 1"]]
  BY DEF EQ!Said, EQ!Return, EQ!Raised, EQ!VMError, EQ!Str
<1>2. EQ!Said(TRUE).k = "return" /\ EQ!Said(FALSE).k = "return" /\ EQ!Raised.k = "vm"
  BY DEF EQ!Said, EQ!Return, EQ!Raised, EQ!VMError
<1>3. EQ!Said(TRUE).v.n = "1" /\ EQ!Said(FALSE).v.n = "0"
  BY DEF EQ!Said, EQ!Return
<1>4. EQ!Said(TRUE) # EQ!Said(FALSE) /\ EQ!Said(TRUE) # EQ!Raised
  BY <1>2, <1>3
<1> QED
  BY <1>1, <1>2, <1>4

\* Yes is said only of what is so.
LEMMA SaidTrue == ASSUME NEW b \in BOOLEAN PROVE EQ!Said(b) = EQ!Said(TRUE) <=> b
<1>1. CASE b = TRUE
  BY <1>1
<1>2. CASE b = FALSE
  BY <1>2, SaidIs
<1> QED
  BY <1>1, <1>2

\* An outcome is its kind and its value, a value its type and its content.
LEMMA SameOutcome ==
  ASSUME NEW T, NEW N, NEW a \in Outcome(T, N), NEW b \in Outcome(T, N), a.k = b.k,
         a.v.t = b.v.t, a.v.n = b.v.n
  PROVE  a = b
<1>1. /\ a = [k |-> a.k, v |-> a.v] /\ a.v = [t |-> a.v.t, n |-> a.v.n]
      /\ b = [k |-> b.k, v |-> b.v] /\ b.v = [t |-> b.v.t, n |-> b.v.n]
  BY DEF Outcome, Value
<1> QED
  BY <1>1

\* What the leader's side comes to is such an outcome.
LEMMA LeaderIs ==
  ASSUME NEW T, "str" \in T, NEW N, {"done", "exit_code 1"} \subseteq N,
         NEW api, NEW fn \in Outcome(T, N), NEW llm \in Answer
  PROVE  EQ!LeaderResult(api, fn, llm) \in Outcome(T, N)
<1>1. EQ!Return(EQ!Str("done")) \in Outcome(T, N)
  BY DEF EQ!Return, EQ!Str, Outcome, Value
<1>2. EQ!Raised \in Outcome(T, N)
  BY SaidIs DEF Outcome, Value
<1> QED
  BY <1>1, <1>2 DEF EQ!LeaderResult

\* What an agreement in the sandbox says of the two outcomes.
LEMMA SandboxedAgrees ==
  ASSUME NEW leader, NEW answer, EQ!Sandboxed(leader, answer) = EQ!Said(TRUE)
  PROVE  /\ answer.k = leader.k
         /\ IF leader.k = "return" THEN answer = EQ!Said(TRUE) ELSE answer.v = leader.v
<1>1. answer.k = leader.k
  BY SaidIs DEF EQ!Sandboxed
<1>2. CASE leader.k # "return"
  <2>1. EQ!Said(leader.v = answer.v) = EQ!Said(TRUE)
    BY <1>1, <1>2 DEF EQ!Sandboxed
  <2>2. ASSUME leader.v # answer.v PROVE FALSE
    <3>1. (leader.v = answer.v) = FALSE
      BY <2>2
    <3> QED
      BY <2>1, <3>1, SaidIs
  <2> QED
    BY <1>1, <1>2, <2>2
<1>3. CASE leader.k = "return"
  <2>1. answer = EQ!Said(TRUE)
    BY <1>1, <1>3, SaidIs DEF EQ!Sandboxed
  <2> QED
    BY <1>1, <1>3, <2>1
<1> QED
  BY <1>2, <1>3

-----------------------------------------------------------------------------
\* Strict equality compares the two outcomes, as Python does.
LEMMA StrictVote ==
  ASSUME NEW T, NEW N, NEW leader \in Outcome(T, N), NEW mine \in Outcome(T, N), NEW judge, NEW custom
  PROVE  EQ!VoteSound("strict_eq", leader, mine, judge, custom)
<1> DEFINE same  == EQ!SameResult(mine, leader)
           mixed == /\ leader.k = "return" /\ mine.k = "return"
                    /\ {leader.v.t, mine.v.t} = {"bool", "int"} /\ leader.v.n = mine.v.n
<1>1. same <=> /\ mine.k = leader.k /\ mine.v.n = leader.v.n
               /\ mine.v.t = leader.v.t \/ {mine.v.t, leader.v.t} = {"bool", "int"}
  BY DEF EQ!SameResult, EQ!Equal
<1>2. same => mine = leader \/ mixed
  <2> SUFFICES ASSUME same PROVE mine = leader \/ mixed
    OBVIOUS
  <2>1. CASE mine.v.t = leader.v.t
    BY <1>1, <2>1, SameOutcome
  <2>2. CASE mine.v.t # leader.v.t
    <3>1. {leader.v.t, mine.v.t} = {"bool", "int"} /\ mine.k = leader.k
      BY <1>1, <2>2
    <3>2. leader.k # "return" => leader.v.t = "str" /\ mine.v.t = "str"
      BY <3>1 DEF Outcome, Value
    <3> QED
      BY <1>1, <2>2, <3>1, <3>2
  <2> QED
    BY <2>1, <2>2
<1>3. mine = leader \/ mixed => same
  <2>1. {leader.v.t, mine.v.t} = {mine.v.t, leader.v.t}
    OBVIOUS
  <2> QED
    BY <1>1, <2>1
<1>4. same \in BOOLEAN
  BY DEF EQ!SameResult
<1> HIDE DEF same
<1>5. EQ!Agrees("strict_eq", leader, mine, judge, custom) <=> EQ!Said(same) = EQ!Said(TRUE)
  BY DEF EQ!Agrees, EQ!Vote, EQ!ValidatorFn, same
<1>6. EQ!Said(same) = EQ!Said(TRUE) <=> same
  BY <1>4, SaidTrue
<1> HIDE DEF mixed
<1>7. EQ!Agrees("strict_eq", leader, mine, judge, custom) <=> mine = leader \/ mixed
  BY <1>2, <1>3, <1>5, <1>6
<1> QED
  BY <1>7 DEF EQ!VoteSound, EQ!PromptApis, mixed

\* What agreement says under a principle that prompts.
LEMMA PromptVote ==
  ASSUME NEW T, NEW N, NEW api \in EQ!PromptApis, NEW leader \in Outcome(T, N),
         NEW mine \in Outcome(T, N), NEW judge \in Answer, NEW custom
  PROVE  EQ!VoteSound(api, leader, mine, judge, custom)
<1> DEFINE answer == EQ!ValidatorFn(api, leader, mine, judge, custom)
           fits == api = "non_comparative" => EQ!IsText(mine.v) /\ EQ!IsText(leader.v)
<1>1. SUFFICES ASSUME EQ!Agrees(api, leader, mine, judge, custom)
               PROVE  IF leader.k = "return" THEN mine.k = "return" /\ judge = EQ!Yes ELSE mine = leader
  BY DEF EQ!VoteSound, EQ!PromptApis
<1>2. EQ!Sandboxed(leader, answer) = EQ!Said(TRUE)
  BY <1>1 DEF EQ!Agrees, EQ!Vote, EQ!PromptApis
<1>3. answer = IF mine.k # "return" THEN mine
               ELSE IF leader.k # "return" THEN EQ!Said(FALSE)
               ELSE EQ!Prompt(fits, judge)
  BY DEF EQ!ValidatorFn, EQ!PromptApis
<1> HIDE DEF answer
<1>4. /\ answer.k = leader.k
      /\ IF leader.k = "return" THEN answer = EQ!Said(TRUE) ELSE answer.v = leader.v
  BY <1>2, SandboxedAgrees
<1>5. CASE mine.k # "return"
  <2>1. mine.k = leader.k /\ mine.v = leader.v /\ leader.k # "return"
    BY <1>3, <1>4, <1>5
  <2> QED
    BY <2>1, SameOutcome
<1>6. CASE mine.k = "return" /\ leader.k # "return"
  BY <1>3, <1>4, <1>6, SaidIs
<1>7. CASE mine.k = "return" /\ leader.k = "return"
  <2>1. EQ!Prompt(fits, judge) = EQ!Said(TRUE)
    BY <1>3, <1>4, <1>7
  <2> HIDE DEF fits
  <2>2. judge.ok = TRUE
    BY <2>1, SaidIs DEF EQ!Prompt, Answer
  <2>3. EQ!Said(judge.verdict) = EQ!Said(TRUE)
    BY <2>1, SaidIs DEF EQ!Prompt
  <2>4. judge.verdict = TRUE
    BY <2>3, SaidTrue DEF Answer
  <2> QED
    BY <1>7, <2>2, <2>4 DEF Answer, EQ!Yes
<1> QED
  BY <1>5, <1>6, <1>7

\* With a function of the contract's own: what an agreement says of it.
LEMMA CustomVote ==
  ASSUME NEW T, NEW N, NEW api \in {"run_nondet", "run_nondet_unsafe"}, NEW leader \in Outcome(T, N),
         NEW mine, NEW judge, NEW custom \in Outcome(T, N)
  PROVE  EQ!VoteSound(api, leader, mine, judge, custom)
<1>1. SUFFICES ASSUME api = "run_nondet", EQ!Agrees(api, leader, mine, judge, custom)
               PROVE  IF leader.k = "return" THEN custom = EQ!Said(TRUE) ELSE custom = leader
  BY DEF EQ!VoteSound, EQ!PromptApis
<1>2. EQ!Sandboxed(leader, custom) = EQ!Said(TRUE)
  BY <1>1 DEF EQ!Agrees, EQ!Vote, EQ!ValidatorFn
<1>3. /\ custom.k = leader.k
      /\ IF leader.k = "return" THEN custom = EQ!Said(TRUE) ELSE custom.v = leader.v
  BY <1>2, SandboxedAgrees
<1>4. CASE leader.k = "return"
  BY <1>3, <1>4
<1>5. CASE leader.k # "return"
  BY <1>3, <1>5, SameOutcome
<1> QED
  BY <1>4, <1>5

\* Whatever result a leader sends and whatever a validator's own run, prompt
\* or function comes to, with any values and messages: a validator that agrees
\* with a failure met the same one itself, one that agrees with a value was
\* told True, and strict_eq takes no value for another but a bool and an int
\* that Python holds equal.  These votes are the verdicts of the blocks in the
\* queue (vm.py run_nondet, eq_principle.py).
THEOREM EveryVoteIsSound ==
  ASSUME NEW T, NEW N, NEW api \in EQ!Apis, NEW leader \in Outcome(T, N),
         NEW mine \in Outcome(T, N), NEW judge \in Answer, NEW custom \in Outcome(T, N)
  PROVE  EQ!VoteSound(api, leader, mine, judge, custom)
<1>1. CASE api = "strict_eq"
  BY <1>1, StrictVote
<1>2. CASE api \in EQ!PromptApis
  BY <1>2, PromptVote
<1>3. CASE api \in {"run_nondet", "run_nondet_unsafe"}
  BY <1>3, CustomVote
<1> QED
  BY <1>1, <1>2, <1>3 DEF EQ!Apis

-----------------------------------------------------------------------------
\* Honest runs that fail alike agree under every principle.
LEMMA HonestFailure ==
  ASSUME NEW api \in EQ!PromptApis, NEW fn, fn.k # "return", NEW llm, NEW judge, NEW custom
  PROVE  EQ!Agrees(api, EQ!LeaderResult(api, fn, llm), fn, judge, custom)
<1>1. EQ!LeaderResult(api, fn, llm) = fn
  BY DEF EQ!LeaderResult
<1>2. EQ!ValidatorFn(api, fn, fn, judge, custom) = fn
  BY DEF EQ!ValidatorFn, EQ!PromptApis
<1>3. EQ!Sandboxed(fn, fn) = EQ!Said(TRUE)
  BY DEF EQ!Sandboxed
<1> QED
  BY <1>1, <1>2, <1>3 DEF EQ!Agrees, EQ!Vote, EQ!PromptApis

\* Honest runs that return the same value, the leader's having come to one.
LEMMA HonestValue ==
  ASSUME NEW T, NEW N, NEW api \in EQ!PromptApis, NEW fn \in Outcome(T, N), fn.k = "return", NEW llm \in Answer,
         NEW judge \in Answer, NEW custom, api = "non_comparative" => fn.v.t = "str" /\ llm.ok,
         judge = EQ!Yes
  PROVE  EQ!Agrees(api, EQ!LeaderResult(api, fn, llm), fn, judge, custom)
<1> DEFINE leader == EQ!LeaderResult(api, fn, llm)
<1>1. leader.k = "return" /\ (api = "non_comparative" => leader.v.t = "str")
  BY DEF EQ!LeaderResult, EQ!Return, EQ!Str
<1> HIDE DEF leader
<1>2. api = "non_comparative" => EQ!IsText(fn.v) /\ EQ!IsText(leader.v)
  BY <1>1 DEF EQ!IsText
<1>4. EQ!ValidatorFn(api, leader, fn, judge, custom) = EQ!Said(TRUE)
  <2> DEFINE fits == api = "non_comparative" => EQ!IsText(fn.v) /\ EQ!IsText(leader.v)
  <2>1. EQ!ValidatorFn(api, leader, fn, judge, custom) = EQ!Prompt(fits, judge)
    BY <1>1 DEF EQ!ValidatorFn, EQ!PromptApis
  <2>2. fits
    BY <1>2
  <2> HIDE DEF fits
  <2>3. judge.ok = TRUE /\ judge.verdict = TRUE
    BY DEF EQ!Yes
  <2>4. EQ!Prompt(fits, judge) = EQ!Said(judge.verdict)
    BY <2>2, <2>3 DEF EQ!Prompt
  <2>5. EQ!Said(judge.verdict) = EQ!Said(TRUE)
    BY <2>3, Zenon
  <2> QED
    BY <2>1, <2>4, <2>5
<1>5. EQ!Sandboxed(leader, EQ!Said(TRUE)) = EQ!Said(TRUE)
  <2>1. EQ!Said(TRUE).k = "return" /\ EQ!Said(TRUE).v.t = "bool"
    BY DEF EQ!Said, EQ!Return
  <2> QED
    BY <1>1, <2>1 DEF EQ!Sandboxed
<1> QED
  BY <1>4, <1>5 DEF EQ!Agrees, EQ!Vote, EQ!PromptApis, leader

\* Two honest runs with the same outcome, under every principle: strict_eq
\* agrees, the prompts agree on a failure, and on a value exactly when the
\* validator's prompt says yes and, under prompt_non_comparative, the value was
\* a str and the leader's prompt was answered (eq_principle.py).
THEOREM HonestVotes ==
  ASSUME NEW T, "str" \in T, NEW N, {"done", "exit_code 1"} \subseteq N, NEW api \in EQ!Apis,
         NEW fn \in Outcome(T, N), NEW llm \in Answer, NEW judge \in Answer, NEW custom \in Outcome(T, N)
  PROVE  EQ!HonestVote(api, fn, llm, judge, custom)
<1> DEFINE leader == EQ!LeaderResult(api, fn, llm)
<1>1. ASSUME api = "strict_eq" PROVE EQ!Agrees(api, leader, fn, judge, custom)
  <2>1. leader = fn
    BY <1>1 DEF EQ!LeaderResult
  <2>2. EQ!SameResult(fn, fn) = TRUE
    BY DEF EQ!SameResult, EQ!Equal
  <2>3. EQ!ValidatorFn(api, fn, fn, judge, custom) = EQ!Said(TRUE)
    BY <1>1, <2>2 DEF EQ!ValidatorFn
  <2> QED
    BY <1>1, <2>1, <2>3 DEF EQ!Agrees, EQ!Vote
<1>2. ASSUME api \in EQ!PromptApis, fn.k = "return", EQ!Agrees(api, leader, fn, judge, custom)
      PROVE  judge = EQ!Yes /\ (api = "non_comparative" => fn.v.t = "str" /\ llm.ok)
  <2>1. leader \in Outcome(T, N)
    BY LeaderIs
  <2>2. EQ!VoteSound(api, leader, fn, judge, custom)
    BY <1>2, <2>1, PromptVote
  <2>3. IF leader.k = "return" THEN judge = EQ!Yes ELSE fn = leader
    BY <1>2, <2>2 DEF EQ!VoteSound
  <2>4. ASSUME api = "non_comparative", ~(fn.v.t = "str" /\ llm.ok) PROVE FALSE
    <3>1. leader = EQ!Raised
      BY <1>2, <2>4 DEF EQ!LeaderResult
    <3> QED
      BY <1>2, <2>3, <3>1, SaidIs
  <2>5. leader.k = "return"
    BY <1>2, <2>3
  <2> QED
    BY <2>3, <2>4, <2>5
<1>3. ASSUME api \in EQ!PromptApis,
             fn.k = "return" => judge = EQ!Yes /\ (api = "non_comparative" => fn.v.t = "str" /\ llm.ok)
      PROVE  EQ!Agrees(api, leader, fn, judge, custom)
  <2>1. CASE fn.k # "return"
    BY <1>3, <2>1, HonestFailure
  <2>2. CASE fn.k = "return"
    BY <1>3, <2>2, HonestValue
  <2> QED
    BY <2>1, <2>2
<1> HIDE DEF leader
<1> QED
  BY <1>1, <1>2, <1>3 DEF EQ!HonestVote, leader
=============================================================================
