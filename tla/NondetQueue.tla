----------------------------- MODULE NondetQueue -----------------------------
(***************************************************************************)
(* The supervisor's queue of validator blocks (rt/supervisor/mod.rs).  The *)
(* contract submits one task per run_nondet call through a bounded         *)
(* channel; a primary worker started with the supervisor takes them out;   *)
(* when the contract ends, await_nondet_vms closes the channel and, if it  *)
(* is not empty, runs a secondary worker itself, then waits for both and   *)
(* reads the verdict.  Workers stop on cancellation, on a drained closed   *)
(* channel, or when the countdown of live tasks (sync::Waiter) is zero.    *)
(***************************************************************************)
EXTENDS Naturals, Sequences

CONSTANTS MaxCalls,   \* bound on the number of run_nondet calls
          Capacity,   \* capacity of the task channel (100 in the code)
          NoCall      \* stands for u32::MAX

ASSUME QueueAssumption ==
  /\ MaxCalls \in Nat
  /\ Capacity \in Nat \ {0}
  /\ NoCall \in Nat /\ MaxCalls <= NoCall

Calls == 0 .. MaxCalls - 1

Outcomes == {"agree", "disagree", "other", "err"}

Workers == {"primary", "secondary"}

MainPcs == {"running", "sending", "closed", "checking", "draining", "locking", "done"}

WorkerPcs == {"idle", "polling", "parked", "received", "validating", "releasing", "gone"}

Fates == {"unsubmitted", "queued", "agree", "disagree", "error", "skipped"}

VARIABLES
  verdict,      \* how each block's run ends when it is not interrupted
  mainPc,       \* the contract's VM and, after it, run_with in await_nondet_vms
  nextCall,     \* Supervisor.nondet_call_no
  chan,         \* tasks in the channel, as call numbers
  countdown,    \* Waiter.counter
  reachedZero,  \* the permit notify_one leaves in Waiter.reached_zero
  workerPc,
  task,         \* the task each worker holds
  disagree,     \* nondet_call_disagree
  error,        \* encountered_error: the call whose error it holds
  cancelled,    \* cancellation token
  fate,         \* history: what became of each call's task
  result        \* what await_nondet_vms returned

mainVars == <<verdict, mainPc, nextCall>>
verdictVars == <<disagree, error, fate>>
vars == <<verdict, mainPc, nextCall, chan, countdown, reachedZero, workerPc, task,
          disagree, error, cancelled, fate, result>>

Pending == [tag |-> "pending", call |-> NoCall]

Results == [tag : {"pending", "ok", "err"}, call : Calls \cup {NoCall}]

TypeOK ==
  /\ verdict \in [Calls -> Outcomes]
  /\ mainPc \in MainPcs
  /\ nextCall \in 0 .. MaxCalls
  /\ chan \in Seq(Calls)
  /\ Len(chan) <= Capacity
  /\ countdown \in Nat
  /\ reachedZero \in BOOLEAN
  /\ workerPc \in [Workers -> WorkerPcs]
  /\ task \in [Workers -> Calls \cup {NoCall}]
  /\ disagree \in Calls \cup {NoCall}
  /\ error \in Calls \cup {NoCall}
  /\ cancelled \in BOOLEAN
  /\ fate \in [Calls -> Fates]
  /\ result \in Results

-----------------------------------------------------------------------------
\* sync::Waiter

Increment == countdown' = countdown + 1 /\ UNCHANGED reachedZero

Decrement ==
  /\ countdown' = countdown - 1
  /\ reachedZero' = (reachedZero \/ countdown = 1)

-----------------------------------------------------------------------------
Init ==
  /\ verdict \in [Calls -> Outcomes]
  /\ mainPc = "running"
  /\ nextCall = 0
  /\ chan = <<>>
  /\ countdown = 1
  /\ reachedZero = FALSE
  /\ workerPc = [w \in Workers |-> IF w = "primary" THEN "polling" ELSE "idle"]
  /\ task = [w \in Workers |-> NoCall]
  /\ disagree = NoCall
  /\ error = NoCall
  /\ cancelled = FALSE
  /\ fate = [c \in Calls |-> "unsubmitted"]
  /\ result = Pending

\* The canceller: should_quit is stored and the cancellation channel closed.
Cancel ==
  /\ ~ cancelled
  /\ cancelled' = TRUE
  /\ UNCHANGED <<mainVars, chan, countdown, reachedZero, workerPc, task, verdictVars, result>>

-----------------------------------------------------------------------------
\* The contract's VM: run_nondet and submit_nondet_vm_task.

\* A call of the leader (run_now) or in sync mode takes a call number and
\* leaves the queue alone.
CallInline ==
  /\ mainPc = "running"
  /\ nextCall < MaxCalls
  /\ nextCall' = nextCall + 1
  /\ UNCHANGED <<verdict, mainPc, chan, countdown, reachedZero, workerPc, task, verdictVars,
                 cancelled, result>>

\* The countdown token is made before the task is offered to the channel.
Submit ==
  /\ mainPc = "running"
  /\ nextCall < MaxCalls
  /\ nextCall' = nextCall + 1
  /\ fate' = [fate EXCEPT ![nextCall] = "queued"]
  /\ Increment
  /\ mainPc' = "sending"
  /\ UNCHANGED <<verdict, chan, workerPc, task, disagree, error, cancelled, result>>

\* sender.send(...).await waits while the channel is full.
Send ==
  /\ mainPc = "sending"
  /\ Len(chan) < Capacity
  /\ chan' = Append(chan, nextCall - 1)
  /\ mainPc' = "running"
  /\ UNCHANGED <<verdict, nextCall, countdown, reachedZero, workerPc, task, verdictVars,
                 cancelled, result>>

-----------------------------------------------------------------------------
\* await_nondet_vms

\* The contract has ended; sender.close().
Close ==
  /\ mainPc = "running"
  /\ mainPc' = "closed"
  /\ UNCHANGED <<verdict, nextCall, chan, countdown, reachedZero, workerPc, task, verdictVars,
                 cancelled, result>>

closed == mainPc \notin {"running", "sending"}

\* vm_countdown.decrement() gives up the supervisor's own count.
DropOwnCount ==
  /\ mainPc = "closed"
  /\ Decrement
  /\ mainPc' = "checking"
  /\ UNCHANGED <<verdict, nextCall, chan, workerPc, task, verdictVars, cancelled, result>>

\* if !receiver.is_empty(), run a second processor here.
CheckEmpty ==
  /\ mainPc = "checking"
  /\ IF chan # <<>>
     THEN /\ workerPc' = [workerPc EXCEPT !["secondary"] = "polling"]
          /\ mainPc' = "draining"
     ELSE /\ mainPc' = "locking"
          /\ UNCHANGED workerPc
  /\ UNCHANGED <<verdict, nextCall, chan, countdown, reachedZero, task, verdictVars,
                 cancelled, result>>

SecondaryReturned ==
  /\ mainPc = "draining"
  /\ workerPc["secondary"] = "gone"
  /\ mainPc' = "locking"
  /\ UNCHANGED <<verdict, nextCall, chan, countdown, reachedZero, workerPc, task, verdictVars,
                 cancelled, result>>

\* Mutant: the guard of the secondary worker is taken before it is needed.
ReadGuardsUpFront == {w \in Workers : workerPc[w] # "gone"}

\* The workers that hold a read guard of tasks_loop_done.
ReadGuards == {w \in Workers : workerPc[w] \notin {"idle", "gone"}}

\* Mutant: encountered_error is never looked at.
CollectIgnoresErrors ==
  /\ mainPc = "locking"
  /\ ReadGuards = {}
  /\ result' = [tag |-> "ok", call |-> disagree]
  /\ mainPc' = "done"
  /\ UNCHANGED <<verdict, nextCall, chan, countdown, reachedZero, workerPc, task, verdictVars,
                 cancelled>>

\* tasks_loop_done.write().await, then encountered_error.take(), then the
\* load of nondet_call_disagree.
Collect ==
  /\ mainPc = "locking"
  /\ ReadGuards = {}
  /\ result' = IF error # NoCall THEN [tag |-> "err", call |-> error]
                                 ELSE [tag |-> "ok", call |-> disagree]
  /\ error' = NoCall
  /\ mainPc' = "done"
  /\ UNCHANGED <<verdict, nextCall, chan, countdown, reachedZero, workerPc, task, disagree,
                 fate, cancelled>>

-----------------------------------------------------------------------------
\* nondet_vm_processor.  In "polling" the worker (re)enters select!, in
\* "parked" its futures have registered for wake-ups; select! may take any
\* branch that is ready.

Selecting(w) == workerPc[w] \in {"polling", "parked"}

GoTo(w, pc) == workerPc' = [workerPc EXCEPT ![w] = pc]

\* Waiter::wait found the counter above zero and waits for reached_zero.
Park(w) ==
  /\ workerPc[w] = "polling"
  /\ countdown > 0
  /\ GoTo(w, "parked")
  /\ UNCHANGED <<mainVars, chan, countdown, reachedZero, task, verdictVars, cancelled, result>>

StopCancelled(w) ==
  /\ Selecting(w)
  /\ cancelled
  /\ GoTo(w, "gone")
  /\ UNCHANGED <<mainVars, chan, countdown, reachedZero, task, verdictVars, cancelled, result>>

\* Waiter::wait returns: at once when the counter is zero, or woken by the
\* one permit of notify_one.
StopCountdown(w) ==
  /\ \/ workerPc[w] = "polling" /\ countdown = 0 /\ UNCHANGED reachedZero
     \/ workerPc[w] = "parked" /\ reachedZero /\ reachedZero' = FALSE
  /\ GoTo(w, "gone")
  /\ UNCHANGED <<mainVars, chan, countdown, task, verdictVars, cancelled, result>>

\* Mutant: a worker leaves as soon as the channel is closed.
StopOnClose(w) ==
  /\ Selecting(w)
  /\ closed
  /\ GoTo(w, "gone")
  /\ UNCHANGED <<mainVars, chan, countdown, reachedZero, task, verdictVars, cancelled, result>>

\* recv() returns Ok(None): closed and drained.
StopDrained(w) ==
  /\ Selecting(w)
  /\ closed
  /\ chan = <<>>
  /\ GoTo(w, "gone")
  /\ UNCHANGED <<mainVars, chan, countdown, reachedZero, task, verdictVars, cancelled, result>>

Receive(w) ==
  /\ Selecting(w)
  /\ chan # <<>>
  /\ task' = [task EXCEPT ![w] = Head(chan)]
  /\ chan' = Tail(chan)
  /\ GoTo(w, "received")
  /\ UNCHANGED <<mainVars, countdown, reachedZero, verdictVars, cancelled, result>>

\* Mutant: the early `continue` forgets the token.
SkipKeepsToken(w) ==
  /\ workerPc[w] = "received"
  /\ disagree # NoCall
  /\ fate' = [fate EXCEPT ![task[w]] = "skipped"]
  /\ GoTo(w, "polling")
  /\ UNCHANGED <<mainVars, chan, countdown, reachedZero, task, disagree, error, cancelled, result>>

\* A disagreement is already known: the task and its token are dropped.
Skip(w) ==
  /\ workerPc[w] = "received"
  /\ disagree # NoCall
  /\ fate' = [fate EXCEPT ![task[w]] = "skipped"]
  /\ Decrement
  /\ GoTo(w, "polling")
  /\ UNCHANGED <<mainVars, chan, task, disagree, error, cancelled, result>>

StartRun(w) ==
  /\ workerPc[w] = "received"
  /\ disagree = NoCall
  /\ GoTo(w, "validating")
  /\ UNCHANGED <<mainVars, chan, countdown, reachedZero, task, verdictVars, cancelled, result>>

\* How run_single_nondet may end for call c: VM::run turns an interrupted
\* run, and an error seen after cancellation, into VMError(timeout).
RunEnds(c) == {verdict[c]} \cup IF cancelled THEN {"other"} ELSE {}

\* Mutant: a plain store.
StoreLast(a, b) == b

fetch_min(a, b) == IF b < a THEN b ELSE a

\* Mutant: results other than true and false pass as agreement.
FinishOtherAgrees(w) ==
  /\ workerPc[w] = "validating"
  /\ fate' = [fate EXCEPT ![task[w]] =
                 CASE verdict[task[w]] = "disagree" -> "disagree"
                   [] verdict[task[w]] = "err" -> "error"
                   [] OTHER -> "agree"]
  /\ disagree' = IF verdict[task[w]] = "disagree" THEN fetch_min(disagree, task[w]) ELSE disagree
  /\ error' = IF verdict[task[w]] = "err" THEN task[w] ELSE error
  /\ GoTo(w, "releasing")
  /\ UNCHANGED <<mainVars, chan, countdown, reachedZero, task, cancelled, result>>

\* The match on the result of run_single_nondet; the token is dropped next.
FinishRun(w) ==
  /\ workerPc[w] = "validating"
  /\ \E r \in RunEnds(task[w]) :
       \/ /\ r = "agree"
          /\ fate' = [fate EXCEPT ![task[w]] = "agree"]
          /\ UNCHANGED <<disagree, error>>
       \/ /\ r \in {"disagree", "other"}
          /\ fate' = [fate EXCEPT ![task[w]] = "disagree"]
          /\ disagree' = fetch_min(disagree, task[w])
          /\ UNCHANGED error
       \/ /\ r = "err"
          /\ fate' = [fate EXCEPT ![task[w]] = "error"]
          /\ error' = task[w]
          /\ UNCHANGED disagree
  /\ GoTo(w, "releasing")
  /\ UNCHANGED <<mainVars, chan, countdown, reachedZero, task, cancelled, result>>

\* The token of a finished task is dropped, on every path.
Release(w) ==
  /\ workerPc[w] = "releasing"
  /\ Decrement
  /\ GoTo(w, "polling")
  /\ UNCHANGED <<mainVars, chan, task, verdictVars, cancelled, result>>

WorkerStep(w) ==
  \/ Park(w) \/ StopCancelled(w) \/ StopCountdown(w) \/ StopDrained(w)
  \/ Receive(w) \/ Skip(w) \/ StartRun(w) \/ FinishRun(w) \/ Release(w)

AwaitStep == DropOwnCount \/ CheckEmpty \/ SecondaryReturned \/ Collect

Next ==
  \/ Cancel
  \/ CallInline \/ Submit \/ Send \/ Close
  \/ AwaitStep
  \/ \E w \in Workers : WorkerStep(w)

Spec == Init /\ [][Next]_vars

\* The runtime polls every woken task and validator blocks end.  The
\* contract itself is only bound to end once cancellation interrupts it.
Fairness ==
  /\ \A w \in Workers : WF_vars(WorkerStep(w))
  /\ WF_vars(AwaitStep)
  /\ WF_vars(Send)
  /\ WF_vars(cancelled /\ Close)

FairSpec == Spec /\ Fairness

-----------------------------------------------------------------------------
\* Properties

Submitted == {c \in Calls : fate[c] # "unsubmitted"}

Holds(w) == workerPc[w] \in {"received", "validating", "releasing"}

Count(b) == IF b THEN 1 ELSE 0

\* Waiter's counter is the number of live tokens: the supervisor's own until
\* await_nondet_vms gives it up, the one of the task being sent, and one per
\* task in the channel or with a worker.  So it never drops below zero, is
\* never incremented after zero (the panics of Waiter), and no early return
\* of the processor loop leaks or doubles a VMCountDecrementer.
CountdownCountsTokens ==
  countdown = Count(mainPc \in {"running", "sending", "closed"})
              + Count(mainPc = "sending") + Len(chan)
              + Count(Holds("primary")) + Count(Holds("secondary"))

\* When await_nondet_vms returns and nobody cancelled, every submitted task
\* has been run or skipped; nothing is left in the channel or with a worker.
NoTaskLeftBehind ==
  (mainPc = "done" /\ ~cancelled) => \A c \in Calls : fate[c] # "queued"

\* A leader's result is accepted (Ok(None)) only when every submitted
\* validator block really agreed.
AcceptedOnlyIfAllAgree ==
  (result = [tag |-> "ok", call |-> NoCall] /\ ~cancelled) =>
     \A c \in Submitted : verdict[c] = "agree"

\* The reported disagreement is a block whose run rejected, no smaller block
\* that ran rejected or failed, and at most one smaller block was not run: a
\* worker may be overtaken between receiving a task and loading
\* nondet_call_disagree.  Cancellation does not change this.
ReportedNearMinimum ==
  (result.tag = "ok" /\ result.call # NoCall) =>
     /\ fate[result.call] = "disagree"
     /\ \A c \in Submitted : c < result.call => fate[c] \in {"agree", "skipped"}
     /\ \A c, d \in Calls :
          (c < result.call /\ d < result.call /\ fate[c] = "skipped" /\ fate[d] = "skipped")
             => c = d

\* nondet_call_disagree only goes down, and an error once stored stays until
\* await_nondet_vms takes it.
VerdictMonotone ==
  [][ /\ disagree' <= disagree
      /\ (error # NoCall /\ error' = NoCall) => mainPc = "locking" ]_vars

\* The queue implements the promise of await_nondet_vms.
Verdict == INSTANCE NondetVerdict WITH submitted <- Submitted, answer <- result

VerdictSpec == Verdict!Spec

\* Once the contract has ended, await_nondet_vms returns.
AwaitReturns == closed ~> (mainPc = "done")

\* The contract is not kept waiting on a full channel unless the execution
\* is cancelled.
SendCompletes == (mainPc = "sending") ~> (mainPc # "sending" \/ cancelled)

\* A cancelled execution ends, unless the contract is blocked in send() on a
\* channel no worker empties any more.
ShutdownUnlessBlocked ==
  cancelled ~> (mainPc = "done" \/ (mainPc = "sending" /\ Len(chan) = Capacity))

\* "Graceful Shutdown: Send SIGTERM": the execution ends after it.
GracefulShutdown == cancelled ~> (mainPc = "done")

-----------------------------------------------------------------------------
\* The inductive invariant behind the safety properties.

InChan(c) == \E i \in 1 .. Len(chan) : chan[i] = c

Sending(c) == mainPc = "sending" /\ c = nextCall - 1

InHand(w, c) == workerPc[w] \in {"received", "validating"} /\ task[w] = c

\* Shape of the control state: the call being sent is numbered, a finished or
\* running task belongs to a call, the secondary worker waits for CheckEmpty.
ControlInv ==
  /\ mainPc = "sending" => nextCall > 0
  /\ \A w \in Workers : Holds(w) => task[w] \in Calls
  /\ mainPc \in {"running", "sending", "closed", "checking"} => workerPc["secondary"] = "idle"
  /\ reachedZero => countdown = 0

\* A queued task is in exactly one place, and tasks leave the channel in the
\* order of their call numbers.
OrderInv ==
  /\ \A i \in 1 .. Len(chan) : chan[i] < nextCall
  /\ \A i, j \in 1 .. Len(chan) : i < j => chan[i] < chan[j]
  /\ \A c \in Calls : fate[c] # "unsubmitted" => c < nextCall
  /\ \A c \in Calls :
       fate[c] = "queued" <=> InChan(c) \/ Sending(c) \/ \E w \in Workers : InHand(w, c)
  /\ \A c \in Calls : Sending(c) => ~InChan(c)
  /\ \A w \in Workers, c \in Calls : InHand(w, c) => ~InChan(c) /\ ~Sending(c)
  /\ \A c \in Calls : ~(InHand("primary", c) /\ InHand("secondary", c))
  /\ \A c \in Calls : (fate[c] # "unsubmitted" /\ ~InChan(c) /\ ~Sending(c))
        => \A i \in 1 .. Len(chan) : c < chan[i]

\* The verdict cells and the history of the tasks agree.
VerdictInv ==
  /\ disagree # NoCall => fate[disagree] = "disagree"
  /\ error # NoCall => fate[error] = "error"
  /\ \A c \in Calls :
       /\ fate[c] = "disagree" => disagree <= c
       /\ fate[c] = "skipped" => disagree # NoCall
       /\ (fate[c] = "error" /\ mainPc # "done") => error # NoCall
       /\ fate[c] = "agree" => verdict[c] = "agree"
       /\ fate[c] = "error" => verdict[c] = "err"
       /\ (fate[c] = "disagree" /\ ~cancelled) => verdict[c] \in {"disagree", "other"}
  /\ \A c, d \in Calls :
       (/\ disagree # NoCall /\ c < disagree /\ d < disagree
        /\ fate[c] \in {"queued", "skipped"} /\ fate[d] \in {"queued", "skipped"}) => c = d

\* Workers leave, unless cancelled, only when there is nothing left to take.
StopInv ==
  /\ \A w \in Workers : (workerPc[w] = "gone" /\ ~cancelled) => closed /\ chan = <<>>
  /\ workerPc["primary"] # "idle"
  /\ mainPc = "done" => ReadGuards = {}
  /\ mainPc # "done" => result = Pending
  /\ mainPc = "done" =>
       \/ /\ result = [tag |-> "ok", call |-> disagree]
          /\ \A c \in Calls : fate[c] # "error"
       \/ /\ result.tag = "err"
          /\ result.call \in Calls
          /\ fate[result.call] = "error"

\* The whole of it, preserved by every step of the queue.
IndInv ==
  /\ TypeOK /\ CountdownCountsTokens /\ ControlInv
  /\ OrderInv /\ VerdictInv /\ StopInv
=============================================================================
