----------------------------- MODULE TestRunner -----------------------------
(***************************************************************************)
(* ya-test-runner: from the cases that the collectors gave to the verdict  *)
(* of the report.  Everything runs on one event loop: the stage's own      *)
(* coroutine starts batches of cases and waits on a latch per batch, and   *)
(* each case is a background task that gives way at every await.           *)
(*                                                                         *)
(* A case says whether it needs the console to itself and what its steps   *)
(* come to: what a step awaits and how it ends is up to the command.       *)
(***************************************************************************)
EXTENDS Integers, Sequences, SequencesExt, FiniteSets, FiniteSetsExt

CONSTANTS Suites    \* sequences of cases [console, steps], as filtered and sorted

StepKinds == {"run", "const", "judge", "stop"}

ASSUME SuitesAssumption ==
  \A s \in Suites : s \in Seq([console : BOOLEAN, steps : Seq(StepKinds)])

VARIABLES suite,    \* the cases
          at,       \* the batch whose actions are next, or End
          waiting,  \* whether its cases have been started
          latch,    \* by batch, the cases not finished yet
          task,     \* by case, where its task is
          results,  \* by case, what its steps returned
          passed, failed

rvars == <<suite, at, waiting, latch, task, results, passed, failed>>

-----------------------------------------------------------------------------
(* stage.scheduling: a batch for each case that needs the console, in the  *)
(* order of the cases and named after its case, then one for all the       *)
(* others.  The actions are StartCases and AwaitAllCases of each batch.    *)
Cases   == 1..Len(suite)
Others  == {i \in Cases : ~ suite[i].console}
Rest    == Len(suite) + 1
End     == Len(suite) + 2
Batches == (Cases \ Others) \cup (IF Others = {} THEN {} ELSE {Rest})

CasesOf(b) == IF b = Rest THEN Others ELSE {b}
BatchOf(i) == IF i \in Others THEN Rest ELSE i

(* The batch after b.                                                      *)
Following(b) == Min({c \in Batches : c > b} \cup {End})

-----------------------------------------------------------------------------
(* stage.execution.                                                        *)
RunnerInit == /\ suite \in Suites
              /\ at = Following(0) /\ waiting = FALSE
              /\ latch = [b \in 1..Rest |-> 0]
              /\ task = [i \in Cases |-> "none"]
              /\ results = [i \in Cases |-> <<>>]
              /\ passed = 0 /\ failed = <<>>

(* Mutant: the last case of a batch is not waited for.                     *)
LatchOfOthers(cases) == IF Cardinality(cases) > 1 THEN Cardinality(cases) - 1 ELSE Cardinality(cases)

(* _CountDownLatch(len(cases)).                                            *)
Latch(cases) == Cardinality(cases)

StartCases == /\ at # End /\ ~ waiting
              /\ latch' = [latch EXCEPT ![at] = Latch(CasesOf(at))]
              /\ task' = [i \in Cases |-> IF i \in CasesOf(at) THEN "queued" ELSE task[i]]
              /\ waiting' = TRUE
              /\ UNCHANGED <<suite, at, results, passed, failed>>

(* Mutant: the batch is left without a wait.                               *)
AwaitNothing == /\ at # End /\ waiting
                /\ at' = Following(at) /\ waiting' = FALSE
                /\ UNCHANGED <<suite, latch, task, results, passed, failed>>

AwaitAllCases == /\ at # End /\ waiting
                 /\ latch[at] = 0
                 /\ at' = Following(at) /\ waiting' = FALSE
                 /\ UNCHANGED <<suite, latch, task, results, passed, failed>>

(* _run_cases creates the task of every case of the batch; nobody sets     *)
(* should_stop.                                                            *)
Spawn(b) == /\ \E i \in CasesOf(b) : task[i] = "queued"
            /\ task' = [i \in Cases |-> IF i \in CasesOf(b) /\ task[i] = "queued" THEN "ready" ELSE task[i]]
            /\ UNCHANGED <<suite, at, waiting, latch, results, passed, failed>>

(* _run_case_locked up to its first await.                                 *)
Begin(i) == /\ task[i] = "ready"
            /\ task' = [task EXCEPT ![i] = "running"]
            /\ UNCHANGED <<suite, at, waiting, latch, results, passed, failed>>

(* Command.run: the exit code, or an exception (the command could not be   *)
(* started, or was killed with its output read in part).                   *)
RaisedExc == "raised"
Early  == "early"
RunCommand == {"exit0", "exit1", RaisedExc}

(* CommandToResultStep judges the command before it, ResultStopIfErrorStep *)
(* ends the case with a bad result; either fails its assertion on anything *)
(* else.                                                                   *)
CommandToResult(end)   == IF end = "exit0" THEN "ok" ELSE IF end = "exit1" THEN "bad" ELSE RaisedExc
ResultStopIfError(end) == IF end = "bad" THEN Early ELSE IF end = "ok" THEN "none" ELSE RaisedExc

(* What a step may add to the results before it.                           *)
Outcomes(step, before) ==
    LET end == IF before = <<>> THEN "" ELSE Last(before)
    IN  CASE step = "run"   -> RunCommand
          [] step = "const" -> {"ok"}
          [] step = "judge" -> {CommandToResult(end)}
          [] step = "stop"  -> {ResultStopIfError(end)}

(* The end of a case, in one go: the result is looked at, counted, or the  *)
(* name appended to failed, and the latch decremented.                     *)
Verdict(i, res) == /\ passed' = IF res = "ok" THEN passed + 1 ELSE passed
                   /\ failed' = IF res = "ok" THEN failed ELSE Append(failed, i)
                   /\ latch' = [latch EXCEPT ![BatchOf(i)] = @ - 1]
                   /\ task' = [task EXCEPT ![i] = "ended"]
                   /\ UNCHANGED <<suite, at, waiting>>

RunStep(i) == LET n == Len(results[i]) + 1
              IN  /\ task[i] = "running" /\ n <= Len(suite[i].steps)
                  /\ \E out \in Outcomes(suite[i].steps[n], results[i]) :
                       /\ results' = [results EXCEPT ![i] = Append(@, out)]
                       /\ IF out \in {RaisedExc, Early} THEN Verdict(i, "bad")
                          ELSE UNCHANGED <<suite, at, waiting, latch, task, passed, failed>>

(* res[-1], which must be a Result.                                        *)
Finish(i) == /\ task[i] = "running" /\ Len(results[i]) = Len(suite[i].steps)
             /\ Verdict(i, IF results[i] = <<>> THEN "bad" ELSE Last(results[i]))
             /\ UNCHANGED results

RunnerNext == \/ StartCases \/ AwaitAllCases
              \/ \E b \in Batches : Spawn(b)
              \/ \E i \in Cases : Begin(i) \/ RunStep(i) \/ Finish(i)
RunnerSpec == RunnerInit /\ [][RunnerNext]_rvars

Returned == at = End
(* stage.report.                                                           *)
Reported == failed = <<>>

-----------------------------------------------------------------------------
CasePassed(i) == results[i] # <<>> /\ Last(results[i]) = "ok"

(* When the stage returns, every case was run to its end and counted once, *)
(* however the batches and the steps were interleaved: the passed ones are *)
(* as many as ended in a passed Result, the failed ones are all the        *)
(* others, and the report says so (execution.py run, _run_case; report.py  *)
(* run).                                                                   *)
EachCaseCounted ==
    Returned => /\ \A i \in Cases : task[i] = "ended"
                /\ passed = Cardinality({i \in Cases : CasePassed(i)})
                /\ IsInjective(failed) /\ ToSet(failed) = {i \in Cases : ~ CasePassed(i)}
                /\ Reported <=> \A i \in Cases : CasePassed(i)

(* A case that asked for the console has it to itself (scheduling.py run). *)
ConsoleAlone ==
    \A i, j \in Cases : suite[i].console /\ i # j /\ task[i] = "running" => task[j] # "running"

(* What the report says of a suite: each case counted, and run as it asked *)
(* to be (stage/execution.py, stage/scheduling.py, stage/report.py).       *)
RunnerSound == EachCaseCounted /\ ConsoleAlone
=============================================================================
