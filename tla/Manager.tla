------------------------------- MODULE Manager -------------------------------
(***************************************************************************)
(* The manager's executions: permits, processes, the requests that start,  *)
(* stop and fetch them, and the garbage collector                          *)
(* (modules/implementation/src/manager/run.rs).                            *)
(*                                                                         *)
(* Permits come from a fair semaphore: requests wait in line and the first *)
(* is served as soon as enough permits are free.  A request dies when its  *)
(* client goes away; what it awaits is then dropped.                       *)
(***************************************************************************)
EXTENDS Integers, Sequences, FiniteSets, FiniteSetsExt, SequencesExt

CONSTANTS Execs,        \* ids of executions
          Sync,         \* those with is_sync: one permit, the others take two
          Permits,      \* permits at start (config.permits)
          Targets,      \* arguments of set_permits
          MaxSets       \* bound: calls of set_permits

ASSUME ManagerAssumption == /\ Execs \subseteq Nat \ {0} /\ IsFiniteSet(Execs) /\ Sync \subseteq Execs
                            /\ Permits \in Nat /\ Targets \subseteq Nat /\ MaxSets \in Nat

VARIABLES free,         \* permits.available_permits
          line,         \* requests waiting for permits
          limit,        \* PermitsData: max, num_throttled, and the permits withheld
          setting,      \* the call of set_permits that holds the mutex; and, as
                        \* history, the limit last answered, whether a lower one
                        \* was asked for since, and the limit last raised to
          exec,         \* the executions
          gc            \* gc_step: the copied keys, the one at hand, and who
                        \* was past the deadline when it read the clock

vars == <<free, line, limit, setting, exec, gc>>

NoExec == [phase |-> "none", held |-> 0, alive |-> FALSE, late |-> FALSE, result |-> FALSE, lock |-> "free"]
GcIdle == [on |-> FALSE, keys |-> {}, at |-> 0, overdue |-> {}]
NotSetting == [calls |-> 0, target |-> 0, waits |-> FALSE, told |-> Permits, open |-> FALSE, top |-> Permits]

Init == /\ free = Permits /\ line = <<>>
        /\ limit = [max |-> Permits, throttled |-> 0, withheld |-> 0]
        /\ setting = NotSetting
        /\ exec = [e \in Execs |-> NoExec]
        /\ gc = GcIdle

Needs(e) == IF e \in Sync THEN 1 ELSE 2
Known == {e \in Execs : exec[e].phase = "known"}
Ask(who, n) == [who |-> who, n |-> n]       \* who: an execution, 0 for set_permits
Leave(who) == \E i \in DOMAIN line : line[i].who = who /\ line' = RemoveAt(line, i)
Now(e, x) == exec' = [exec EXCEPT ![e] = x]

-----------------------------------------------------------------------------
(* start_genvm                                                             *)
Run(e) == /\ exec[e].phase = "none"
          /\ Now(e, [NoExec EXCEPT !.phase = "queued"])
          /\ line' = Append(line, Ask(e, Needs(e)))
          /\ UNCHANGED <<free, limit, setting, gc>>

(* The first in line gets its permits.                                     *)
Served == line # <<>> /\ line[1].n <= free
Grant(e) == /\ Served /\ line[1].who = e
            /\ free' = free - line[1].n /\ line' = Tail(line)
            /\ Now(e, [exec[e] EXCEPT !.phase = "granted", !.held = line[1].n])
            /\ UNCHANGED <<limit, setting, gc>>

(* The process is spawned and becomes known, or start_genvm fails and the  *)
(* permits it holds are dropped.                                           *)
Spawn(e) == /\ exec[e].phase = "granted"
            /\ \/ Now(e, [exec[e] EXCEPT !.phase = "known", !.alive = TRUE]) /\ UNCHANGED free
               \/ Now(e, [exec[e] EXCEPT !.phase = "gone", !.held = 0]) /\ free' = free + exec[e].held
            /\ UNCHANGED <<line, limit, setting, gc>>

(* The client of a waiting request goes away.                              *)
DropRun(e) == /\ exec[e].phase = "queued"
              /\ Now(e, [exec[e] EXCEPT !.phase = "gone"]) /\ Leave(e)
              /\ UNCHANGED <<free, limit, setting, gc>>

(* The process ends by itself; its strict deadline passes.                 *)
Exit(e)   == /\ exec[e].alive /\ Now(e, [exec[e] EXCEPT !.alive = FALSE])
             /\ UNCHANGED <<free, line, limit, setting, gc>>
Expire(e) == /\ exec[e].alive /\ ~ exec[e].late /\ Now(e, [exec[e] EXCEPT !.late = TRUE])
             /\ UNCHANGED <<free, line, limit, setting, gc>>

-----------------------------------------------------------------------------
(* check_proc, under the lock of the process handle: the permits are       *)
(* dropped first, the result is set once the output has been read.         *)
CheckProc(e, who) ==
    /\ exec[e].phase = "known" /\ ~ exec[e].result /\ exec[e].lock = "free" /\ ~ exec[e].alive
    /\ free' = free + exec[e].held
    /\ Now(e, [exec[e] EXCEPT !.held = 0, !.lock = who])
    /\ UNCHANGED <<line, limit, setting, gc>>

CheckDone(e) ==
    /\ exec[e].lock \in {"client", "gc"}
    /\ Now(e, [exec[e] EXCEPT !.lock = "free", !.result = TRUE])
    /\ UNCHANGED <<free, line, limit, setting, gc>>

CheckDropped(e) == /\ exec[e].lock = "client" /\ Now(e, [exec[e] EXCEPT !.lock = "free"])
                   /\ UNCHANGED <<free, line, limit, setting, gc>>

\* Mutant: a fetched status removes the execution whether or not it has ended
FetchAny(e) == /\ exec[e].phase = "known"
               /\ Now(e, [exec[e] EXCEPT !.phase = "gone"])
               /\ UNCHANGED <<free, line, limit, setting, gc>>

(* fetch_genvm_status removes an execution that has its result.            *)
Fetch(e) == /\ exec[e].phase = "known" /\ exec[e].result
            /\ Now(e, [exec[e] EXCEPT !.phase = "gone"])
            /\ UNCHANGED <<free, line, limit, setting, gc>>

(* graceful_shutdown holds the lock from SIGTERM until the process ends,   *)
(* is killed after the timeout, or the client goes away.                   *)
Shutdown(e) == /\ exec[e].phase = "known" /\ ~ exec[e].result /\ exec[e].alive /\ exec[e].lock = "free"
               /\ Now(e, [exec[e] EXCEPT !.lock = "term"])
               /\ UNCHANGED <<free, line, limit, setting, gc>>

ShutdownDone(e) == /\ exec[e].lock = "term"
                   /\ \/ Now(e, [exec[e] EXCEPT !.lock = "free", !.alive = FALSE])
                      \/ exec[e].alive /\ Now(e, [exec[e] EXCEPT !.lock = "free"])
                   /\ UNCHANGED <<free, line, limit, setting, gc>>

-----------------------------------------------------------------------------
(* gc_step                                                                 *)
GcStart == /\ ~ gc.on
           /\ gc' = [on |-> TRUE, keys |-> Known, at |-> 0, overdue |-> {e \in Known : exec[e].late}]
           /\ UNCHANGED <<free, line, limit, setting, exec>>

GcPick == /\ gc.on /\ gc.at = 0
          /\ \E e \in gc.keys : gc' = [gc EXCEPT !.keys = @ \ {e}, !.at = e]
          /\ UNCHANGED <<free, line, limit, setting, exec>>

(* Past its deadline a process is shut down with no time to wait.          *)
GcKill == /\ gc.at \in Known \cap gc.overdue /\ exec[gc.at].alive /\ exec[gc.at].lock = "free"
          /\ Now(gc.at, [exec[gc.at] EXCEPT !.alive = FALSE])
          /\ UNCHANGED <<free, line, limit, setting, gc>>

GcCheck == gc.at # 0 /\ CheckProc(gc.at, "gc")

(* On to the next key: the execution is gone, has a result or still runs.  *)
GcNext == /\ gc.at # 0
          /\ LET x == exec[gc.at] IN
             x.phase = "gone" \/ x.result \/ (x.alive /\ gc.at \notin gc.overdue /\ x.lock = "free")
          /\ gc' = [gc EXCEPT !.at = 0]
          /\ UNCHANGED <<free, line, limit, setting, exec>>

(* Results nobody fetched for a minute are forgotten.                      *)
GcEnd == /\ gc.on /\ gc.keys = {} /\ gc.at = 0
         /\ \E old \in SUBSET {e \in Known : exec[e].result} :
              exec' = [e \in Execs |-> IF e \in old THEN [exec[e] EXCEPT !.phase = "gone"] ELSE exec[e]]
         /\ gc' = GcIdle
         /\ UNCHANGED <<free, line, limit, setting>>

-----------------------------------------------------------------------------
(* set_permits                                                             *)

\* Mutant: the permits withheld before are not added to max again
KeepMax(l) == [l EXCEPT !.throttled = 0, !.withheld = 0]

(* What an earlier call withheld is given back first, and may be taken by  *)
(* others before the call is through.                                      *)
GiveBack(l) == [max |-> l.max + l.throttled, throttled |-> 0, withheld |-> 0]

SetPermits(target) ==
    LET back == GiveBack(limit)
        raise == target >= 2 /\ back.max <= target
        lower == target >= 2 /\ back.max > target
    IN  /\ ~ setting.waits /\ setting.calls < MaxSets
        /\ limit' = [back EXCEPT !.max = IF raise THEN target ELSE @]
        /\ setting' = [calls |-> setting.calls + 1, target |-> target, waits |-> lower,
                       told |-> IF lower THEN setting.told ELSE limit'.max,
                       open |-> lower, top |-> IF raise THEN target ELSE setting.top]
        /\ free' = free + limit.withheld + (IF raise THEN target - back.max ELSE 0)
        /\ line' = IF lower THEN Append(line, Ask(0, back.max - target)) ELSE line
        /\ UNCHANGED <<exec, gc>>

SetGranted == /\ Served /\ line[1].who = 0
              /\ free' = free - line[1].n /\ line' = Tail(line)
              /\ limit' = [max |-> setting.target, throttled |-> line[1].n, withheld |-> line[1].n]
              /\ setting' = [setting EXCEPT !.waits = FALSE, !.told = setting.target, !.open = FALSE]
              /\ UNCHANGED <<exec, gc>>

(* The client of a waiting call goes away; what was given back stays so.   *)
SetDropped == /\ setting.waits /\ Leave(0)
              /\ setting' = [setting EXCEPT !.waits = FALSE]
              /\ UNCHANGED <<free, limit, exec, gc>>

-----------------------------------------------------------------------------
Request(e) == Run(e) \/ DropRun(e) \/ Fetch(e) \/ Shutdown(e) \/ CheckProc(e, "client") \/ CheckDropped(e)
Progress(e) == Grant(e) \/ Spawn(e) \/ CheckDone(e) \/ ShutdownDone(e)
Gc == GcStart \/ GcPick \/ GcKill \/ GcCheck \/ GcNext \/ GcEnd

Next == \/ \E e \in Execs : Request(e) \/ Progress(e) \/ Exit(e) \/ Expire(e)
        \/ Gc \/ SetGranted \/ SetDropped
        \/ \E n \in Targets : SetPermits(n)

(* Tasks that can run do; deadlines pass; clients owe nothing.             *)
Fairness == /\ \A e \in Execs : WF_vars(Progress(e)) /\ WF_vars(Expire(e))
            /\ SF_vars(GcKill) /\ SF_vars(GcCheck) /\ WF_vars(GcStart \/ GcPick \/ GcEnd)
            /\ SF_vars(GcNext) /\ WF_vars(SetGranted)

Spec == Init /\ [][Next]_vars /\ Fairness

-----------------------------------------------------------------------------
TotalHeld == FoldFunctionOnSet(+, 0, [e \in Execs |-> exec[e].held], Execs)

(* Once set_permits has answered, the executions hold no more permits than *)
(* it said, until a lower limit is asked for.  From then until that call   *)
(* is answered, and for good if its client goes away, what earlier calls   *)
(* withheld runs again ("we can enter more genvms than we have permits"),  *)
(* up to the limit last raised to and no further (run.rs set_permits).     *)
HeldWithinLimit ==
    /\ ~ setting.open => TotalHeld <= setting.told
    /\ TotalHeld <= setting.top

(* Nobody waits for permits for ever: those of processes that ended or     *)
(* overran their deadline come back, whoever fetched, dropped or shut down *)
(* what meanwhile (run.rs start_genvm, check_proc, gc_step).               *)
WaitingEnds == \A e \in Execs : exec[e].phase = "queued" ~> exec[e].phase # "queued"
-----------------------------------------------------------------------------
(* The inductive invariant behind HeldWithinLimit.                         *)
Phases == {"none", "queued", "granted", "known", "gone"}
Locks  == {"free", "client", "gc", "term"}
Settings == [calls : Nat, target : Nat, waits : BOOLEAN, told : Nat, open : BOOLEAN, top : Nat]

TypeOK ==
    /\ free \in Nat
    /\ line \in Seq([who : Execs \cup {0}, n : Nat])
    /\ limit \in [max : Nat, throttled : Nat, withheld : Nat]
    /\ setting \in Settings
    /\ exec \in [Execs -> [phase : Phases, held : Nat, alive : BOOLEAN, late : BOOLEAN,
                           result : BOOLEAN, lock : Locks]]
    /\ gc \in [on : BOOLEAN, keys : SUBSET Execs, at : Execs \cup {0}, overdue : SUBSET Execs]

(* Who waits in line waits once, for what it asked: an execution that is   *)
(* queued, or the call of set_permits that holds the mutex, for what       *)
(* separates the maximum from its target.                                  *)
LineInv ==
    /\ \A i \in DOMAIN line :
         IF line[i].who = 0 THEN setting.waits /\ line[i].n = limit.max - setting.target
                            ELSE exec[line[i].who].phase = "queued"
    /\ \A i, j \in DOMAIN line : line[i].who = line[j].who => i = j

(* Permits are with a starting or running execution only: one that has its *)
(* result, or whose output is being read, has given them back.  Nobody     *)
(* looks at an execution before it is known.                               *)
MayHold(x) ==
    /\ x.held # 0 => x.phase \in {"granted", "known"} /\ ~ x.result /\ x.lock \in {"free", "term"}
    /\ x.phase \in {"none", "queued", "granted"} => ~ x.result /\ x.lock = "free"

HolderInv == \A e \in Execs : MayHold(exec[e])

(* Every permit of the maximum is free or held; what is withheld is what   *)
(* will be added to the maximum again.                                     *)
PermitsConserved == free + TotalHeld = limit.max /\ limit.throttled = limit.withheld

(* The maximum is the limit last answered unless a lower one was asked for *)
(* since, and with what is withheld it is the limit last raised to.        *)
LimitInv ==
    /\ ~ setting.open => setting.told = limit.max
    /\ limit.max + limit.throttled = setting.top
    /\ setting.waits => limit.throttled = 0

IndInv == TypeOK /\ LineInv /\ HolderInv /\ PermitsConserved /\ LimitInv
=============================================================================
