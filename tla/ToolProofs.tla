----------------------------- MODULE ToolProofs -----------------------------
(***************************************************************************)
(* Proofs about the tools around the program: the test runner counts every *)
(* case once for every suite, and the post-install script keeps its        *)
(* promise for every manifest, every registry and any number of crashes.   *)
(***************************************************************************)
EXTENDS TestRunner, Install, Sums

-----------------------------------------------------------------------------
(* The test runner: its schedule.                                          *)

Case == [console : BOOLEAN, steps : Seq(StepKinds)]
TaskStates == {"none", "queued", "ready", "running", "ended"}
Ends == {"exit0", "exit1", RaisedExc, Early, "ok", "bad", "none"}

\* The least element of a set of naturals (the order of the actions).
LEMMA LeastIs ==
  ASSUME NEW T \in SUBSET Nat, T # {}
  PROVE  Min(T) \in T /\ \A m \in T : Min(T) <= m
<1>1. \E n \in T : \A m \in T : n <= m
  BY LeastOf
<1> QED
  BY <1>1, Zenon DEF Min

\* Batches and the cases in them (scheduling.py run).
LEMMA BatchesAre ==
  ASSUME suite \in Seq(Case)
  PROVE  /\ Len(suite) \in Nat /\ Rest \in Nat /\ End \in Nat /\ Rest < End
         /\ Batches \subseteq 1 .. Rest
         /\ \A b \in Batches : CasesOf(b) \subseteq Cases
         /\ \A i \in Cases : BatchOf(i) \in Batches /\ \A b \in Batches : i \in CasesOf(b) <=> BatchOf(i) = b
         /\ \A i \in Cases : i \notin Others => suite[i].console /\ \A j \in Cases : BatchOf(j) = BatchOf(i) => j = i
         /\ \A i \in Cases : suite[i].console => i \notin Others
<1>1. PICK n \in Nat : n = Len(suite)
  OBVIOUS
<1>2. Cases = 1 .. n /\ Rest = n + 1 /\ End = n + 2 /\ Others \subseteq 1 .. n
  BY <1>1 DEF Cases, Rest, End, Others
<1>3. \A b \in Batches : (b \in 1 .. n /\ b \notin Others /\ b # Rest) \/ (b = Rest /\ Others # {})
  BY <1>2 DEF Batches
<1>4. Batches \subseteq 1 .. Rest
  BY <1>2, <1>3
<1>5. \A b \in Batches : CasesOf(b) \subseteq Cases
  BY <1>2, <1>3 DEF CasesOf
<1>6. \A i \in Cases : BatchOf(i) \in Batches
  BY <1>2 DEF BatchOf, Batches
<1>7. ASSUME NEW i \in Cases, NEW b \in Batches PROVE i \in CasesOf(b) <=> BatchOf(i) = b
  BY <1>2, <1>3, <1>7 DEF BatchOf, CasesOf
<1>8. ASSUME NEW i \in Cases, i \notin Others PROVE suite[i].console /\ \A j \in Cases : BatchOf(j) = BatchOf(i) => j = i
  <2>1. suite[i].console
    BY <1>8 DEF Others
  <2>2. \A j \in Cases : BatchOf(j) = BatchOf(i) => j = i
    BY <1>2, <1>8 DEF BatchOf
  <2> QED
    BY <2>1, <2>2
<1>9. \A i \in Cases : suite[i].console => i \notin Others
  BY DEF Others
<1> QED
  BY <1>1, <1>2, <1>4, <1>5, <1>6, <1>7, <1>8, <1>9

\* A case's batch, as a number.
LEMMA BatchNumber ==
  ASSUME suite \in Seq(Case), NEW i \in Cases
  PROVE  BatchOf(i) \in Nat /\ 1 <= BatchOf(i) /\ BatchOf(i) < End
<1>1. PICK n \in Nat : n = Rest
  BY BatchesAre
<1>2. BatchOf(i) \in 1 .. n
  BY <1>1, BatchesAre
<1> QED
  BY <1>1, <1>2, BatchesAre

\* The next batch is later and none is passed over.
LEMMA FollowingIs ==
  ASSUME suite \in Seq(Case), NEW b \in Nat, b < End
  PROVE  /\ Following(b) \in Batches \cup {End} /\ Following(b) \in Nat /\ b < Following(b)
         /\ \A c \in Batches : c <= b \/ Following(b) <= c
<1> DEFINE T == {c \in Batches : c > b} \cup {End}
<1>1. Batches \subseteq Nat /\ End \in Nat
  BY BatchesAre
<1>2. T \in SUBSET Nat /\ T # {}
  BY <1>1
<1>3. \A c \in T : b < c
  BY <1>1
<1>4. \A c \in Batches : c <= b \/ c \in T
  BY <1>1
<1>5. Following(b) = Min(T)
  BY DEF Following
<1>6. T \subseteq Batches \cup {End}
  OBVIOUS
<1> HIDE DEF T
<1>7. Min(T) \in T /\ \A m \in T : Min(T) <= m
  BY <1>2, LeastIs
<1> QED
  BY <1>2, <1>3, <1>4, <1>5, <1>6, <1>7

\* The batches are finite.
LEMMA CasesFinite ==
  ASSUME suite \in Seq(Case)
  PROVE  IsFiniteSet(Cases) /\ \A S : S \subseteq Cases => IsFiniteSet(S) /\ Cardinality(S) \in Nat
<1>1. Len(suite) \in Nat
  OBVIOUS
<1>2. IsFiniteSet(Cases)
  BY <1>1, FS_Interval DEF Cases
<1>3. ASSUME NEW S, S \subseteq Cases PROVE IsFiniteSet(S) /\ Cardinality(S) \in Nat
  BY <1>2, <1>3, FS_Subset, FS_CardinalityType
<1> QED
  BY <1>2, <1>3

-----------------------------------------------------------------------------
(* The invariant of the stage, over the variables a step changes.          *)

PassedIn(r, i) == r[i] # <<>> /\ Last(r[i]) = "ok"

Types(a, w, l, t, r, p, f) ==
  /\ a \in Batches \cup {End} /\ w \in BOOLEAN /\ (w => a # End)
  /\ l \in [1 .. Rest -> Int] /\ t \in [Cases -> TaskStates] /\ r \in [Cases -> Seq(Ends)]
  /\ p \in Nat /\ f \in Seq(Cases)

\* The batches before the one at hand have ended, the later ones not begun.
InOrder(a, w, t) ==
  \A i \in Cases : /\ BatchOf(i) < a => t[i] = "ended"
                   /\ (BatchOf(i) > a \/ (BatchOf(i) = a /\ ~ w)) => t[i] = "none"
                   /\ BatchOf(i) = a /\ w => t[i] # "none"

Unfinished(t, a) == {i \in CasesOf(a) : t[i] # "ended"}

\* The latch of the batch that is waited for counts its cases that have not ended.
LatchTrue(a, w, l, t) == w => l[a] = Cardinality(Unfinished(t, a))

EndedWell(t, r) == {i \in Cases : t[i] = "ended" /\ PassedIn(r, i)}
EndedBadly(t, r) == {i \in Cases : t[i] = "ended" /\ ~ PassedIn(r, i)}

\* Every case that has ended is counted once, on the right side.
Tally(t, r, p, f) ==
  /\ p = Cardinality(EndedWell(t, r))
  /\ IsInjective(f) /\ ToSet(f) = EndedBadly(t, r)

InvOf(a, w, l, t, r, p, f) ==
  /\ suite \in Seq(Case) /\ Types(a, w, l, t, r, p, f)
  /\ InOrder(a, w, t) /\ LatchTrue(a, w, l, t) /\ Tally(t, r, p, f)

RunnerInv == InvOf(at, waiting, latch, task, results, passed, failed)

\* The suite does not change, so neither does what is scheduled.
LEMMA InvThen ==
  ASSUME suite' = suite, InvOf(at', waiting', latch', task', results', passed', failed')
  PROVE  RunnerInv'
<1>1. Cases' = Cases /\ Others' = Others /\ Rest' = Rest /\ End' = End /\ Batches' = Batches
  BY DEF Cases, Others, Rest, End, Batches
<1>2. \A x : BatchOf(x)' = BatchOf(x) /\ CasesOf(x)' = CasesOf(x)
  BY DEF BatchOf, CasesOf, Cases, Others, Rest
<1> QED
  BY <1>1, <1>2 DEF RunnerInv, InvOf, Types, InOrder, LatchTrue, Unfinished, Tally, EndedWell, EndedBadly, PassedIn

-----------------------------------------------------------------------------
(* The steps of the stage.                                                 *)

\* What the invariant says, for a suite that may be scheduled.
LEMMA InvParts ==
  ASSUME RunnerInv
  PROVE  /\ suite \in Seq(Case) /\ Types(at, waiting, latch, task, results, passed, failed)
         /\ InOrder(at, waiting, task) /\ LatchTrue(at, waiting, latch, task)
         /\ Tally(task, results, passed, failed)
         /\ at \in Nat /\ Batches \subseteq 1 .. Rest /\ Rest \in Nat /\ End \in Nat
<1>1. /\ suite \in Seq(Case) /\ Types(at, waiting, latch, task, results, passed, failed)
      /\ InOrder(at, waiting, task) /\ LatchTrue(at, waiting, latch, task)
      /\ Tally(task, results, passed, failed)
  BY DEF RunnerInv, InvOf
<1>2. Batches \subseteq 1 .. Rest /\ Rest \in Nat /\ End \in Nat
  BY <1>1, BatchesAre
<1>3. at \in Nat
  BY <1>1, <1>2 DEF Types
<1> QED
  BY <1>1, <1>2, <1>3

\* Before the first action no case has begun and none is counted.
LEMMA RunnerInvInit == RunnerInit => RunnerInv
<1> SUFFICES ASSUME RunnerInit PROVE RunnerInv
  OBVIOUS
<1>1. suite \in Seq(Case)
  BY SuitesAssumption DEF RunnerInit, Case
<1>2. PICK n \in Nat : n = Len(suite) /\ Rest = n + 1 /\ End = n + 2 /\ Cases = 1 .. n
  BY <1>1 DEF Rest, End, Cases
<1>3. /\ Following(0) \in Batches \cup {End} /\ Following(0) \in Nat /\ 0 < Following(0)
      /\ \A c \in Batches : c <= 0 \/ Following(0) <= c
  BY <1>1, <1>2, FollowingIs
<1>4. /\ at = Following(0) /\ waiting = FALSE /\ latch = [b \in 1 .. Rest |-> 0]
      /\ task = [i \in Cases |-> "none"] /\ results = [i \in Cases |-> <<>>] /\ passed = 0 /\ failed = <<>>
  BY DEF RunnerInit
<1>5. Types(at, waiting, latch, task, results, passed, failed)
  <2>1. <<>> \in Seq(Ends) /\ <<>> \in Seq(Cases)
    OBVIOUS
  <2>2. results \in [Cases -> Seq(Ends)]
    BY <1>4, <2>1
  <2>3. task \in [Cases -> TaskStates]
    BY <1>4 DEF TaskStates
  <2>4. latch \in [1 .. Rest -> Int]
    BY <1>4
  <2> QED
    BY <1>3, <1>4, <2>1, <2>2, <2>3, <2>4 DEF Types
<1>6. InOrder(at, waiting, task)
  <2> SUFFICES ASSUME NEW i \in Cases PROVE ~ (BatchOf(i) < at) /\ task[i] = "none" /\ ~ waiting
    BY DEF InOrder
  <2>1. BatchOf(i) \in Batches /\ BatchOf(i) \in Nat /\ 1 <= BatchOf(i)
    BY <1>1, BatchesAre, BatchNumber
  <2>2. at <= BatchOf(i)
    BY <1>3, <1>4, <2>1
  <2> QED
    BY <1>3, <1>4, <2>1, <2>2
<1>7. LatchTrue(at, waiting, latch, task)
  BY <1>4 DEF LatchTrue
<1>8. Tally(task, results, passed, failed)
  <2>1. EndedWell(task, results) = {} /\ EndedBadly(task, results) = {}
    BY <1>4 DEF EndedWell, EndedBadly
  <2>2. IsInjective(failed) /\ ToSet(failed) = {}
    BY <1>4 DEF IsInjective, ToSet
  <2> QED
    BY <1>4, <2>1, <2>2, FS_EmptySet DEF Tally
<1> QED
  BY <1>1, <1>5, <1>6, <1>7, <1>8 DEF RunnerInv, InvOf

\* Who has ended, and how, is as before when no case ends.
LEMMA TallySame ==
  ASSUME NEW t, NEW u, NEW r, NEW q, NEW p, NEW f, Tally(t, r, p, f),
         \A i \in Cases : u[i] = "ended" <=> t[i] = "ended",
         \A i \in Cases : t[i] = "ended" => q[i] = r[i]
  PROVE  Tally(u, q, p, f)
<1>1. EndedWell(u, q) = EndedWell(t, r) /\ EndedBadly(u, q) = EndedBadly(t, r)
  BY DEF EndedWell, EndedBadly, PassedIn
<1> QED
  BY <1>1 DEF Tally

\* StartCases: the latch is set to the number of the batch's cases.
LEMMA StartInv == RunnerInv /\ StartCases => RunnerInv'
<1> SUFFICES ASSUME RunnerInv, StartCases PROVE RunnerInv'
  OBVIOUS
<1>1. /\ suite \in Seq(Case) /\ Types(at, waiting, latch, task, results, passed, failed)
      /\ InOrder(at, waiting, task) /\ Tally(task, results, passed, failed)
      /\ at \in Nat /\ Batches \subseteq 1 .. Rest /\ Rest \in Nat
  BY InvParts
<1>2. /\ at # End /\ waiting = FALSE
      /\ latch' = [latch EXCEPT ![at] = Cardinality(CasesOf(at))]
      /\ task' = [i \in Cases |-> IF i \in CasesOf(at) THEN "queued" ELSE task[i]]
      /\ waiting' = TRUE /\ suite' = suite /\ at' = at /\ results' = results /\ passed' = passed /\ failed' = failed
  BY <1>1 DEF StartCases, Latch, Types
<1>3. at \in Batches /\ at \in 1 .. Rest /\ CasesOf(at) \subseteq Cases
  BY <1>1, <1>2, BatchesAre DEF Types
<1>4. \A i \in Cases : i \in CasesOf(at) <=> BatchOf(i) = at
  BY <1>1, <1>3, BatchesAre
<1>5. \A i \in Cases : BatchOf(i) \in Nat
  BY <1>1, BatchNumber
<1>6. \A i \in CasesOf(at) : task[i] = "none" /\ task'[i] = "queued"
  BY <1>1, <1>2, <1>3, <1>4 DEF InOrder
<1>7. \A i \in Cases : i \notin CasesOf(at) => task'[i] = task[i]
  BY <1>2
<1>8. Types(at', waiting', latch', task', results', passed', failed')
  <2>1. Cardinality(CasesOf(at)) \in Nat
    BY <1>1, <1>3, CasesFinite
  <2>2. latch' \in [1 .. Rest -> Int]
    BY <1>1, <1>2, <2>1 DEF Types
  <2>3. task' \in [Cases -> TaskStates]
    BY <1>1, <1>2 DEF Types, TaskStates
  <2> QED
    BY <1>1, <1>2, <2>2, <2>3 DEF Types
<1>9. InOrder(at', waiting', task')
  BY <1>1, <1>2, <1>4, <1>5, <1>6, <1>7 DEF InOrder
<1>10. LatchTrue(at', waiting', latch', task')
  <2>1. Unfinished(task', at) = CasesOf(at)
    BY <1>6 DEF Unfinished
  <2>2. latch'[at] = Cardinality(CasesOf(at))
    BY <1>1, <1>2, <1>3 DEF Types
  <2> QED
    BY <1>2, <2>1, <2>2 DEF LatchTrue
<1>11. Tally(task', results', passed', failed')
  <2>1. \A i \in Cases : task'[i] = "ended" <=> task[i] = "ended"
    BY <1>6, <1>7
  <2> QED
    BY <1>1, <1>2, <2>1, TallySame
<1> QED
  BY <1>1, <1>2, <1>8, <1>9, <1>10, <1>11, InvThen DEF InvOf

\* AwaitAllCases: the latch is zero only if every case of the batch has ended.
LEMMA AwaitInv == RunnerInv /\ AwaitAllCases => RunnerInv'
<1> SUFFICES ASSUME RunnerInv, AwaitAllCases PROVE RunnerInv'
  OBVIOUS
<1>1. /\ suite \in Seq(Case) /\ Types(at, waiting, latch, task, results, passed, failed)
      /\ InOrder(at, waiting, task) /\ LatchTrue(at, waiting, latch, task)
      /\ Tally(task, results, passed, failed)
      /\ at \in Nat /\ Batches \subseteq 1 .. Rest /\ Rest \in Nat /\ End \in Nat
  BY InvParts
<1>2. /\ at # End /\ waiting = TRUE /\ latch[at] = 0
      /\ at' = Following(at) /\ waiting' = FALSE
      /\ UNCHANGED <<suite, latch, task, results, passed, failed>>
  BY <1>1 DEF AwaitAllCases, Types
<1>3. at \in Batches /\ at < End /\ CasesOf(at) \subseteq Cases
  BY <1>1, <1>2, BatchesAre DEF Types
<1>4. /\ Following(at) \in Batches \cup {End} /\ Following(at) \in Nat /\ at < Following(at)
      /\ \A c \in Batches : c <= at \/ Following(at) <= c
  BY <1>1, <1>3, FollowingIs
<1>5. \A i \in CasesOf(at) : task[i] = "ended"
  <2>1. Unfinished(task, at) \subseteq Cases /\ Cardinality(Unfinished(task, at)) = 0
    BY <1>1, <1>2, <1>3 DEF LatchTrue, Unfinished
  <2>2. IsFiniteSet(Unfinished(task, at))
    BY <1>1, <2>1, CasesFinite
  <2>3. Unfinished(task, at) = {}
    BY <2>1, <2>2, FS_EmptySet
  <2> QED
    BY <2>3 DEF Unfinished
<1>6. InOrder(at', waiting', task')
  <2> SUFFICES ASSUME NEW i \in Cases
               PROVE  /\ BatchOf(i) < at' => task[i] = "ended"
                      /\ (BatchOf(i) > at' \/ BatchOf(i) = at') => task[i] = "none"
    BY <1>2 DEF InOrder
  <2>1. BatchOf(i) \in Batches /\ BatchOf(i) \in Nat /\ (BatchOf(i) = at => i \in CasesOf(at))
    BY <1>1, <1>3, BatchesAre, BatchNumber
  <2>2. BatchOf(i) <= at \/ at' <= BatchOf(i)
    BY <1>2, <1>4, <2>1
  <2>3. BatchOf(i) < at => task[i] = "ended"
    BY <1>1 DEF InOrder
  <2>4. BatchOf(i) > at => task[i] = "none"
    BY <1>1 DEF InOrder
  <2> QED
    BY <1>1, <1>2, <1>4, <1>5, <2>1, <2>2, <2>3, <2>4
<1>7. Types(at', waiting', latch', task', results', passed', failed')
  BY <1>1, <1>2, <1>4 DEF Types
<1>8. LatchTrue(at', waiting', latch', task')
  BY <1>2 DEF LatchTrue
<1> QED
  BY <1>1, <1>2, <1>6, <1>7, <1>8, InvThen DEF InvOf

\* A task that moves on without an end changes no count: it was started
\* before and has not ended after.
LEMMA MovesOn ==
  ASSUME RunnerInv, NEW u \in [Cases -> TaskStates], NEW q \in [Cases -> Seq(Ends)],
         \A i \in Cases : u[i] # task[i] => task[i] \notin {"none", "ended"} /\ u[i] \notin {"none", "ended"},
         \A i \in Cases : q[i] # results[i] => task[i] = "running",
         UNCHANGED <<suite, at, waiting, latch, passed, failed>>, task' = u, results' = q
  PROVE  RunnerInv'
<1>1. /\ suite \in Seq(Case) /\ Types(at, waiting, latch, task, results, passed, failed)
      /\ InOrder(at, waiting, task) /\ LatchTrue(at, waiting, latch, task)
      /\ Tally(task, results, passed, failed)
      /\ at \in Nat /\ Batches \subseteq 1 .. Rest
  BY InvParts
<1>2. \A i \in Cases : (u[i] = "ended" <=> task[i] = "ended") /\ (u[i] = "none" <=> task[i] = "none")
  OBVIOUS
<1>3. Types(at', waiting', latch', task', results', passed', failed')
  BY <1>1 DEF Types
<1>4. InOrder(at', waiting', task')
  BY <1>1, <1>2 DEF InOrder
<1>5. LatchTrue(at', waiting', latch', task')
  <2>1. CASE waiting
    <3>1. at \in Batches
      BY <1>1, <2>1 DEF Types
    <3>2. CasesOf(at) \subseteq Cases
      BY <1>1, <3>1, BatchesAre
    <3>3. Unfinished(u, at) = Unfinished(task, at)
      BY <1>2, <3>2 DEF Unfinished
    <3> QED
      BY <1>1, <3>3 DEF LatchTrue
  <2>2. CASE ~ waiting
    BY <2>2 DEF LatchTrue
  <2> QED
    BY <2>1, <2>2
<1>6. Tally(task', results', passed', failed')
  <2>1. \A i \in Cases : task[i] = "ended" => q[i] = results[i]
    OBVIOUS
  <2> QED
    BY <1>1, <1>2, <2>1, TallySame
<1> QED
  BY <1>1, <1>3, <1>4, <1>5, <1>6, InvThen DEF InvOf

\* A sequence without repetitions gets a new element.
LEMMA AppendOnce ==
  ASSUME NEW S, NEW f \in Seq(S), IsInjective(f), NEW x \in S, x \notin ToSet(f)
  PROVE  IsInjective(Append(f, x)) /\ ToSet(Append(f, x)) = ToSet(f) \cup {x}
<1>1. PICK n \in Nat : n = Len(f) /\ DOMAIN f = 1 .. n
  OBVIOUS
<1>2. PICK g : g = Append(f, x)
  OBVIOUS
<1>3. DOMAIN g = 1 .. (n + 1) /\ g[n + 1] = x /\ \A k \in 1 .. n : g[k] = f[k]
  BY <1>1, <1>2
<1>4. ToSet(f) = {f[k] : k \in 1 .. n} /\ ToSet(g) = {g[k] : k \in 1 .. (n + 1)}
  BY <1>1, <1>3 DEF ToSet
<1>5. \A k \in 1 .. (n + 1) : k \in 1 .. n \/ k = n + 1
  OBVIOUS
<1>6. ToSet(g) = ToSet(f) \cup {x}
  <2>1. ASSUME NEW y \in ToSet(g) PROVE y \in ToSet(f) \cup {x}
    BY <1>3, <1>4, <1>5, <2>1
  <2>2. ASSUME NEW y \in ToSet(f) PROVE y \in ToSet(g)
    <3>1. PICK k \in 1 .. n : y = f[k]
      BY <1>4, <2>2
    <3> QED
      BY <1>3, <1>4, <3>1
  <2>3. x \in ToSet(g)
    BY <1>3, <1>4
  <2> QED
    BY <2>1, <2>2, <2>3
<1>7. ASSUME NEW j \in 1 .. (n + 1), NEW k \in 1 .. (n + 1), g[j] = g[k] PROVE j = k
  <2>1. \A m \in 1 .. n : g[m] # x
    BY <1>3, <1>4
  <2>2. \A a, b \in 1 .. n : f[a] = f[b] => a = b
    BY <1>1 DEF IsInjective
  <2> QED
    BY <1>3, <1>5, <1>7, <2>1, <2>2
<1>8. IsInjective(g)
  BY <1>3, <1>7 DEF IsInjective
<1> QED
  BY <1>2, <1>6, <1>8

\* The end of a case: it leaves the unfinished of the batch that is waited
\* for, and is counted on the side its result puts it.
LEMMA VerdictInv ==
  ASSUME RunnerInv, NEW i \in Cases, task[i] = "running", NEW res, Verdict(i, res),
         results' \in [Cases -> Seq(Ends)], \A j \in Cases : j # i => results'[j] = results[j],
         res = "ok" <=> PassedIn(results', i)
  PROVE  RunnerInv'
<1>1. /\ suite \in Seq(Case) /\ Types(at, waiting, latch, task, results, passed, failed)
      /\ InOrder(at, waiting, task) /\ LatchTrue(at, waiting, latch, task)
      /\ Tally(task, results, passed, failed)
      /\ at \in Nat /\ Batches \subseteq 1 .. Rest /\ Rest \in Nat
  BY InvParts
<1>2. /\ passed' = IF res = "ok" THEN passed + 1 ELSE passed
      /\ failed' = IF res = "ok" THEN failed ELSE Append(failed, i)
      /\ latch' = [latch EXCEPT ![BatchOf(i)] = latch[BatchOf(i)] - 1]
      /\ task' = [task EXCEPT ![i] = "ended"]
      /\ suite' = suite /\ at' = at /\ waiting' = waiting
  BY DEF Verdict
<1>3. /\ task' \in [Cases -> TaskStates] /\ task'[i] = "ended"
      /\ \A j \in Cases : j # i => task'[j] = task[j]
  BY <1>1, <1>2 DEF Types, TaskStates
<1>4. BatchOf(i) = at /\ waiting
  <2>1. BatchOf(i) \in Nat
    BY <1>1, BatchNumber
  <2> QED
    BY <1>1, <2>1 DEF InOrder
<1>5. at \in Batches /\ at \in 1 .. Rest /\ CasesOf(at) \subseteq Cases /\ i \in CasesOf(at)
  BY <1>1, <1>4, BatchesAre DEF Types
<1>6. latch' \in [1 .. Rest -> Int] /\ latch'[at] = latch[at] - 1
  BY <1>1, <1>2, <1>4, <1>5 DEF Types
<1>7. Types(at', waiting', latch', task', results', passed', failed')
  <2>1. passed' \in Nat
    BY <1>1, <1>2 DEF Types
  <2>2. failed' \in Seq(Cases)
    BY <1>1, <1>2 DEF Types
  <2> QED
    BY <1>1, <1>2, <1>3, <1>6, <2>1, <2>2 DEF Types
<1>8. InOrder(at', waiting', task')
  <2> SUFFICES ASSUME NEW j \in Cases
               PROVE  /\ BatchOf(j) < at => task'[j] = "ended"
                      /\ (BatchOf(j) > at \/ (BatchOf(j) = at /\ ~ waiting)) => task'[j] = "none"
                      /\ BatchOf(j) = at /\ waiting => task'[j] # "none"
    BY <1>2 DEF InOrder
  <2>1. CASE j = i
    BY <1>1, <1>3, <1>4, <2>1
  <2>2. CASE j # i
    BY <1>1, <1>3, <2>2 DEF InOrder
  <2> QED
    BY <2>1, <2>2
<1>9. LatchTrue(at', waiting', latch', task')
  <2>1. Unfinished(task, at) \subseteq Cases /\ i \in Unfinished(task, at)
    BY <1>5 DEF Unfinished
  <2>2. Unfinished(task', at) = Unfinished(task, at) \ {i}
    BY <1>3, <1>5 DEF Unfinished
  <2>3. IsFiniteSet(Unfinished(task, at)) /\ Cardinality(Unfinished(task, at)) \in Nat
    BY <1>1, <2>1, CasesFinite
  <2>4. Cardinality(Unfinished(task', at)) = Cardinality(Unfinished(task, at)) - 1
    BY <2>1, <2>2, <2>3, FS_RemoveElement
  <2> QED
    BY <1>1, <1>2, <1>4, <1>6, <2>4 DEF LatchTrue
<1>10. Tally(task', results', passed', failed')
  <2>1. /\ passed = Cardinality(EndedWell(task, results)) /\ IsInjective(failed)
        /\ ToSet(failed) = EndedBadly(task, results) /\ failed \in Seq(Cases)
    BY <1>1 DEF Tally, Types
  <2>2. /\ i \notin EndedWell(task, results) /\ i \notin EndedBadly(task, results)
        /\ EndedWell(task, results) \subseteq Cases
    BY DEF EndedWell, EndedBadly
  <2>3. \A j \in Cases : j # i => (PassedIn(results', j) <=> PassedIn(results, j))
    BY DEF PassedIn
  <2>4. CASE res = "ok"
    <3>1. EndedWell(task', results') = EndedWell(task, results) \cup {i}
      BY <1>3, <2>3, <2>4 DEF EndedWell
    <3>2. EndedBadly(task', results') = EndedBadly(task, results)
      BY <1>3, <2>2, <2>3, <2>4 DEF EndedBadly
    <3>3. IsFiniteSet(EndedWell(task, results))
      BY <1>1, <2>2, CasesFinite
    <3>4. Cardinality(EndedWell(task', results')) = Cardinality(EndedWell(task, results)) + 1
      BY <2>2, <3>1, <3>3, FS_AddElement
    <3> QED
      BY <1>2, <2>1, <2>4, <3>2, <3>4 DEF Tally
  <2>5. CASE res # "ok"
    <3>1. EndedWell(task', results') = EndedWell(task, results)
      BY <1>3, <2>2, <2>3, <2>5 DEF EndedWell
    <3>2. EndedBadly(task', results') = EndedBadly(task, results) \cup {i}
      BY <1>3, <2>3, <2>5 DEF EndedBadly
    <3>3. IsInjective(Append(failed, i)) /\ ToSet(Append(failed, i)) = ToSet(failed) \cup {i}
      BY <2>1, <2>2, AppendOnce
    <3> QED
      BY <1>2, <2>1, <2>5, <3>1, <3>2, <3>3 DEF Tally
  <2> QED
    BY <2>4, <2>5
<1> QED
  BY <1>1, <1>2, <1>7, <1>8, <1>9, <1>10, InvThen DEF InvOf

\* What a step returns is one of the results a case can have.
LEMMA OutcomesAre ==
  ASSUME NEW step \in StepKinds, NEW before
  PROVE  Outcomes(step, before) \subseteq Ends
<1>1. \A e : CommandToResult(e) \in Ends /\ ResultStopIfError(e) \in Ends
  BY DEF CommandToResult, ResultStopIfError, Ends, RaisedExc, Early
<1>2. RunCommand \subseteq Ends /\ "ok" \in Ends
  BY DEF RunCommand, Ends, RaisedExc
<1> QED
  BY <1>1, <1>2 DEF Outcomes, StepKinds

\* _run_cases and the first steps of a case: tasks are created and begin.
LEMMA SpawnInv == ASSUME RunnerInv, NEW b \in Batches, Spawn(b) PROVE RunnerInv'
<1>1. task \in [Cases -> TaskStates] /\ results \in [Cases -> Seq(Ends)]
  BY InvParts DEF Types
<1>2. PICK u : u = task' /\ u = [i \in Cases |-> IF i \in CasesOf(b) /\ task[i] = "queued" THEN "ready" ELSE task[i]]
  BY DEF Spawn
<1>3. u \in [Cases -> TaskStates]
  BY <1>1, <1>2 DEF TaskStates
<1>4. \A i \in Cases : u[i] # task[i] => task[i] = "queued" /\ u[i] = "ready"
  BY <1>2
<1>5. UNCHANGED <<suite, at, waiting, latch, passed, failed>> /\ results' = results
  BY DEF Spawn
<1> QED
  BY <1>1, <1>2, <1>3, <1>4, <1>5, MovesOn

\* A case begins.
LEMMA BeginInv == ASSUME RunnerInv, NEW i \in Cases, Begin(i) PROVE RunnerInv'
<1>1. task \in [Cases -> TaskStates] /\ results \in [Cases -> Seq(Ends)]
  BY InvParts DEF Types
<1>2. task[i] = "ready" /\ task' = [task EXCEPT ![i] = "running"]
  BY DEF Begin
<1>3. task' \in [Cases -> TaskStates]
  BY <1>1, <1>2 DEF TaskStates
<1>4. \A j \in Cases : task'[j] # task[j] => task[j] = "ready" /\ task'[j] = "running"
  BY <1>1, <1>2
<1>5. UNCHANGED <<suite, at, waiting, latch, passed, failed>> /\ results' = results
  BY DEF Begin
<1> QED
  BY <1>1, <1>3, <1>4, <1>5, MovesOn

\* A step of a case returns, or ends the case with a result that is no pass.
LEMMA StepInv == ASSUME RunnerInv, NEW i \in Cases, RunStep(i) PROVE RunnerInv'
<1>1. /\ task \in [Cases -> TaskStates] /\ results \in [Cases -> Seq(Ends)] /\ suite \in Seq(Case)
  BY InvParts DEF Types
<1>2. PICK n : n = Len(results[i]) + 1
  OBVIOUS
<1>3. /\ task[i] = "running" /\ n <= Len(suite[i].steps)
      /\ \E out \in Outcomes(suite[i].steps[n], results[i]) :
            /\ results' = [results EXCEPT ![i] = Append(results[i], out)]
            /\ IF out \in {RaisedExc, Early} THEN Verdict(i, "bad")
               ELSE UNCHANGED <<suite, at, waiting, latch, task, passed, failed>>
  BY <1>2 DEF RunStep
<1>4. PICK out \in Outcomes(suite[i].steps[n], results[i]) :
            /\ results' = [results EXCEPT ![i] = Append(results[i], out)]
            /\ IF out \in {RaisedExc, Early} THEN Verdict(i, "bad")
               ELSE UNCHANGED <<suite, at, waiting, latch, task, passed, failed>>
  BY <1>3
<1>5. suite[i].steps[n] \in StepKinds
  <2>1. suite[i] \in Case
    BY <1>1 DEF Cases
  <2>2. suite[i].steps \in Seq(StepKinds)
    BY <2>1 DEF Case
  <2>3. results[i] \in Seq(Ends)
    BY <1>1
  <2>4. n \in 1 .. Len(suite[i].steps)
    BY <1>2, <1>3, <2>2, <2>3
  <2> QED
    BY <2>2, <2>4
<1>6. out \in Ends
  BY <1>4, <1>5, OutcomesAre
<1>7. /\ results' \in [Cases -> Seq(Ends)] /\ results'[i] = Append(results[i], out)
      /\ \A j \in Cases : j # i => results'[j] = results[j]
  BY <1>1, <1>4, <1>6
<1>8. CASE out \in {RaisedExc, Early}
  <2>1. results[i] \in Seq(Ends)
    BY <1>1
  <2>2. Last(results'[i]) = out
    BY <1>6, <1>7, <2>1 DEF Last
  <2>3. ~ PassedIn(results', i)
    BY <1>8, <2>2 DEF PassedIn, RaisedExc, Early
  <2> QED
    BY <1>3, <1>4, <1>7, <1>8, <2>3, VerdictInv
<1>9. CASE out \notin {RaisedExc, Early}
  <2>1. UNCHANGED <<suite, at, waiting, latch, task, passed, failed>>
    BY <1>4, <1>9
  <2>2. \A j \in Cases : results'[j] # results[j] => task[j] = "running"
    BY <1>3, <1>7
  <2> QED
    BY <1>1, <1>7, <2>1, <2>2, MovesOn
<1> QED
  BY <1>8, <1>9

\* The last step of a case has returned.
LEMMA FinishInv == ASSUME RunnerInv, NEW i \in Cases, Finish(i) PROVE RunnerInv'
<1>1. results \in [Cases -> Seq(Ends)]
  BY InvParts DEF Types
<1>2. PICK res : res = IF results[i] = <<>> THEN "bad" ELSE Last(results[i])
  OBVIOUS
<1>3. task[i] = "running" /\ Verdict(i, res) /\ results' = results
  BY <1>2 DEF Finish
<1>4. res = "ok" <=> PassedIn(results', i)
  BY <1>2, <1>3 DEF PassedIn
<1> QED
  BY <1>1, <1>3, <1>4, VerdictInv

\* The invariant is inductive.
LEMMA RunnerInvStep == RunnerInv /\ [RunnerNext]_rvars => RunnerInv'
<1>1. ASSUME RunnerInv, UNCHANGED rvars PROVE RunnerInv'
  <2>1. UNCHANGED <<suite, at, waiting, latch, task, results, passed, failed>>
    BY <1>1 DEF rvars
  <2>2. InvOf(at', waiting', latch', task', results', passed', failed')
    BY <1>1, <2>1 DEF RunnerInv
  <2> QED
    BY <2>1, <2>2, InvThen
<1> QED
  BY <1>1, StartInv, AwaitInv, SpawnInv, BeginInv, StepInv, FinishInv DEF RunnerNext

\* At the end every case has ended, so the tally is of all of them.
LEMMA CountedAtEnd == RunnerInv => EachCaseCounted
<1> SUFFICES ASSUME RunnerInv, Returned
             PROVE  /\ \A i \in Cases : task[i] = "ended"
                    /\ passed = Cardinality({i \in Cases : CasePassed(i)})
                    /\ IsInjective(failed) /\ ToSet(failed) = {i \in Cases : ~ CasePassed(i)}
                    /\ Reported <=> \A i \in Cases : CasePassed(i)
  BY DEF EachCaseCounted
<1>1. /\ suite \in Seq(Case) /\ Types(at, waiting, latch, task, results, passed, failed)
      /\ InOrder(at, waiting, task) /\ Tally(task, results, passed, failed)
  BY InvParts
<1>2. at = End
  BY DEF Returned
<1>3. \A i \in Cases : task[i] = "ended"
  BY <1>1, <1>2, BatchNumber DEF InOrder
<1>4. \A i \in Cases : PassedIn(results, i) <=> CasePassed(i)
  BY DEF PassedIn, CasePassed
<1>5. EndedWell(task, results) = {i \in Cases : CasePassed(i)}
  BY <1>3, <1>4 DEF EndedWell
<1>6. EndedBadly(task, results) = {i \in Cases : ~ CasePassed(i)}
  BY <1>3, <1>4 DEF EndedBadly
<1>7. failed = <<>> <=> ToSet(failed) = {}
  <2>1. failed \in Seq(Cases)
    BY <1>1 DEF Types
  <2>2. PICK n \in Nat : n = Len(failed) /\ DOMAIN failed = 1 .. n
    BY <2>1
  <2>3. failed = <<>> <=> n = 0
    BY <2>1, <2>2
  <2>4. n # 0 => failed[1] \in ToSet(failed)
    BY <2>2 DEF ToSet
  <2>5. n = 0 => ToSet(failed) = {}
    BY <2>2 DEF ToSet
  <2> QED
    BY <2>3, <2>4, <2>5
<1>8. Reported <=> \A i \in Cases : CasePassed(i)
  BY <1>1, <1>6, <1>7 DEF Tally, Reported
<1> QED
  BY <1>1, <1>3, <1>5, <1>6, <1>8 DEF Tally

\* Only the cases of one batch run, and a case for the console is alone in its batch.
LEMMA AloneInBatch == RunnerInv => ConsoleAlone
<1> SUFFICES ASSUME RunnerInv, NEW i \in Cases, NEW j \in Cases,
                    suite[i].console, i # j, task[i] = "running", task[j] = "running"
             PROVE  FALSE
  BY DEF ConsoleAlone
<1>1. suite \in Seq(Case) /\ InOrder(at, waiting, task) /\ at \in Nat
  BY InvParts
<1>2. BatchOf(i) \in Nat /\ BatchOf(j) \in Nat
  BY <1>1, BatchNumber
<1>3. BatchOf(i) = at /\ BatchOf(j) = at
  BY <1>1, <1>2 DEF InOrder
<1>4. i \notin Others
  BY <1>1, BatchesAre
<1> QED
  BY <1>1, <1>3, <1>4, BatchesAre

\* For every suite and every interleaving, the stage returns only when every
\* case has ended and counts each once on the right side, and a case that asked
\* for the console never runs beside another (execution.py, scheduling.py).
THEOREM RunnerIsSound == RunnerSpec => []RunnerSound
<1>1. RunnerInit => RunnerInv
  BY RunnerInvInit
<1>2. RunnerInv /\ [RunnerNext]_rvars => RunnerInv'
  BY RunnerInvStep
<1>3. RunnerInv => RunnerSound
  BY CountedAtEnd, AloneInBatch DEF RunnerSound
<1> QED
  BY <1>1, <1>2, <1>3, PTL DEF RunnerSpec

-----------------------------------------------------------------------------
(* The post-install script: its files.                                     *)

AllRunners == UNION {ToSet(Registry[v]) : v \in Versions}
FileStates == {"absent", "torn", "whole"}
Stages == {"off", "venv", "pip", "mark", "main", "fetch", "exists", "patch", "check", "runners", "precompile"}
Last0 == Len(Manifest)

\* Every file the script is about to write is one of Files.
LEMMA FilesAre ==
  /\ Last0 \in Nat /\ Modules \in Files
  /\ \A j \in 1 .. Last0 : Manifest[j] \in Versions /\ Exe(Manifest[j]) \in Files /\ AllJson(Manifest[j]) \in Files
  /\ \A v \in Versions : Registry[v] \in Seq(AllRunners) /\ \E j \in 1 .. Last0 : v = Manifest[j]
  /\ \A v \in Versions : ToSet(Registry[v]) \subseteq AllRunners
  /\ \A r \in AllRunners : Runner(r) \in Files
<1>1. Manifest \in Seq(Nat \X Nat \X Nat)
  BY InstallAssumption
<1>2. Last0 \in Nat /\ DOMAIN Manifest = 1 .. Last0
  BY <1>1 DEF Last0
<1>3. Versions = {Manifest[j] : j \in 1 .. Last0}
  BY <1>2 DEF Versions, ToSet
<1>4. \A v \in Versions : ToSet(Registry[v]) \subseteq AllRunners
  BY DEF AllRunners
<1>5. \A v \in Versions : Registry[v] \in Seq(AllRunners)
  <2> TAKE v \in Versions
  <2>1. Registry[v] \in Seq(ToSet(Registry[v])) /\ ToSet(Registry[v]) \subseteq AllRunners
    BY <1>4, InstallAssumption
  <2> QED
    BY <2>1
<1>6. Modules \in Files /\ \A v \in Versions : Exe(v) \in Files /\ AllJson(v) \in Files
  BY DEF Files
<1>7. \A r \in AllRunners : Runner(r) \in Files
  BY DEF Files, AllRunners
<1> QED
  BY <1>2, <1>3, <1>4, <1>5, <1>6, <1>7

\* No two of them have the same path.
LEMMA FilesDiffer ==
  /\ \A j, k \in 1 .. Last0 : Exe(Manifest[j]) = Exe(Manifest[k]) => j = k
  /\ \A j, k \in 1 .. Last0 : AllJson(Manifest[j]) = AllJson(Manifest[k]) => j = k
  /\ \A v, w : Exe(v) # AllJson(w) /\ Exe(v) # Runner(w) /\ AllJson(v) # Runner(w)
  /\ \A v : Exe(v) # Modules /\ AllJson(v) # Modules /\ Runner(v) # Modules
  /\ \A r, s : Runner(r) = Runner(s) => r = s
<1>1. \A v, w : /\ Exe(v) = Exe(w) => v = w
                /\ AllJson(v) = AllJson(w) => v = w
                /\ Runner(v) = Runner(w) => v = w
  BY DEF Exe, AllJson, Runner
<1>2. \A j, k \in 1 .. Last0 : Manifest[j] = Manifest[k] => j = k
  <2>1. Manifest \in Seq(Nat \X Nat \X Nat) /\ IsInjective(Manifest)
    BY InstallAssumption
  <2>2. DOMAIN Manifest = 1 .. Last0
    BY <2>1 DEF Last0
  <2> QED
    BY <2>1, <2>2 DEF IsInjective
<1>3. \A v, w : Exe(v) # AllJson(w) /\ Exe(v) # Runner(w) /\ AllJson(v) # Runner(w)
  BY DEF Exe, AllJson, Runner
<1>4. \A v : Exe(v) # Modules /\ AllJson(v) # Modules /\ Runner(v) # Modules
  BY DEF Exe, AllJson, Runner, Modules
<1> QED
  BY <1>1, <1>2, <1>3, <1>4

-----------------------------------------------------------------------------
(* The invariant of the script, over the variables a step changes.         *)

\* What is left of an executor that was wanted.
ReadyIn(fi, fl, v) ==
  /\ fl.bin_check /\ (fl.error_on_missing \/ fi[Exe(v)] # "absent") => fi[Exe(v)] = "whole"
  /\ fl.runners_download /\ fl.error_on_missing =>
       /\ fi[AllJson(v)] = "whole"
       /\ \A r \in ToSet(Registry[v]) : fi[Runner(r)] = "whole"

ScriptTypes(fi, fl, st, vr, wr, qu) ==
  /\ fi \in [Files -> FileStates] /\ fl \in [Names -> BOOLEAN] /\ st \in Stages /\ vr \in 0 .. Last0
  /\ wr \in Seq(Files) /\ qu \in Seq(AllRunners)

\* The versions before the one at hand are ready, all of them after a run that ended well.
DoneIn(fi, fl, vr, ex) ==
  \A j \in 1 .. Last0 : Wanted(Manifest[j]) /\ (j < vr \/ ex = "ok") => ReadyIn(fi, fl, Manifest[j])

\* The version at hand is as ready as the stages behind it make it.
NowIn(fi, fl, st, vr, wr, qu) ==
  /\ st \in {"fetch", "exists", "runners", "precompile"} => vr # 0
  /\ st \in {"runners", "precompile"} /\ fl.bin_check => fi[Exe(Manifest[vr])] = "whole"
  /\ st = "precompile" /\ fl.runners_download /\ fl.error_on_missing =>
       /\ fi[AllJson(Manifest[vr])] = "whole"
       /\ \A r \in ToSet(Registry[Manifest[vr]]) :
            fi[Runner(r)] = "whole" \/ r \in ToSet(qu) \/ Runner(r) \in ToSet(wr)

\* A stage writes the files of the version at hand, and of the runners only those that are not whole.
WriteIn(fi, st, vr, wr) ==
  /\ \A f \in ToSet(wr) : \/ st = "exists" /\ f \in {Exe(Manifest[vr]), AllJson(Manifest[vr])}
                          \/ st = "check" /\ vr # 0 /\ f = Exe(Manifest[vr])
                          \/ st = "check" /\ vr = 0 /\ f = Modules
                          \/ st = "precompile" /\ fi[f] # "whole" /\ \E r \in AllRunners : f = Runner(r)
  /\ st = "precompile" => Len(wr) <= 1

\* Runners are looked at before precompile, and a run that ended well has stopped.
PhaseIn(st, qu, ex) == (ToSet(qu) # {} => st = "precompile") /\ (ex = "ok" => st = "off")

VenvIn(fl, st, ve) == st \notin {"off", "venv", "pip", "mark"} /\ fl.create_venv => ve = "ready"

ScriptOf(fi, ve, fl, st, vr, wr, qu, ex) ==
  /\ ScriptTypes(fi, fl, st, vr, wr, qu) /\ DoneIn(fi, fl, vr, ex) /\ NowIn(fi, fl, st, vr, wr, qu)
  /\ WriteIn(fi, st, vr, wr) /\ PhaseIn(st, qu, ex) /\ VenvIn(fl, st, ve)

ScriptInv == ScriptOf(file, venv, flags, stage, ver, writing, queue, exit)

\* Constants aside, the invariant speaks of the variables only.
LEMMA ScriptThen ==
  ASSUME ScriptOf(file', venv', flags', stage', ver', writing', queue', exit')
  PROVE  ScriptInv'
  BY DEF ScriptInv, ScriptOf, ScriptTypes, DoneIn, NowIn, WriteIn, PhaseIn, VenvIn, ReadyIn

\* The files that a run may still change: those of the version at hand, and runners that are not whole.
Mine(f, fi, vr) ==
  \/ f = Modules
  \/ vr # 0 /\ f \in {Exe(Manifest[vr]), AllJson(Manifest[vr])}
  \/ fi[f] # "whole" /\ \E r \in AllRunners : f = Runner(r)

\* An earlier version stays ready.
LEMMA ReadyKept ==
  ASSUME NEW fi, NEW fl, NEW vr \in 0 .. Last0, NEW gi,
         \A f \in Files : gi[f] = fi[f] \/ Mine(f, fi, vr),
         NEW j \in 1 .. Last0, j # vr, ReadyIn(fi, fl, Manifest[j])
  PROVE  ReadyIn(gi, fl, Manifest[j])
<1>1. PICK v : v = Manifest[j]
  OBVIOUS
<1>2. v \in Versions /\ Exe(v) \in Files /\ AllJson(v) \in Files
  BY <1>1, FilesAre
<1>3. Last0 \in Nat /\ (vr # 0 => vr \in 1 .. Last0)
  BY FilesAre
<1>4. gi[Exe(v)] = fi[Exe(v)]
  BY <1>1, <1>2, <1>3, FilesDiffer DEF Mine
<1>5. gi[AllJson(v)] = fi[AllJson(v)]
  BY <1>1, <1>2, <1>3, FilesDiffer DEF Mine
<1>6. ASSUME NEW r \in ToSet(Registry[v]), fi[Runner(r)] = "whole" PROVE gi[Runner(r)] = "whole"
  <2>1. Runner(r) \in Files
    BY <1>2, FilesAre
  <2> QED
    BY <1>6, <2>1, FilesDiffer DEF Mine
<1> QED
  BY <1>1, <1>4, <1>5, <1>6 DEF ReadyIn

-----------------------------------------------------------------------------
(* The steps of the script.                                                *)

\* What the invariant says.
LEMMA ScriptParts ==
  ASSUME ScriptInv
  PROVE  /\ ScriptTypes(file, flags, stage, ver, writing, queue) /\ DoneIn(file, flags, ver, exit)
         /\ NowIn(file, flags, stage, ver, writing, queue) /\ WriteIn(file, stage, ver, writing)
         /\ PhaseIn(stage, queue, exit) /\ VenvIn(flags, stage, venv)
         /\ Last0 \in Nat /\ ver \in Nat /\ (ver # 0 => ver \in 1 .. Last0)
<1>1. /\ ScriptTypes(file, flags, stage, ver, writing, queue) /\ DoneIn(file, flags, ver, exit)
      /\ NowIn(file, flags, stage, ver, writing, queue) /\ WriteIn(file, stage, ver, writing)
      /\ PhaseIn(stage, queue, exit) /\ VenvIn(flags, stage, venv)
  BY DEF ScriptInv, ScriptOf
<1>2. Last0 \in Nat /\ ver \in 0 .. Last0
  BY <1>1, FilesAre DEF ScriptTypes
<1> QED
  BY <1>1, <1>2

\* Nothing is written or looked at.
LEMMA NothingLeft ==
  ToSet(<<>>) = {} /\ Len(<<>>) = 0 /\ <<>> \in Seq(Files) /\ <<>> \in Seq(AllRunners)
  BY DEF ToSet

\* The end of a run that did not end well, or of a process that was killed.
LEMMA StopInv ==
  ASSUME ScriptInv, NEW how, how # "ok", Stop(how), file' = file
  PROVE  ScriptInv'
<1>1. /\ ScriptTypes(file, flags, stage, ver, writing, queue) /\ DoneIn(file, flags, ver, exit)
  BY ScriptParts
<1>2. /\ stage' = "off" /\ writing' = <<>> /\ queue' = <<>> /\ exit' = how
      /\ ver' = ver /\ flags' = flags /\ file' = file
  BY DEF Stop
<1>3. ScriptTypes(file', flags', stage', ver', writing', queue')
  BY <1>1, <1>2, NothingLeft DEF ScriptTypes, Stages
<1>4. DoneIn(file', flags', ver', exit')
  BY <1>1, <1>2 DEF DoneIn
<1>5. NowIn(file', flags', stage', ver', writing', queue') /\ WriteIn(file', stage', ver', writing')
  BY <1>2, NothingLeft DEF NowIn, WriteIn
<1>6. PhaseIn(stage', queue', exit') /\ VenvIn(flags', stage', venv')
  BY <1>2, NothingLeft DEF PhaseIn, VenvIn
<1> QED
  BY <1>3, <1>4, <1>5, <1>6, ScriptThen DEF ScriptOf

\* A stage ends with files to write and runners to look at, or with none.
LEMMA ThenInv ==
  ASSUME ScriptInv, stage # "off", NEW st \in Stages, st # "off", NEW wr \in Seq(Files), NEW qu \in Seq(AllRunners),
         stage' = st, writing' = wr, queue' = qu, UNCHANGED <<file, ver, exit, flags>>,
         NowIn(file, flags, st, ver, wr, qu), WriteIn(file, st, ver, wr), ToSet(qu) # {} => st = "precompile",
         VenvIn(flags, st, venv')
  PROVE  ScriptInv'
<1>1. /\ ScriptTypes(file, flags, stage, ver, writing, queue) /\ DoneIn(file, flags, ver, exit)
      /\ PhaseIn(stage, queue, exit)
  BY ScriptParts
<1>2. ScriptTypes(file', flags', stage', ver', writing', queue')
  BY <1>1 DEF ScriptTypes
<1>3. PhaseIn(stage', queue', exit')
  BY <1>1 DEF PhaseIn
<1> QED
  BY <1>1, <1>2, <1>3, ScriptThen DEF ScriptOf

\* The same without any.
LEMMA GoInv ==
  ASSUME ScriptInv, NEW s, s # "off", InStage(s), NEW st \in Stages, st # "off", Go(st), file' = file,
         st \in {"fetch", "exists", "runners", "precompile"} => ver # 0,
         st \in {"runners", "precompile"} /\ flags.bin_check => file[Exe(Manifest[ver])] = "whole",
         st = "precompile" => ~ (flags.runners_download /\ flags.error_on_missing),
         VenvIn(flags, st, venv')
  PROVE  ScriptInv'
<1>1. /\ stage = s /\ writing = <<>> /\ queue = <<>>
      /\ stage' = st /\ writing' = <<>> /\ queue' = <<>> /\ UNCHANGED <<file, ver, exit, flags>>
  BY DEF InStage, Go
<1>2. NowIn(file, flags, st, ver, <<>>, <<>>)
  BY DEF NowIn
<1>3. WriteIn(file, st, ver, <<>>)
  BY NothingLeft DEF WriteIn
<1> QED
  BY <1>1, <1>2, <1>3, NothingLeft, ThenInv

\* On to the next version, when the one at hand is ready: those in between are not wanted.
LEMMA NextInv ==
  ASSUME ScriptInv, NEW s, s # "off", InStage(s), NextVersion, file' = file, venv' = venv,
         ver # 0 => ReadyIn(file, flags, Manifest[ver]), s \notin {"venv", "pip", "mark"}
  PROVE  ScriptInv'
<1>1. /\ ScriptTypes(file, flags, stage, ver, writing, queue) /\ DoneIn(file, flags, ver, exit)
      /\ PhaseIn(stage, queue, exit) /\ VenvIn(flags, stage, venv)
      /\ Last0 \in Nat /\ ver \in Nat /\ (ver # 0 => ver \in 1 .. Last0)
  BY ScriptParts
<1>2. stage = s /\ writing = <<>> /\ queue = <<>>
  BY DEF InStage
<1>3. PICK later : later = {j \in 1 .. Last0 : j > ver /\ Wanted(Manifest[j])}
  OBVIOUS
<1>4. IF later = {} THEN Stop("ok")
      ELSE stage' = "fetch" /\ ver' = Min(later) /\ UNCHANGED <<writing, queue, exit, flags, runs>>
  BY <1>3 DEF NextVersion, Last0
<1>5. \A j \in 1 .. Last0 : Wanted(Manifest[j]) /\ j \notin later => ReadyIn(file, flags, Manifest[j])
  <2> SUFFICES ASSUME NEW j \in 1 .. Last0, Wanted(Manifest[j]), j \notin later
               PROVE  ReadyIn(file, flags, Manifest[j])
    OBVIOUS
  <2>1. j < ver \/ j = ver
    BY <1>1, <1>3
  <2>2. CASE j < ver
    BY <1>1, <2>2 DEF DoneIn
  <2>3. CASE j = ver
    BY <1>1, <2>3
  <2> QED
    BY <2>1, <2>2, <2>3
<1>6. CASE later = {}
  <2>1. /\ stage' = "off" /\ writing' = <<>> /\ queue' = <<>> /\ exit' = "ok"
        /\ ver' = ver /\ flags' = flags /\ file' = file
    BY <1>4, <1>6 DEF Stop
  <2>2. ScriptTypes(file', flags', stage', ver', writing', queue')
    BY <1>1, <2>1, NothingLeft DEF ScriptTypes, Stages
  <2>3. DoneIn(file', flags', ver', exit')
    BY <1>5, <1>6, <2>1 DEF DoneIn
  <2>4. NowIn(file', flags', stage', ver', writing', queue') /\ WriteIn(file', stage', ver', writing')
    BY <2>1, NothingLeft DEF NowIn, WriteIn
  <2>5. PhaseIn(stage', queue', exit') /\ VenvIn(flags', stage', venv')
    BY <2>1, NothingLeft DEF PhaseIn, VenvIn
  <2> QED
    BY <2>2, <2>3, <2>4, <2>5, ScriptThen DEF ScriptOf
<1>7. CASE later # {}
  <2>1. PICK k : k = Min(later)
    OBVIOUS
  <2>2. k \in later /\ \A m \in later : k <= m
    BY <1>1, <1>3, <1>7, <2>1, LeastIs
  <2>3. k \in 1 .. Last0
    BY <1>3, <2>2
  <2>4. /\ stage' = "fetch" /\ ver' = k /\ writing' = <<>> /\ queue' = <<>> /\ exit' = exit /\ flags' = flags
        /\ file' = file /\ venv' = venv
    BY <1>2, <1>4, <1>7, <2>1
  <2>5. ScriptTypes(file', flags', stage', ver', writing', queue')
    BY <1>1, <2>3, <2>4, NothingLeft DEF ScriptTypes, Stages
  <2>6. DoneIn(file', flags', ver', exit')
    <3>1. exit # "ok"
      BY <1>1, <1>2 DEF PhaseIn
    <3>2. \A j \in 1 .. Last0 : j < k => j \notin later
      BY <1>1, <2>2, <2>3
    <3> QED
      BY <1>5, <2>4, <3>1, <3>2 DEF DoneIn
  <2>7. NowIn(file', flags', stage', ver', writing', queue') /\ WriteIn(file', stage', ver', writing')
    BY <1>1, <2>3, <2>4, NothingLeft DEF NowIn, WriteIn
  <2>8. PhaseIn(stage', queue', exit') /\ VenvIn(flags', stage', venv')
    BY <1>1, <1>2, <2>4, NothingLeft DEF PhaseIn, VenvIn
  <2> QED
    BY <2>5, <2>6, <2>7, <2>8, ScriptThen DEF ScriptOf
<1> QED
  BY <1>6, <1>7

\* The script starts, with other flags, on what was left.
LEMMA ScriptStarts == ScriptInv /\ StartScript => ScriptInv'
<1> SUFFICES ASSUME ScriptInv, StartScript PROVE ScriptInv'
  OBVIOUS
<1>1. /\ ScriptTypes(file, flags, stage, ver, writing, queue)
      /\ WriteIn(file, stage, ver, writing) /\ PhaseIn(stage, queue, exit) /\ Last0 \in Nat
  BY ScriptParts
<1>2. /\ stage = "off" /\ flags' \in Flags /\ stage' = IF flags'.create_venv THEN "venv" ELSE "main"
      /\ ver' = 0 /\ exit' = "running" /\ UNCHANGED <<file, venv, writing, queue>>
  BY DEF StartScript
<1>3. ToSet(writing) = {} /\ ToSet(queue) = {}
  BY <1>1, <1>2 DEF WriteIn, PhaseIn
<1>4. stage' \in {"venv", "main"}
  BY <1>2
<1>5. ScriptTypes(file', flags', stage', ver', writing', queue')
  BY <1>1, <1>2, <1>4, InstallAssumption DEF ScriptTypes, Stages
<1>6. DoneIn(file', flags', ver', exit')
  BY <1>1, <1>2 DEF DoneIn
<1>7. NowIn(file', flags', stage', ver', writing', queue') /\ WriteIn(file', stage', ver', writing')
  BY <1>2, <1>3, <1>4 DEF NowIn, WriteIn
<1>8. PhaseIn(stage', queue', exit') /\ VenvIn(flags', stage', venv')
  BY <1>2, <1>3 DEF PhaseIn, VenvIn
<1> QED
  BY <1>5, <1>6, <1>7, <1>8, ScriptThen DEF ScriptOf

\* The process is killed.
LEMMA CrashInv == ScriptInv /\ Crash => ScriptInv'
  BY StopInv DEF Crash

\* The virtual environment: main is reached with the check file written.
LEMMA VenvInv == ScriptInv /\ (CheckVenv \/ PipInstall \/ MarkVenv) => ScriptInv'
<1> SUFFICES ASSUME ScriptInv, CheckVenv \/ PipInstall \/ MarkVenv PROVE ScriptInv'
  OBVIOUS
<1>1. "main" \in Stages /\ "pip" \in Stages /\ "mark" \in Stages
  BY DEF Stages
<1>2. CASE CheckVenv
  <2>1. CASE venv = "ready"
    <3>1. InStage("venv") /\ Go("main") /\ file' = file /\ venv' = "ready"
      BY <1>2, <2>1 DEF CheckVenv
    <3> QED
      BY <1>1, <3>1, GoInv DEF VenvIn
  <2>2. CASE venv # "ready"
    <3>1. InStage("venv") /\ Go("pip") /\ file' = file
      BY <1>2, <2>2 DEF CheckVenv
    <3> QED
      BY <1>1, <3>1, GoInv DEF VenvIn
  <2> QED
    BY <2>1, <2>2
<1>3. CASE PipInstall
  <2>1. InStage("pip") /\ file' = file /\ (Go("mark") \/ Fail)
    BY <1>3 DEF PipInstall
  <2>2. CASE Go("mark")
    BY <1>1, <2>1, <2>2, GoInv DEF VenvIn
  <2>3. CASE Fail
    BY <2>1, <2>3, StopInv DEF Fail
  <2> QED
    BY <2>1, <2>2, <2>3
<1>4. CASE MarkVenv
  <2>1. InStage("mark") /\ Go("main") /\ file' = file /\ venv' = "ready"
    BY <1>4 DEF MarkVenv
  <2> QED
    BY <1>1, <2>1, GoInv DEF VenvIn
<1> QED
  BY <1>2, <1>3, <1>4

\* In the script proper the environment stays as it is.
LEMMA VenvKept ==
  ASSUME ScriptInv, NEW s, InStage(s), s \notin {"off", "venv", "pip", "mark"}, venv' = venv, NEW st
  PROVE  VenvIn(flags, st, venv')
<1>1. VenvIn(flags, s, venv)
  BY ScriptParts DEF InStage
<1> QED
  BY <1>1 DEF VenvIn

\* The script proper begins.
LEMMA MainInv == ScriptInv /\ StartMain => ScriptInv'
<1> SUFFICES ASSUME ScriptInv, StartMain PROVE ScriptInv'
  OBVIOUS
<1>1. InStage("main") /\ Go("patch") /\ file' = file /\ venv' = venv
  BY DEF StartMain, Disk
<1>2. VenvIn(flags, "patch", venv')
  BY <1>1, VenvKept
<1> QED
  BY <1>1, <1>2, GoInv DEF Stages

\* Two files to write, one after the other.
LEMMA PairOf ==
  ASSUME NEW a \in Files, NEW b \in Files
  PROVE  <<a, b>> \in Seq(Files) /\ ToSet(<<a, b>>) = {a, b}
<1>1. DOMAIN <<a, b>> = {1, 2} /\ <<a, b>>[1] = a /\ <<a, b>>[2] = b
  OBVIOUS
<1>2. ToSet(<<a, b>>) = {a, b}
  BY <1>1 DEF ToSet
<1> QED
  BY <1>2

\* An executor that is absent is downloaded with its registry, in either order.
LEMMA FetchInv == ScriptInv /\ Fetch => ScriptInv'
<1> SUFFICES ASSUME ScriptInv, Fetch PROVE ScriptInv'
  OBVIOUS
<1>1. InStage("fetch") /\ file' = file /\ venv' = venv /\ stage = "fetch"
  BY DEF Fetch, Disk, InStage
<1>2. ver # 0 /\ ver \in 1 .. Last0
  BY <1>1, ScriptParts DEF NowIn
<1>3. VenvIn(flags, "exists", venv')
  BY <1>1, VenvKept
<1>4. PICK e \in Files, j \in Files : e = Exe(Manifest[ver]) /\ j = AllJson(Manifest[ver])
  BY <1>2, FilesAre
<1>5. \/ Go("exists")
      \/ \E fs \in {<<e, j>>, <<j, e>>} : Then("exists", fs, <<>>)
      \/ Fail
  BY <1>2, <1>4 DEF Fetch, Target
<1>6. CASE Go("exists")
  BY <1>1, <1>2, <1>3, <1>6, GoInv DEF Stages
<1>7. CASE Fail
  BY <1>1, <1>7, StopInv DEF Fail
<1>8. ASSUME NEW fs \in {<<e, j>>, <<j, e>>}, Then("exists", fs, <<>>) PROVE ScriptInv'
  <2>1. fs \in Seq(Files) /\ ToSet(fs) = {e, j}
    <3>1. CASE fs = <<e, j>>
      BY <3>1, PairOf, Zenon
    <3>2. CASE fs = <<j, e>>
      <4>1. {j, e} = {e, j}
        OBVIOUS
      <4> QED
        BY <3>2, <4>1, PairOf, Zenon
    <3> QED
      BY <1>8, <3>1, <3>2
  <2>2. stage' = "exists" /\ writing' = fs /\ queue' = <<>> /\ UNCHANGED <<file, ver, exit, flags>>
    BY <1>1, <1>8 DEF Then
  <2>3. NowIn(file, flags, "exists", ver, fs, <<>>)
    BY <1>2 DEF NowIn
  <2>4. WriteIn(file, "exists", ver, fs)
    BY <1>4, <2>1 DEF WriteIn
  <2>5. "exists" \in Stages
    BY DEF Stages
  <2> QED
    BY <1>1, <1>3, <2>1, <2>2, <2>3, <2>4, <2>5, NothingLeft, ThenInv
<1> QED
  BY <1>5, <1>6, <1>7, <1>8

\* An executor that is still absent is passed over only if that is no error.
LEMMA ExistsInv == ScriptInv /\ Exists => ScriptInv'
<1> SUFFICES ASSUME ScriptInv, Exists PROVE ScriptInv'
  OBVIOUS
<1>1. InStage("exists") /\ file' = file /\ venv' = venv /\ stage = "exists"
  BY DEF Exists, Disk, InStage
<1>2. ver # 0 /\ ver \in 1 .. Last0
  BY <1>1, ScriptParts DEF NowIn
<1>3. VenvIn(flags, "patch", venv')
  BY <1>1, VenvKept
<1>4. \/ Go("patch")
      \/ flags.error_on_missing /\ Fail
      \/ ~ flags.error_on_missing /\ file[Exe(Manifest[ver])] = "absent" /\ NextVersion
  BY <1>2 DEF Exists, Target
<1>5. CASE Go("patch")
  BY <1>1, <1>2, <1>3, <1>5, GoInv DEF Stages
<1>6. CASE Fail
  BY <1>1, <1>6, StopInv DEF Fail
<1>7. CASE ~ flags.error_on_missing /\ file[Exe(Manifest[ver])] = "absent" /\ NextVersion
  <2>1. ReadyIn(file, flags, Manifest[ver])
    BY <1>7 DEF ReadyIn
  <2> QED
    BY <1>1, <1>7, <2>1, NextInv
<1> QED
  BY <1>4, <1>5, <1>6, <1>7

\* An executor that is whole is patched in place.
LEMMA PatchInv == ScriptInv /\ Patch => ScriptInv'
<1> SUFFICES ASSUME ScriptInv, Patch PROVE ScriptInv'
  OBVIOUS
<1>1. InStage("patch") /\ file' = file /\ venv' = venv /\ stage = "patch"
  BY DEF Patch, Disk, InStage
<1>2. ver # 0 => ver \in 1 .. Last0
  BY ScriptParts
<1>3. VenvIn(flags, "check", venv')
  BY <1>1, VenvKept
<1>4. PICK t \in Files : t = Target
  BY <1>2, FilesAre DEF Target
<1>5. Go("check") \/ Then("check", <<t>>, <<>>) \/ Fail
  BY <1>4 DEF Patch
<1>6. CASE Go("check")
  BY <1>1, <1>3, <1>6, GoInv DEF Stages
<1>7. CASE Fail
  BY <1>1, <1>7, StopInv DEF Fail
<1>8. CASE Then("check", <<t>>, <<>>)
  <2>1. <<t>> \in Seq(Files) /\ ToSet(<<t>>) = {t}
    BY DEF ToSet
  <2>2. stage' = "check" /\ writing' = <<t>> /\ queue' = <<>> /\ UNCHANGED <<file, ver, exit, flags>>
    BY <1>1, <1>8 DEF Then
  <2>3. NowIn(file, flags, "check", ver, <<t>>, <<>>)
    BY DEF NowIn
  <2>4. WriteIn(file, "check", ver, <<t>>)
    BY <1>4, <2>1 DEF WriteIn, Target
  <2>5. "check" \in Stages
    BY DEF Stages
  <2> QED
    BY <1>1, <1>3, <2>1, <2>2, <2>3, <2>4, <2>5, NothingLeft, ThenInv
<1> QED
  BY <1>5, <1>6, <1>7, <1>8

\* Past the check, the executor is whole.
LEMMA CheckInv == ScriptInv /\ CheckBin => ScriptInv'
<1> SUFFICES ASSUME ScriptInv, CheckBin PROVE ScriptInv'
  OBVIOUS
<1>1. InStage("check") /\ file' = file /\ venv' = venv /\ stage = "check"
  BY DEF CheckBin, Disk, InStage
<1>2. VenvIn(flags, "runners", venv')
  BY <1>1, VenvKept
<1>3. \/ ver = 0 /\ NextVersion
      \/ ver # 0 /\ (flags.bin_check => file[Exe(Manifest[ver])] = "whole") /\ Go("runners")
      \/ Fail
  BY DEF CheckBin, Runs, Target
<1>4. CASE Fail
  BY <1>1, <1>4, StopInv DEF Fail
<1>5. CASE ver = 0 /\ NextVersion
  BY <1>1, <1>5, NextInv
<1>6. CASE ver # 0 /\ (flags.bin_check => file[Exe(Manifest[ver])] = "whole") /\ Go("runners")
  BY <1>1, <1>2, <1>6, GoInv DEF Stages
<1> QED
  BY <1>3, <1>4, <1>5, <1>6

\* The runners of a registry that is whole are all to be looked at.
LEMMA RunnersInv == ScriptInv /\ Runners => ScriptInv'
<1> SUFFICES ASSUME ScriptInv, Runners PROVE ScriptInv'
  OBVIOUS
<1>1. InStage("runners") /\ file' = file /\ venv' = venv /\ stage = "runners"
  BY DEF Runners, Disk, InStage
<1>2. /\ ver # 0 /\ ver \in 1 .. Last0
      /\ flags.bin_check => file[Exe(Manifest[ver])] = "whole"
  BY <1>1, ScriptParts DEF NowIn
<1>3. VenvIn(flags, "precompile", venv')
  BY <1>1, VenvKept
<1>4. PICK rs \in Seq(AllRunners) : rs = Registry[Manifest[ver]]
  BY <1>2, FilesAre
<1>5. \/ ~ (flags.runners_download /\ flags.error_on_missing) /\ Go("precompile")
      \/ file[AllJson(Manifest[ver])] = "whole" /\ Then("precompile", <<>>, rs)
      \/ Fail
  BY <1>4 DEF Runners
<1>6. CASE Fail
  BY <1>1, <1>6, StopInv DEF Fail
<1>7. CASE ~ (flags.runners_download /\ flags.error_on_missing) /\ Go("precompile")
  BY <1>1, <1>2, <1>3, <1>7, GoInv DEF Stages
<1>8. CASE file[AllJson(Manifest[ver])] = "whole" /\ Then("precompile", <<>>, rs)
  <2>1. stage' = "precompile" /\ writing' = <<>> /\ queue' = rs /\ UNCHANGED <<file, ver, exit, flags>>
    BY <1>1, <1>8 DEF Then
  <2>2. NowIn(file, flags, "precompile", ver, <<>>, rs)
    BY <1>2, <1>4, <1>8 DEF NowIn
  <2>3. WriteIn(file, "precompile", ver, <<>>)
    BY NothingLeft DEF WriteIn
  <2>4. "precompile" \in Stages
    BY DEF Stages
  <2> QED
    BY <1>1, <1>3, <2>1, <2>2, <2>3, <2>4, NothingLeft, ThenInv
<1> QED
  BY <1>5, <1>6, <1>7, <1>8

\* A version is left with its executor checked and its runners whole.
LEMMA PrecompileInv == ScriptInv /\ Precompile => ScriptInv'
<1> SUFFICES ASSUME ScriptInv, Precompile PROVE ScriptInv'
  OBVIOUS
<1>1. InStage("precompile") /\ file' = file /\ venv' = venv /\ stage = "precompile" /\ writing = <<>> /\ queue = <<>>
  BY DEF Precompile, Disk, InStage
<1>2. NextVersion \/ Fail
  BY DEF Precompile
<1>3. NowIn(file, flags, "precompile", ver, <<>>, <<>>)
  BY <1>1, ScriptParts
<1>4. ReadyIn(file, flags, Manifest[ver])
  BY <1>3, NothingLeft DEF NowIn, ReadyIn
<1>5. CASE NextVersion
  BY <1>1, <1>4, <1>5, NextInv
<1>6. CASE Fail
  BY <1>1, <1>6, StopInv DEF Fail
<1> QED
  BY <1>2, <1>5, <1>6

\* What the stages behind have made of the version at hand is not undone by
\* a write of a later stage, which is of a runner that is not whole.
LEMMA OthersKept ==
  ASSUME NEW fi, NEW fl, NEW st, NEW vr, NEW wr, NEW qu, NowIn(fi, fl, st, vr, wr, qu), vr # 0 => vr \in 1 .. Last0,
         NEW f \in Files, NEW gi, \A g \in Files : g # f => gi[g] = fi[g], st # "runners",
         st = "precompile" => (gi[f] = "whole" \/ fi[f] # "whole") /\ \E r \in AllRunners : f = Runner(r)
  PROVE  NowIn(gi, fl, st, vr, wr, qu)
<1>1. CASE st = "precompile"
  <2>1. PICK r \in AllRunners : f = Runner(r)
    BY <1>1
  <2>2. vr # 0 /\ vr \in 1 .. Last0
    BY <1>1 DEF NowIn
  <2>3. PICK v \in Versions : v = Manifest[vr] /\ Exe(v) \in Files /\ AllJson(v) \in Files
    BY <2>2, FilesAre
  <2>4. gi[Exe(v)] = fi[Exe(v)] /\ gi[AllJson(v)] = fi[AllJson(v)]
    BY <2>1, <2>3, FilesDiffer
  <2>5. \A x \in ToSet(Registry[v]) : Runner(x) \in Files
    BY FilesAre
  <2>6. \A x \in ToSet(Registry[v]) : fi[Runner(x)] = "whole" => gi[Runner(x)] = "whole"
    BY <1>1, <2>5
  <2> QED
    BY <1>1, <2>2, <2>3, <2>4, <2>6 DEF NowIn
<1>2. CASE st # "precompile"
  BY <1>2 DEF NowIn
<1> QED
  BY <1>1, <1>2

\* What is at the head of a sequence and what is behind it.
LEMMA HeadAndTail ==
  ASSUME NEW S, NEW q \in Seq(S), q # <<>>
  PROVE  /\ Head(q) \in S /\ Head(q) \in ToSet(q) /\ Tail(q) \in Seq(S) /\ Len(Tail(q)) = Len(q) - 1
         /\ ToSet(q) = {Head(q)} \cup ToSet(Tail(q)) /\ ToSet(q) \subseteq S
<1>1. PICK n \in Nat : n = Len(q) /\ DOMAIN q = 1 .. n
  OBVIOUS
<1>2. n >= 1 /\ Head(q) = q[1] /\ q[1] \in S
  BY <1>1
<1>3. PICK t \in Seq(S) : t = Tail(q)
  <2>1. Tail(q) \in Seq(S)
    OBVIOUS
  <2> QED
    BY <2>1, Zenon
<1>4. DOMAIN t = 1 .. (n - 1) /\ Len(t) = n - 1 /\ \A k \in 1 .. (n - 1) : t[k] = q[k + 1]
  BY <1>1, <1>2, <1>3
<1>5. ToSet(q) = {q[k] : k \in 1 .. n} /\ ToSet(t) = {t[k] : k \in 1 .. (n - 1)}
  BY <1>1, <1>4 DEF ToSet
<1>6. ASSUME NEW x \in ToSet(q) PROVE x = q[1] \/ x \in ToSet(t)
  <2>1. PICK k \in 1 .. n : x = q[k]
    BY <1>5, <1>6
  <2>2. k = 1 \/ (k - 1 \in 1 .. (n - 1) /\ t[k - 1] = q[k])
    BY <1>2, <1>4
  <2> QED
    BY <1>5, <2>1, <2>2
<1>7. ASSUME NEW x \in ToSet(t) PROVE x \in ToSet(q)
  <2>1. PICK k \in 1 .. (n - 1) : x = t[k]
    BY <1>5, <1>7
  <2>2. k + 1 \in 1 .. n /\ x = q[k + 1]
    BY <1>4, <2>1
  <2> QED
    BY <1>5, <2>2
<1>8. q[1] \in ToSet(q) /\ ToSet(q) \subseteq S
  BY <1>1, <1>2, <1>5
<1> QED
  BY <1>1, <1>2, <1>3, <1>4, <1>6, <1>7, <1>8

\* A file that is not one of the version at hand is left alone, and a runner that is whole stays so.
LEMMA FileChanges ==
  ASSUME ScriptInv, exit # "ok", NEW f \in Files, NEW s \in FileStates, Mine(f, file, ver),
         file' = [file EXCEPT ![f] = s]
  PROVE  /\ file' \in [Files -> FileStates] /\ file'[f] = s /\ \A g \in Files : g # f => file'[g] = file[g]
         /\ DoneIn(file', flags, ver, exit)
<1>1. /\ ScriptTypes(file, flags, stage, ver, writing, queue) /\ DoneIn(file, flags, ver, exit)
      /\ Last0 \in Nat /\ ver \in Nat
  BY ScriptParts
<1>2. PICK gi : gi = file'
  OBVIOUS
<1>3. gi \in [Files -> FileStates] /\ gi[f] = s /\ \A g \in Files : g # f => gi[g] = file[g]
  BY <1>1, <1>2 DEF ScriptTypes
<1>4. \A g \in Files : gi[g] = file[g] \/ Mine(g, file, ver)
  BY <1>3
<1>5. ver \in 0 .. Last0
  BY <1>1 DEF ScriptTypes
<1>6. ASSUME NEW j \in 1 .. Last0, Wanted(Manifest[j]), j < ver PROVE ReadyIn(gi, flags, Manifest[j])
  <2>1. ReadyIn(file, flags, Manifest[j]) /\ j # ver
    BY <1>1, <1>6 DEF DoneIn
  <2> QED
    BY <1>4, <1>5, <2>1, ReadyKept
<1>7. DoneIn(gi, flags, ver, exit)
  BY <1>6 DEF DoneIn
<1> QED
  BY <1>2, <1>3, <1>7

\* What is written next is a file that the run may change.
LEMMA HeadIsMine ==
  ASSUME ScriptInv, writing # <<>>
  PROVE  /\ Head(writing) \in Files /\ Mine(Head(writing), file, ver) /\ exit # "ok"
         /\ stage \in {"exists", "check", "precompile"}
         /\ stage = "precompile" =>
              /\ file[Head(writing)] # "whole" /\ \E r \in AllRunners : Head(writing) = Runner(r)
              /\ ToSet(Tail(writing)) = {} /\ Len(Tail(writing)) <= 1
<1>1. /\ ScriptTypes(file, flags, stage, ver, writing, queue) /\ WriteIn(file, stage, ver, writing)
      /\ NowIn(file, flags, stage, ver, writing, queue) /\ PhaseIn(stage, queue, exit)
  BY ScriptParts
<1>2. writing \in Seq(Files)
  BY <1>1 DEF ScriptTypes
<1>3. PICK f \in Files : f = Head(writing) /\ f \in ToSet(writing)
  BY <1>2, HeadAndTail
<1>4. \/ stage = "exists" /\ f \in {Exe(Manifest[ver]), AllJson(Manifest[ver])}
      \/ stage = "check" /\ ver # 0 /\ f = Exe(Manifest[ver])
      \/ stage = "check" /\ ver = 0 /\ f = Modules
      \/ stage = "precompile" /\ file[f] # "whole" /\ \E r \in AllRunners : f = Runner(r)
  BY <1>1, <1>3 DEF WriteIn
<1>5. stage = "exists" => ver # 0
  BY <1>1 DEF NowIn
<1>6. Mine(f, file, ver)
  BY <1>4, <1>5 DEF Mine
<1>7. stage \in {"exists", "check", "precompile"} /\ exit # "ok"
  BY <1>1, <1>4 DEF PhaseIn
<1>8. ASSUME stage = "precompile" PROVE ToSet(Tail(writing)) = {} /\ Len(Tail(writing)) <= 1
  <2>1. PICK t \in Seq(Files) : t = Tail(writing) /\ Len(t) = Len(writing) - 1
    BY <1>2, HeadAndTail
  <2>2. Len(writing) <= 1 /\ Len(writing) \in Nat /\ Len(t) \in Nat
    BY <1>1, <1>2, <1>8 DEF WriteIn
  <2>3. Len(t) = 0
    BY <2>1, <2>2
  <2>4. t = <<>>
    BY <2>1, <2>3
  <2>5. ToSet(t) = {} /\ Len(t) <= 1
    BY <2>3, <2>4, NothingLeft
  <2> QED
    BY <2>1, <2>5, Zenon
<1>9. stage = "precompile" => file[f] # "whole" /\ \E r \in AllRunners : f = Runner(r)
  BY <1>4
<1> QED
  BY <1>3, <1>6, <1>7, <1>8, <1>9

\* A file is opened.
LEMMA OpenInv == ScriptInv /\ Open => ScriptInv'
<1> SUFFICES ASSUME ScriptInv, Open PROVE ScriptInv'
  OBVIOUS
<1>1. /\ ScriptTypes(file, flags, stage, ver, writing, queue) /\ WriteIn(file, stage, ver, writing)
      /\ NowIn(file, flags, stage, ver, writing, queue) /\ PhaseIn(stage, queue, exit)
      /\ VenvIn(flags, stage, venv) /\ (ver # 0 => ver \in 1 .. Last0)
  BY ScriptParts
<1>2. /\ writing # <<>> /\ file' = [file EXCEPT ![Head(writing)] = "torn"]
      /\ UNCHANGED <<venv, flags, stage, ver, writing, queue, exit>>
  BY DEF Open
<1>3. PICK f \in Files : /\ f = Head(writing) /\ Mine(f, file, ver) /\ exit # "ok" /\ f \in ToSet(writing)
                         /\ stage \in {"exists", "check", "precompile"}
                         /\ stage = "precompile" => file[f] # "whole" /\ \E r \in AllRunners : f = Runner(r)
  BY <1>1, <1>2, HeadIsMine, HeadAndTail DEF ScriptTypes
<1>4. "torn" \in FileStates
  BY DEF FileStates
<1>5. PICK gi : /\ gi = file' /\ gi \in [Files -> FileStates] /\ gi[f] = "torn" /\ DoneIn(gi, flags, ver, exit)
                /\ \A g \in Files : g # f => gi[g] = file[g]
  BY <1>2, <1>3, <1>4, FileChanges
<1>6. ScriptTypes(gi, flags, stage, ver, writing, queue)
  BY <1>1, <1>5 DEF ScriptTypes
<1>7. WriteIn(gi, stage, ver, writing)
  <2>1. \A g \in ToSet(writing) : g \in Files
    BY <1>1, <1>2, HeadAndTail DEF ScriptTypes
  <2>2. \A g \in ToSet(writing) : file[g] # "whole" => gi[g] # "whole"
    BY <1>5, <2>1
  <2> QED
    BY <1>1, <2>2 DEF WriteIn
<1>8. NowIn(gi, flags, stage, ver, writing, queue)
  BY <1>1, <1>3, <1>5, OthersKept
<1> QED
  BY <1>1, <1>2, <1>5, <1>6, <1>7, <1>8, ScriptThen DEF ScriptOf

\* A file is complete.
LEMMA CloseInv == ScriptInv /\ Close => ScriptInv'
<1> SUFFICES ASSUME ScriptInv, Close PROVE ScriptInv'
  OBVIOUS
<1>1. /\ ScriptTypes(file, flags, stage, ver, writing, queue) /\ WriteIn(file, stage, ver, writing)
      /\ NowIn(file, flags, stage, ver, writing, queue) /\ PhaseIn(stage, queue, exit)
      /\ VenvIn(flags, stage, venv) /\ (ver # 0 => ver \in 1 .. Last0)
  BY ScriptParts
<1>2. /\ writing # <<>> /\ file' = [file EXCEPT ![Head(writing)] = "whole"] /\ writing' = Tail(writing)
      /\ UNCHANGED <<venv, flags, stage, ver, queue, exit>>
  BY DEF Close
<1>3. writing \in Seq(Files)
  BY <1>1 DEF ScriptTypes
<1>4. PICK f \in Files : /\ f = Head(writing) /\ Mine(f, file, ver) /\ exit # "ok" /\ f \in ToSet(writing)
                         /\ stage \in {"exists", "check", "precompile"}
                         /\ stage = "precompile" => \E r \in AllRunners : f = Runner(r)
  BY <1>2, <1>3, HeadIsMine, HeadAndTail
<1>5. PICK t \in Seq(Files) : t = Tail(writing) /\ ToSet(writing) = {f} \cup ToSet(t)
  BY <1>2, <1>3, <1>4, HeadAndTail
<1>6. stage = "precompile" => ToSet(t) = {} /\ Len(t) <= 1
  BY <1>2, <1>5, HeadIsMine
<1>7. "whole" \in FileStates
  BY DEF FileStates
<1>8. PICK gi : /\ gi = file' /\ gi \in [Files -> FileStates] /\ gi[f] = "whole" /\ DoneIn(gi, flags, ver, exit)
                /\ \A g \in Files : g # f => gi[g] = file[g]
  BY <1>2, <1>4, <1>7, FileChanges
<1>9. ScriptTypes(gi, flags, stage, ver, t, queue)
  BY <1>1, <1>5, <1>8 DEF ScriptTypes
<1>10. WriteIn(gi, stage, ver, t)
  BY <1>1, <1>5, <1>6 DEF WriteIn
<1>11. NowIn(gi, flags, stage, ver, writing, queue)
  BY <1>1, <1>4, <1>8, OthersKept
<1>12. NowIn(gi, flags, stage, ver, t, queue)
  <2>1. \A r : Runner(r) \in ToSet(writing) => gi[Runner(r)] = "whole" \/ Runner(r) \in ToSet(t)
    BY <1>5, <1>8
  <2> QED
    BY <1>11, <2>1 DEF NowIn
<1> QED
  BY <1>1, <1>2, <1>5, <1>8, <1>9, <1>10, <1>12, ScriptThen DEF ScriptOf

\* A runner that is there is taken if its bytes are those of its name, and removed if not.
LEMMA CheckRunnerInv == ScriptInv /\ CheckRunner => ScriptInv'
<1> SUFFICES ASSUME ScriptInv, CheckRunner PROVE ScriptInv'
  OBVIOUS
<1>1. /\ ScriptTypes(file, flags, stage, ver, writing, queue) /\ WriteIn(file, stage, ver, writing)
      /\ NowIn(file, flags, stage, ver, writing, queue) /\ PhaseIn(stage, queue, exit)
      /\ VenvIn(flags, stage, venv) /\ DoneIn(file, flags, ver, exit)
      /\ (ver # 0 => ver \in 1 .. Last0)
  BY ScriptParts
<1>2. queue \in Seq(AllRunners) /\ queue # <<>> /\ writing = <<>>
  BY <1>1 DEF ScriptTypes, CheckRunner
<1>3. PICK r \in AllRunners, q \in Seq(AllRunners) :
        r = Head(queue) /\ q = Tail(queue) /\ ToSet(queue) = {r} \cup ToSet(q) /\ r \in ToSet(queue)
  BY <1>2, HeadAndTail
<1>4. stage = "precompile" /\ exit # "ok"
  BY <1>1, <1>3 DEF PhaseIn
<1>5. PICK f \in Files : f = Runner(r)
  BY <1>3, FilesAre
<1>6. UNCHANGED <<venv, flags, stage, ver, writing, exit>>
  BY DEF CheckRunner
<1>7. \/ file[f] = "whole" /\ queue' = q /\ file' = file
      \/ file[f] # "whole" /\ file' = [file EXCEPT ![f] = "absent"] /\ queue' = queue
  BY <1>3, <1>5 DEF CheckRunner, RunnerCheckBytes
<1>8. CASE file[f] = "whole" /\ queue' = q /\ file' = file
  <2>1. ScriptTypes(file, flags, stage, ver, writing, q)
    BY <1>1 DEF ScriptTypes
  <2>2. NowIn(file, flags, stage, ver, writing, q)
    <3>1. \A x : x \in ToSet(queue) => x \in ToSet(q) \/ file[Runner(x)] = "whole"
      BY <1>3, <1>5, <1>8
    <3> QED
      BY <1>1, <3>1 DEF NowIn
  <2>3. PhaseIn(stage, q, exit)
    BY <1>4 DEF PhaseIn
  <2> QED
    BY <1>1, <1>6, <1>8, <2>1, <2>2, <2>3, ScriptThen DEF ScriptOf
<1>9. CASE file[f] # "whole" /\ file' = [file EXCEPT ![f] = "absent"] /\ queue' = queue
  <2>1. Mine(f, file, ver) /\ "absent" \in FileStates
    BY <1>5, <1>9 DEF Mine, FileStates
  <2>2. PICK gi : /\ gi = file' /\ gi \in [Files -> FileStates] /\ gi[f] = "absent" /\ DoneIn(gi, flags, ver, exit)
                  /\ \A g \in Files : g # f => gi[g] = file[g]
    BY <1>4, <1>9, <2>1, FileChanges
  <2>3. ScriptTypes(gi, flags, stage, ver, writing, queue)
    BY <1>1, <2>2 DEF ScriptTypes
  <2>4. WriteIn(gi, stage, ver, writing)
    BY <1>2, NothingLeft DEF WriteIn
  <2>5. NowIn(gi, flags, stage, ver, writing, queue)
    BY <1>1, <1>4, <1>5, <1>9, <2>2, OthersKept
  <2> QED
    BY <1>1, <1>6, <1>9, <2>2, <2>3, <2>4, <2>5, ScriptThen DEF ScriptOf
<1> QED
  BY <1>7, <1>8, <1>9

\* An absent runner is downloaded; other bytes than asked for end the run.
LEMMA DownloadInv == ScriptInv /\ Download => ScriptInv'
<1> SUFFICES ASSUME ScriptInv, Download PROVE ScriptInv'
  OBVIOUS
<1>1. /\ ScriptTypes(file, flags, stage, ver, writing, queue)
      /\ NowIn(file, flags, stage, ver, writing, queue) /\ PhaseIn(stage, queue, exit)
      /\ VenvIn(flags, stage, venv)
  BY ScriptParts
<1>2. queue \in Seq(AllRunners) /\ queue # <<>> /\ writing = <<>> /\ file' = file /\ venv' = venv
  BY <1>1 DEF ScriptTypes, Download, Disk
<1>3. PICK r \in AllRunners, q \in Seq(AllRunners) :
        r = Head(queue) /\ q = Tail(queue) /\ ToSet(queue) = {r} \cup ToSet(q) /\ r \in ToSet(queue)
  BY <1>2, HeadAndTail
<1>4. stage = "precompile"
  BY <1>1, <1>3 DEF PhaseIn
<1>5. PICK f \in Files : f = Runner(r)
  BY <1>3, FilesAre
<1>6. Then(stage, <<f>>, q) \/ Fail
  BY <1>3, <1>5 DEF Download
<1>7. CASE Fail
  BY <1>2, <1>7, StopInv DEF Fail
<1>8. CASE Then(stage, <<f>>, q)
  <2>1. <<f>> \in Seq(Files) /\ ToSet(<<f>>) = {f} /\ Len(<<f>>) = 1
    BY DEF ToSet
  <2>2. stage' = "precompile" /\ writing' = <<f>> /\ queue' = q /\ UNCHANGED <<file, ver, exit, flags>>
    BY <1>2, <1>4, <1>8 DEF Then
  <2>3. NowIn(file, flags, "precompile", ver, <<f>>, q)
    <3>1. \A x : x \in ToSet(queue) => x \in ToSet(q) \/ Runner(x) \in ToSet(<<f>>)
      BY <1>3, <1>5, <2>1
    <3>2. NowIn(file, flags, "precompile", ver, <<>>, queue)
      BY <1>1, <1>2, <1>4
    <3> QED
      BY <3>1, <3>2, NothingLeft DEF NowIn
  <2>4. WriteIn(file, "precompile", ver, <<f>>)
    <3>1. file[f] # "whole"
      BY <1>3, <1>5 DEF Download
    <3> QED
      BY <1>5, <2>1, <3>1 DEF WriteIn
  <2>5. "precompile" \in Stages
    BY DEF Stages
  <2> QED
    BY <1>1, <1>2, <1>4, <2>1, <2>2, <2>3, <2>4, <2>5, ThenInv
<1> QED
  BY <1>6, <1>7, <1>8

\* The invariant is inductive.
LEMMA ScriptInvStep == ScriptInv /\ [InstallNext]_ivars => ScriptInv'
<1>1. ASSUME ScriptInv, UNCHANGED ivars PROVE ScriptInv'
  <2>1. UNCHANGED <<file, venv, flags, stage, ver, writing, queue, exit>>
    BY <1>1 DEF ivars
  <2>2. ScriptOf(file', venv', flags', stage', ver', writing', queue', exit')
    BY <1>1, <2>1 DEF ScriptInv
  <2> QED
    BY <2>2, ScriptThen
<1> QED
  BY <1>1, ScriptStarts, CrashInv, VenvInv, MainInv, OpenInv, CloseInv, FetchInv, ExistsInv, PatchInv, CheckInv,
     RunnersInv, PrecompileInv, CheckRunnerInv, DownloadInv DEF InstallNext

\* Before the first run there is nothing but genvm-modules.
LEMMA ScriptInvInit == InstallInit => ScriptInv
<1> SUFFICES ASSUME InstallInit PROVE ScriptInv
  OBVIOUS
<1>1. /\ file = [f \in Files |-> IF f = Modules THEN "whole" ELSE "absent"] /\ flags \in Flags
      /\ stage = "off" /\ ver = 0 /\ writing = <<>> /\ queue = <<>> /\ exit = "none"
  BY DEF InstallInit
<1>2. ScriptTypes(file, flags, stage, ver, writing, queue)
  <2>1. file \in [Files -> FileStates]
    BY <1>1 DEF FileStates
  <2>2. flags \in [Names -> BOOLEAN]
    BY <1>1, InstallAssumption
  <2>3. ver \in 0 .. Last0
    BY <1>1, FilesAre
  <2> QED
    BY <1>1, <2>1, <2>2, <2>3, NothingLeft DEF ScriptTypes, Stages
<1>3. DoneIn(file, flags, ver, exit)
  BY <1>1, FilesAre DEF DoneIn
<1>4. /\ NowIn(file, flags, stage, ver, writing, queue) /\ WriteIn(file, stage, ver, writing)
      /\ PhaseIn(stage, queue, exit) /\ VenvIn(flags, stage, venv)
  BY <1>1, NothingLeft DEF NowIn, WriteIn, PhaseIn, VenvIn
<1> QED
  BY <1>2, <1>3, <1>4 DEF ScriptInv, ScriptOf

\* For every manifest, registry and choice of flags, however often runs are
\* killed and wherever, a run that ends well leaves every executor wanted as
\* it was asked for, and the script proper has its dependencies.
THEOREM InstallKeepsPromise == InstallSpec => []InstallSound
<1>1. InstallInit => ScriptInv
  BY ScriptInvInit
<1>2. ScriptInv /\ [InstallNext]_ivars => ScriptInv'
  BY ScriptInvStep
<1>3. ScriptInv => InstallSound
  <2> SUFFICES ASSUME ScriptInv PROVE InstallSound
    OBVIOUS
  <2>1. DoneIn(file, flags, ver, exit) /\ VenvIn(flags, stage, venv)
    BY ScriptParts
  <2>2. ASSUME exit = "ok", NEW v \in Versions, Wanted(v) PROVE ExeReady(v) /\ RunnersReady(v)
    <3>1. PICK j \in 1 .. Last0 : v = Manifest[j]
      BY FilesAre
    <3>2. ReadyIn(file, flags, v)
      BY <2>1, <2>2, <3>1 DEF DoneIn
    <3> QED
      BY <3>2 DEF ReadyIn, ExeReady, RunnersReady
  <2> QED
    BY <2>1, <2>2 DEF InstallSound, VenvIn
<1> QED
  BY <1>1, <1>2, <1>3, PTL DEF InstallSpec
=============================================================================
