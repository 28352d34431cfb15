---------------------------- MODULE ManagerProofs ----------------------------
(***************************************************************************)
(* Proofs about the manager's permits, for every number of executions,     *)
(* permits and calls of set_permits.                                       *)
(***************************************************************************)
EXTENDS Manager, Sums

-----------------------------------------------------------------------------
\* The permits held, as a sum.

HeldBy == [e \in Execs |-> exec[e].held]

\* The total is the sum of what each execution holds.
LEMMA TotalIsSum == TotalHeld = SumOver(HeldBy, Execs)
  BY Zenon DEF TotalHeld, SumOver, HeldBy

\* The same of the next state.
LEMMA TotalIsSumNext == TotalHeld' = SumOver(HeldBy', Execs)
<1>1. (TotalHeld = SumOver(HeldBy, Execs))'
  BY TotalIsSum, PTL
<1> QED
  BY <1>1

\* The total is a natural number, and no execution holds more.
LEMMA TotalType == ASSUME TypeOK PROVE TotalHeld \in Nat /\ \A e \in Execs : exec[e].held <= TotalHeld
<1>1. IsFiniteSet(Execs) /\ \A e \in Execs : HeldBy[e] \in Nat /\ HeldBy[e] = exec[e].held
  BY ManagerAssumption DEF TypeOK, HeldBy
<1>2. SumOver(HeldBy, Execs) \in Nat
  BY <1>1, SumNat
<1>3. \A e \in Execs : HeldBy[e] <= SumOver(HeldBy, Execs)
  BY <1>1, TermWithinSum
<1> QED
  BY <1>1, <1>2, <1>3, TotalIsSum

\* A step that changes what one execution holds changes the total by that.
LEMMA TotalChanges ==
  ASSUME TypeOK, TypeOK', NEW e \in Execs,
         \A x \in Execs \ {e} : exec'[x].held = exec[x].held
  PROVE  TotalHeld' = TotalHeld - exec[e].held + exec'[e].held
<1>1. /\ IsFiniteSet(Execs)
      /\ \A x \in Execs : HeldBy[x] \in Int /\ HeldBy'[x] \in Int
      /\ \A x \in Execs : HeldBy[x] = exec[x].held /\ HeldBy'[x] = exec'[x].held
  BY ManagerAssumption, SMTT(30) DEF TypeOK, HeldBy
<1>2. \A x \in Execs \ {e} : HeldBy[x] = HeldBy'[x]
  BY <1>1
<1>3. SumOver(HeldBy', Execs) = SumOver(HeldBy, Execs) - HeldBy[e] + HeldBy'[e]
  BY <1>1, <1>2, SumChange
<1> QED
  BY <1>1, <1>3, TotalIsSum, TotalIsSumNext

\* A step that changes nobody's permits leaves the total alone.
LEMMA TotalStays ==
  ASSUME TypeOK, TypeOK', \A x \in Execs : exec'[x].held = exec[x].held
  PROVE  TotalHeld' = TotalHeld
<1>1. HeldBy' = HeldBy
  BY DEF HeldBy
<1> QED
  BY <1>1, TotalIsSum, TotalIsSumNext

-----------------------------------------------------------------------------
\* The line of requests.

Requests == [who : Execs \cup {0}, n : Nat]

\* Who waits in line is an execution or the call of set_permits.
LEMMA WhoInLine ==
  ASSUME TypeOK
  PROVE  \A i \in DOMAIN line : line[i].who # 0 => line[i].who \in Execs
<1>1. line \in Seq(Requests)
  BY DEF TypeOK, Requests
<1>2. \A i \in DOMAIN line : line[i] \in Requests
  BY <1>1
<1> QED
  BY <1>2 DEF Requests

\* Leaving the line takes one request out and keeps the others in order.
LEMMA Removed ==
  ASSUME NEW s \in Seq(Requests), NEW i \in DOMAIN s
  PROVE  /\ RemoveAt(s, i) \in Seq(Requests)
         /\ Len(RemoveAt(s, i)) = Len(s) - 1
         /\ \A j \in DOMAIN RemoveAt(s, i) :
              RemoveAt(s, i)[j] = IF j < i THEN s[j] ELSE s[j + 1]
<1> DEFINE a == SubSeq(s, 1, i - 1)
           b == SubSeq(s, i + 1, Len(s))
<1>1. a \in Seq(Requests) /\ Len(a) = i - 1 /\ \A j \in 1 .. i - 1 : a[j] = s[j]
  OBVIOUS
<1>2. b \in Seq(Requests) /\ Len(b) = Len(s) - i /\ \A j \in 1 .. Len(s) - i : b[j] = s[i + j]
  OBVIOUS
<1>3. RemoveAt(s, i) = a \o b
  BY DEF RemoveAt
<1> HIDE DEF a, b
<1>4. /\ a \o b \in Seq(Requests) /\ Len(a \o b) = Len(s) - 1
      /\ DOMAIN (a \o b) = 1 .. Len(s) - 1
  BY <1>1, <1>2
<1>5. \A j \in 1 .. Len(s) - 1 : (a \o b)[j] = IF j < i THEN s[j] ELSE s[j + 1]
  BY <1>1, <1>2
<1> QED
  BY <1>3, <1>4, <1>5

\* Nobody in a line that lost its i-th request was not in it before, and
\* nobody is in it twice.
LEMMA LeftLine ==
  ASSUME line \in Seq(Requests), NEW who, Leave(who),
         \A i, j \in DOMAIN line : line[i].who = line[j].who => i = j
  PROVE  /\ line' \in Seq(Requests)
         /\ \A j \in DOMAIN line' : \E k \in DOMAIN line : line'[j] = line[k] /\ line[k].who # who
         /\ \A i, j \in DOMAIN line' : line'[i].who = line'[j].who => i = j
<1>1. PICK i \in DOMAIN line : line[i].who = who /\ line' = RemoveAt(line, i)
  BY DEF Leave
<1> DEFINE At(j) == IF j < i THEN j ELSE j + 1
<1>2. /\ line' \in Seq(Requests) /\ Len(line') = Len(line) - 1
      /\ \A j \in DOMAIN line' : line'[j] = line[At(j)]
  <2>1. \A j \in DOMAIN line' : line'[j] = IF j < i THEN line[j] ELSE line[j + 1]
    BY <1>1, Removed
  <2> QED
    BY <1>1, <2>1, Removed
<1>3. /\ \A j \in DOMAIN line' : At(j) \in DOMAIN line /\ At(j) # i
      /\ \A j, k \in DOMAIN line' : At(j) = At(k) => j = k
  BY <1>2
<1> HIDE DEF At
<1> QED
  BY <1>1, <1>2, <1>3

\* A request joins the line at its end.
LEMMA JoinedLine ==
  ASSUME line \in Seq(Requests), NEW r \in Requests, line' = Append(line, r),
         \A i, j \in DOMAIN line : line[i].who = line[j].who => i = j,
         \A i \in DOMAIN line : line[i].who # r.who
  PROVE  /\ line' \in Seq(Requests)
         /\ \A j \in DOMAIN line' : line'[j] = r \/ (j \in DOMAIN line /\ line'[j] = line[j])
         /\ \A i, j \in DOMAIN line' : line'[i].who = line'[j].who => i = j
<1>1. /\ line' \in Seq(Requests) /\ Len(line') = Len(line) + 1
      /\ \A j \in 1 .. Len(line) : line'[j] = line[j]
      /\ line'[Len(line) + 1] = r
      /\ DOMAIN line = 1 .. Len(line) /\ DOMAIN line' = 1 .. Len(line) + 1 /\ Len(line) \in Nat
  OBVIOUS
<1>2. \A j \in DOMAIN line' : j \in DOMAIN line \/ j = Len(line) + 1
  BY <1>1
<1> QED
  BY <1>1, <1>2

\* The first in line is served and leaves it.
LEMMA ServedLine ==
  ASSUME line \in Seq(Requests), line # <<>>, line' = Tail(line),
         \A i, j \in DOMAIN line : line[i].who = line[j].who => i = j
  PROVE  /\ 1 \in DOMAIN line /\ line[1] \in Requests
         /\ line' \in Seq(Requests)
         /\ \A j \in DOMAIN line' : \E k \in DOMAIN line : line'[j] = line[k] /\ line[k].who # line[1].who
         /\ \A i, j \in DOMAIN line' : line'[i].who = line'[j].who => i = j
<1>1. /\ Len(line) \in Nat \ {0} /\ DOMAIN line = 1 .. Len(line)
      /\ line' \in Seq(Requests) /\ DOMAIN line' = 1 .. Len(line) - 1
      /\ \A j \in DOMAIN line' : line'[j] = line[j + 1]
      /\ line[1] \in Requests
  OBVIOUS
<1>2. \A j \in DOMAIN line' : j + 1 \in DOMAIN line /\ j + 1 # 1
  BY <1>1
<1>3. \A j \in DOMAIN line' : line'[j] = line[j + 1] /\ line[j + 1].who # line[1].who
  BY <1>1, <1>2
<1> QED
  BY <1>1, <1>2, <1>3
-----------------------------------------------------------------------------
\* The steps of one execution.

ExecRecord == [phase : Phases, held : Nat, alive : BOOLEAN, late : BOOLEAN,
               result : BOOLEAN, lock : Locks]

\* The state of an execution changes and no permit moves.
LEMMA KeepsPermits ==
  ASSUME IndInv, NEW e \in Execs, NEW x \in ExecRecord, Now(e, x),
         x.held = exec[e].held, MayHold(x), exec[e].phase = "queued" <=> x.phase = "queued",
         UNCHANGED <<free, line, limit, setting, gc>>
  PROVE  IndInv'
<1> USE DEF IndInv
<1>1. exec \in [Execs -> ExecRecord]
  BY DEF TypeOK, ExecRecord
<1>2. /\ exec' \in [Execs -> ExecRecord]
      /\ \A d \in Execs : exec'[d] = IF d = e THEN x ELSE exec[d]
  BY <1>1 DEF Now
<1>3. TypeOK'
  BY <1>2 DEF TypeOK, ExecRecord
<1>4. LineInv'
  <2>1. \A i \in DOMAIN line : line[i].who # 0 => line[i].who \in Execs
    BY WhoInLine
  <2> QED
    BY <1>2, <2>1 DEF LineInv
<1>5. HolderInv'
  BY <1>2 DEF HolderInv, MayHold
<1>6. TotalHeld' = TotalHeld
  BY <1>2, <1>3, TotalStays
<1> QED
  BY <1>3, <1>4, <1>5, <1>6 DEF PermitsConserved, LimitInv

\* An execution gives its permits back to the semaphore.
LEMMA GivesPermits ==
  ASSUME IndInv, NEW e \in Execs, NEW x \in ExecRecord, Now(e, x),
         x.held = 0, MayHold(x), free' = free + exec[e].held, exec[e].phase # "queued", x.phase # "queued",
         UNCHANGED <<line, limit, setting, gc>>
  PROVE  IndInv'
<1> USE DEF IndInv
<1>1. exec \in [Execs -> ExecRecord]
  BY DEF TypeOK, ExecRecord
<1>2. /\ exec' \in [Execs -> ExecRecord]
      /\ \A d \in Execs : exec'[d] = IF d = e THEN x ELSE exec[d]
  BY <1>1 DEF Now
<1>3. exec[e].held \in Nat /\ free \in Nat
  BY DEF TypeOK
<1>4. TypeOK'
  BY <1>2, <1>3 DEF TypeOK, ExecRecord
<1>5. LineInv'
  <2>1. \A i \in DOMAIN line : line[i].who # 0 => line[i].who \in Execs
    BY WhoInLine
  <2> QED
    BY <1>2, <2>1 DEF LineInv
<1>6. HolderInv'
  BY <1>2 DEF HolderInv, MayHold
<1>7. TotalHeld' = TotalHeld - exec[e].held + 0
  BY <1>2, <1>4, TotalChanges
<1>8. TotalHeld \in Nat /\ limit.max \in Nat
  BY TotalType DEF TypeOK
<1> QED
  BY <1>3, <1>4, <1>5, <1>6, <1>7, <1>8 DEF PermitsConserved, LimitInv

\* start_genvm asks for permits: it was not in line before.
LEMMA RunKeeps == ASSUME IndInv, NEW e \in Execs, Run(e) PROVE IndInv'
<1> USE DEF IndInv
<1> DEFINE x == [NoExec EXCEPT !.phase = "queued"]
           r == Ask(e, Needs(e))
<1>1. exec \in [Execs -> ExecRecord] /\ line \in Seq(Requests)
  BY DEF TypeOK, ExecRecord, Requests
<1>2. x \in ExecRecord /\ x.held = 0 /\ x.phase = "queued" /\ ~ x.result /\ x.lock = "free"
  BY DEF NoExec, ExecRecord, Phases, Locks
<1>3. r \in Requests /\ r.who = e /\ e # 0
  BY ManagerAssumption DEF Ask, Needs, Requests
<1> HIDE DEF x, r
<1>4. /\ exec' \in [Execs -> ExecRecord] /\ exec[e].phase = "none"
      /\ \A d \in Execs : exec'[d] = IF d = e THEN x ELSE exec[d]
      /\ line' = Append(line, r) /\ UNCHANGED <<free, limit, setting, gc>>
  BY <1>1, <1>2 DEF Run, Now, x, r
<1>5. \A i \in DOMAIN line : line[i].who # e
  BY <1>3, <1>4 DEF LineInv
<1>6. /\ line' \in Seq(Requests)
      /\ \A j \in DOMAIN line' : line'[j] = r \/ (j \in DOMAIN line /\ line'[j] = line[j])
      /\ \A i, j \in DOMAIN line' : line'[i].who = line'[j].who => i = j
  BY <1>1, <1>3, <1>4, <1>5, JoinedLine DEF LineInv
<1>7. TypeOK'
  BY <1>4, <1>6 DEF TypeOK, ExecRecord, Requests
<1>8. LineInv'
  <2>1. \A i \in DOMAIN line : line[i].who # 0 => line[i].who \in Execs /\ line[i].who # e
    BY <1>5, WhoInLine
  <2> QED
    BY <1>2, <1>3, <1>4, <1>6, <2>1 DEF LineInv
<1>9. HolderInv'
  BY <1>2, <1>4 DEF HolderInv, MayHold
<1>10. \A d \in Execs : exec'[d].held = exec[d].held
  BY <1>2, <1>4 DEF HolderInv, MayHold, TypeOK
<1>11. TotalHeld' = TotalHeld
  BY <1>7, <1>10, TotalStays
<1> QED
  BY <1>4, <1>7, <1>8, <1>9, <1>11 DEF PermitsConserved, LimitInv

\* The first in line gets its permits: they were free, and it held none.
LEMMA GrantKeeps == ASSUME IndInv, NEW e \in Execs, Grant(e) PROVE IndInv'
<1> USE DEF IndInv
<1> DEFINE x == [exec[e] EXCEPT !.phase = "granted", !.held = line[1].n]
<1>1. exec \in [Execs -> ExecRecord] /\ line \in Seq(Requests) /\ e # 0 /\ free \in Nat
  BY ManagerAssumption DEF TypeOK, ExecRecord, Requests
<1>2. /\ line # <<>> /\ line[1].n <= free /\ line[1].who = e /\ line' = Tail(line)
      /\ free' = free - line[1].n /\ UNCHANGED <<limit, setting, gc>>
  BY DEF Grant, Served
<1>3. /\ 1 \in DOMAIN line /\ line[1] \in Requests
      /\ line' \in Seq(Requests)
      /\ \A j \in DOMAIN line' : \E k \in DOMAIN line : line'[j] = line[k] /\ line[k].who # e
      /\ \A i, j \in DOMAIN line' : line'[i].who = line'[j].who => i = j
  BY <1>1, <1>2, ServedLine DEF LineInv
<1>4. exec[e].phase = "queued" /\ line[1].n \in Nat
  BY <1>1, <1>2, <1>3 DEF LineInv, Requests
<1>5. exec[e] \in ExecRecord /\ exec[e].held = 0 /\ ~ exec[e].result /\ exec[e].lock = "free"
  BY <1>1, <1>4 DEF HolderInv, MayHold
<1>6. x \in ExecRecord /\ x.held = line[1].n /\ x.phase = "granted" /\ ~ x.result /\ x.lock = "free"
  BY <1>4, <1>5 DEF ExecRecord, Phases
<1> HIDE DEF x
<1>7. /\ exec' \in [Execs -> ExecRecord]
      /\ \A d \in Execs : exec'[d] = IF d = e THEN x ELSE exec[d]
  BY <1>1, <1>6 DEF Grant, Now, x
<1>8. TypeOK'
  <2>1. free' \in Nat
    BY <1>1, <1>2, <1>4
  <2> QED
    BY <1>2, <1>3, <1>7, <2>1 DEF TypeOK, ExecRecord, Requests
<1>9. LineInv'
  <2>1. \A i \in DOMAIN line : line[i].who # 0 => line[i].who \in Execs
    BY WhoInLine
  <2> QED
    BY <1>1, <1>2, <1>3, <1>7, <2>1 DEF LineInv
<1>10. TotalHeld' = TotalHeld - 0 + line[1].n
  BY <1>5, <1>6, <1>7, <1>8, TotalChanges
<1>11. TotalHeld \in Nat /\ limit.max \in Nat
  BY TotalType DEF TypeOK
<1>12. PermitsConserved'
  BY <1>1, <1>2, <1>4, <1>10, <1>11 DEF PermitsConserved
<1>13. HolderInv'
  BY <1>6, <1>7 DEF HolderInv, MayHold
<1> QED
  BY <1>2, <1>8, <1>9, <1>12, <1>13 DEF LimitInv
\* The client of a waiting request goes away: the request leaves the line.
LEMMA DropRunKeeps == ASSUME IndInv, NEW e \in Execs, DropRun(e) PROVE IndInv'
<1> USE DEF IndInv
<1> DEFINE x == [exec[e] EXCEPT !.phase = "gone"]
<1>1. exec \in [Execs -> ExecRecord] /\ line \in Seq(Requests) /\ e # 0
  BY ManagerAssumption DEF TypeOK, ExecRecord, Requests
<1>2. exec[e] \in ExecRecord /\ exec[e].phase = "queued" /\ exec[e].held = 0
  BY <1>1 DEF DropRun, HolderInv, MayHold
<1>3. x \in ExecRecord /\ x.held = 0 /\ x.phase = "gone"
  BY <1>2 DEF ExecRecord, Phases
<1> HIDE DEF x
<1>4. /\ exec' \in [Execs -> ExecRecord]
      /\ \A d \in Execs : exec'[d] = IF d = e THEN x ELSE exec[d]
      /\ UNCHANGED <<free, limit, setting, gc>> /\ Leave(e)
  BY <1>1, <1>3 DEF DropRun, Now, x
<1>5. /\ line' \in Seq(Requests)
      /\ \A j \in DOMAIN line' : \E k \in DOMAIN line : line'[j] = line[k] /\ line[k].who # e
      /\ \A i, j \in DOMAIN line' : line'[i].who = line'[j].who => i = j
  BY <1>1, <1>4, LeftLine DEF LineInv
<1>6. TypeOK'
  BY <1>4, <1>5 DEF TypeOK, ExecRecord, Requests
<1>7. LineInv'
  <2>1. \A i \in DOMAIN line : line[i].who # 0 => line[i].who \in Execs
    BY WhoInLine
  <2> QED
    BY <1>1, <1>4, <1>5, <2>1 DEF LineInv
<1>8. HolderInv'
  BY <1>3, <1>4 DEF HolderInv, MayHold
<1>9. TotalHeld' = TotalHeld
  BY <1>2, <1>3, <1>4, <1>6, TotalStays
<1> QED
  BY <1>4, <1>6, <1>7, <1>8, <1>9 DEF PermitsConserved, LimitInv

\* Starting the process, reading its output, shutting it down, and the process
\* itself.
LEMMA ProcessKeeps ==
  ASSUME IndInv, NEW e \in Execs,
         \/ Spawn(e) \/ Exit(e) \/ Expire(e) \/ CheckDone(e) \/ CheckDropped(e) \/ Fetch(e)
         \/ Shutdown(e) \/ ShutdownDone(e) \/ \E who \in {"client", "gc"} : CheckProc(e, who)
  PROVE  IndInv'
<1>1. exec[e] \in ExecRecord /\ MayHold(exec[e])
  BY DEF IndInv, TypeOK, ExecRecord, HolderInv
<1> DEFINE y == exec[e]
<1> USE DEF MayHold, ExecRecord, Phases, Locks
<1>2. CASE Spawn(e)
  <2>1. CASE Now(e, [exec[e] EXCEPT !.phase = "known", !.alive = TRUE]) /\ UNCHANGED free
    <3> DEFINE x == [exec[e] EXCEPT !.phase = "known", !.alive = TRUE]
    <3>1. x \in ExecRecord /\ x.held = y.held /\ MayHold(x) /\ y.phase # "queued" /\ x.phase # "queued"
      BY <1>1, <1>2 DEF Spawn
    <3> QED
      BY <1>2, <2>1, <3>1, KeepsPermits DEF Spawn
  <2>2. CASE Now(e, [exec[e] EXCEPT !.phase = "gone", !.held = 0]) /\ free' = free + exec[e].held
    <3> DEFINE x == [exec[e] EXCEPT !.phase = "gone", !.held = 0]
    <3>1. x \in ExecRecord /\ x.held = 0 /\ MayHold(x) /\ y.phase # "queued" /\ x.phase # "queued"
      BY <1>1, <1>2 DEF Spawn
    <3> QED
      BY <1>2, <2>2, <3>1, GivesPermits DEF Spawn
  <2> QED
    BY <1>2, <2>1, <2>2 DEF Spawn
<1>3. CASE Exit(e)
  <2> DEFINE x == [exec[e] EXCEPT !.alive = FALSE]
  <2>1. x \in ExecRecord /\ x.held = y.held /\ MayHold(x) /\ (y.phase = "queued" <=> x.phase = "queued")
    BY <1>1
  <2> QED
    BY <1>3, <2>1, KeepsPermits DEF Exit
<1>4. CASE Expire(e)
  <2> DEFINE x == [exec[e] EXCEPT !.late = TRUE]
  <2>1. x \in ExecRecord /\ x.held = y.held /\ MayHold(x) /\ (y.phase = "queued" <=> x.phase = "queued")
    BY <1>1
  <2> QED
    BY <1>4, <2>1, KeepsPermits DEF Expire
<1>5. CASE CheckDone(e)
  <2> DEFINE x == [exec[e] EXCEPT !.lock = "free", !.result = TRUE]
  <2>1. x \in ExecRecord /\ x.held = y.held /\ MayHold(x) /\ (y.phase = "queued" <=> x.phase = "queued")
    BY <1>1, <1>5 DEF CheckDone
  <2> QED
    BY <1>5, <2>1, KeepsPermits DEF CheckDone
<1>6. CASE CheckDropped(e)
  <2> DEFINE x == [exec[e] EXCEPT !.lock = "free"]
  <2>1. x \in ExecRecord /\ x.held = y.held /\ MayHold(x) /\ (y.phase = "queued" <=> x.phase = "queued")
    BY <1>1, <1>6 DEF CheckDropped
  <2> QED
    BY <1>6, <2>1, KeepsPermits DEF CheckDropped
<1>7. CASE Fetch(e)
  <2> DEFINE x == [exec[e] EXCEPT !.phase = "gone"]
  <2>1. x \in ExecRecord /\ x.held = y.held /\ MayHold(x) /\ y.phase # "queued" /\ x.phase # "queued"
    BY <1>1, <1>7 DEF Fetch
  <2> QED
    BY <1>7, <2>1, KeepsPermits DEF Fetch
<1>8. CASE Shutdown(e)
  <2> DEFINE x == [exec[e] EXCEPT !.lock = "term"]
  <2>1. x \in ExecRecord /\ x.held = y.held /\ MayHold(x) /\ y.phase # "queued" /\ x.phase # "queued"
    BY <1>1, <1>8 DEF Shutdown
  <2> QED
    BY <1>8, <2>1, KeepsPermits DEF Shutdown
<1>9. CASE ShutdownDone(e)
  <2> DEFINE x == [exec[e] EXCEPT !.lock = "free", !.alive = FALSE]
             z == [exec[e] EXCEPT !.lock = "free"]
  <2>1. x \in ExecRecord /\ x.held = y.held /\ MayHold(x) /\ (y.phase = "queued" <=> x.phase = "queued")
    BY <1>1, <1>9 DEF ShutdownDone
  <2>2. z \in ExecRecord /\ z.held = y.held /\ MayHold(z) /\ (y.phase = "queued" <=> z.phase = "queued")
    BY <1>1, <1>9 DEF ShutdownDone
  <2>3. Now(e, x) \/ Now(e, z)
    BY <1>9 DEF ShutdownDone
  <2>4. UNCHANGED <<free, line, limit, setting, gc>>
    BY <1>9 DEF ShutdownDone
  <2> HIDE DEF x, z, MayHold, ExecRecord
  <2> QED
    BY <2>1, <2>2, <2>3, <2>4, KeepsPermits
<1>10. ASSUME NEW who \in {"client", "gc"}, CheckProc(e, who) PROVE IndInv'
  <2> DEFINE x == [exec[e] EXCEPT !.held = 0, !.lock = who]
  <2>1. x \in ExecRecord /\ x.held = 0 /\ MayHold(x) /\ y.phase # "queued" /\ x.phase # "queued"
    BY <1>1, <1>10 DEF CheckProc
  <2> QED
    BY <1>10, <2>1, GivesPermits DEF CheckProc
<1> QED
  BY <1>2, <1>3, <1>4, <1>5, <1>6, <1>7, <1>8, <1>9, <1>10
-----------------------------------------------------------------------------
\* The garbage collector.

\* It moves through the keys it copied, kills what is overdue and forgets what
\* has ended; the permits it gives back are those of check_proc.
LEMMA GcKeeps == ASSUME IndInv, Gc PROVE IndInv'
<1>1. gc \in [on : BOOLEAN, keys : SUBSET Execs, at : Execs \cup {0}, overdue : SUBSET Execs]
  BY DEF IndInv, TypeOK
<1>2. CASE GcStart \/ GcPick \/ GcNext
  <2>1. UNCHANGED <<free, line, limit, setting, exec>>
    BY <1>2 DEF GcStart, GcPick, GcNext
  <2>2. gc' \in [on : BOOLEAN, keys : SUBSET Execs, at : Execs \cup {0}, overdue : SUBSET Execs]
    <3>1. CASE GcStart
      <4>1. Known \subseteq Execs /\ {e \in Known : exec[e].late} \subseteq Execs
        BY DEF Known
      <4> QED
        BY <3>1, <4>1 DEF GcStart
    <3>2. CASE GcPick
      <4>1. PICK e \in gc.keys : gc' = [gc EXCEPT !.keys = @ \ {e}, !.at = e]
        BY <3>2 DEF GcPick
      <4>2. e \in Execs /\ gc.keys \ {e} \subseteq Execs
        BY <1>1
      <4> QED
        BY <1>1, <4>1, <4>2
    <3>3. CASE GcNext
      BY <1>1, <3>3 DEF GcNext
    <3> QED
      BY <1>2, <3>1, <3>2, <3>3
  <2>3. TypeOK'
    BY <2>1, <2>2 DEF IndInv, TypeOK
  <2>4. TotalHeld' = TotalHeld
    BY <2>1, <2>3, TotalStays DEF IndInv
  <2> QED
    BY <2>1, <2>3, <2>4 DEF IndInv, LineInv, HolderInv, PermitsConserved, LimitInv
<1>3. CASE GcKill
  <2> DEFINE e == gc.at
             x == [exec[e] EXCEPT !.alive = FALSE]
  <2>1. e \in Execs /\ Now(e, x) /\ UNCHANGED <<free, line, limit, setting, gc>>
    BY <1>3 DEF GcKill, Known
  <2>2. exec[e] \in ExecRecord /\ MayHold(exec[e])
    BY <2>1 DEF IndInv, TypeOK, ExecRecord, HolderInv
  <2>3. /\ x \in ExecRecord /\ x.held = exec[e].held /\ MayHold(x)
        /\ exec[e].phase = "queued" <=> x.phase = "queued"
    BY <2>2 DEF ExecRecord, MayHold
  <2> HIDE DEF e, x
  <2> QED
    BY <2>1, <2>3, KeepsPermits
<1>4. CASE GcCheck
  BY <1>1, <1>4, ProcessKeeps DEF GcCheck
<1>5. CASE GcEnd
  <2> USE DEF IndInv
  <2>1. exec \in [Execs -> ExecRecord]
    BY DEF TypeOK, ExecRecord
  <2>2. PICK old \in SUBSET {e \in Known : exec[e].result} :
          exec' = [e \in Execs |-> IF e \in old THEN [exec[e] EXCEPT !.phase = "gone"] ELSE exec[e]]
    BY <1>5 DEF GcEnd
  <2>3. UNCHANGED <<free, line, limit, setting>> /\ gc' = GcIdle
    BY <1>5 DEF GcEnd
  <2>4. \A e \in Execs : e \in old => exec[e].result /\ exec[e].phase = "known"
    BY DEF Known
  <2>5. ASSUME NEW e \in Execs
        PROVE  /\ exec'[e] \in ExecRecord /\ exec'[e].held = exec[e].held /\ MayHold(exec'[e])
               /\ exec[e].phase = "queued" => exec'[e].phase = "queued"
    <3>1. exec[e] \in ExecRecord /\ MayHold(exec[e])
      BY <2>1 DEF HolderInv
    <3>2. CASE e \in old
      <4>1. exec'[e] = [exec[e] EXCEPT !.phase = "gone"]
        BY <2>2, <3>2
      <4> QED
        BY <2>4, <3>1, <3>2, <4>1 DEF ExecRecord, MayHold, Phases
    <3>3. CASE e \notin old
      <4>1. exec'[e] = exec[e]
        BY <2>2, <3>3
      <4> QED
        BY <3>1, <4>1
    <3> QED
      BY <3>2, <3>3
  <2>6. exec' \in [Execs -> ExecRecord]
    BY <2>2, <2>5
  <2>7. TypeOK'
    BY <2>3, <2>6 DEF TypeOK, ExecRecord, GcIdle
  <2>8. LineInv'
    BY <2>3, <2>5, WhoInLine DEF LineInv
  <2>9. HolderInv'
    BY <2>5 DEF HolderInv
  <2>10. TotalHeld' = TotalHeld
    BY <2>5, <2>7, TotalStays
  <2> QED
    BY <2>3, <2>7, <2>8, <2>9, <2>10 DEF PermitsConserved, LimitInv
<1> QED
  BY <1>2, <1>3, <1>4, <1>5 DEF Gc

-----------------------------------------------------------------------------
\* set_permits.

\* A call gives back what an earlier one withheld, raises the maximum at once,
\* or gets in line for the difference.
LEMMA SetPermitsKeeps == ASSUME IndInv, NEW target \in Targets, SetPermits(target) PROVE IndInv'
<1> USE DEF IndInv
<1> DEFINE max == limit.max + limit.throttled
           raise == target >= 2 /\ max <= target
           lower == target >= 2 /\ max > target
           r == Ask(0, max - target)
<1>1. /\ free \in Nat /\ limit.max \in Nat /\ limit.throttled \in Nat /\ target \in Nat
      /\ limit.withheld = limit.throttled /\ line \in Seq(Requests) /\ setting \in Settings
  BY ManagerAssumption DEF TypeOK, PermitsConserved, Requests
<1>2. /\ ~ setting.waits
      /\ setting' = [calls |-> setting.calls + 1, target |-> target, waits |-> lower,
                     told |-> IF lower THEN setting.told ELSE limit'.max,
                     open |-> lower, top |-> IF raise THEN target ELSE setting.top]
      /\ limit' = [max |-> IF raise THEN target ELSE max, throttled |-> 0, withheld |-> 0]
      /\ free' = free + limit.withheld + (IF raise THEN target - max ELSE 0)
      /\ line' = IF lower THEN Append(line, r) ELSE line
      /\ UNCHANGED <<exec, gc>>
  BY DEF SetPermits, GiveBack
<1>3. max \in Nat /\ (raise => ~lower) /\ (lower => r \in Requests /\ r.who = 0 /\ r.n = max - target)
  BY <1>1 DEF Ask, Requests
<1>4. free' \in Nat /\ limit' \in [max : Nat, throttled : Nat, withheld : Nat]
  BY <1>1, <1>2, <1>3
<1>5. \A i \in DOMAIN line : line[i].who # 0
  BY <1>2 DEF LineInv
<1>6. ~lower => line' = line
  BY <1>2
<1>7. lower => line' = Append(line, r) /\ limit'.max = max /\ setting'.target = target /\ setting'.waits
  BY <1>2, <1>3
<1>8. setting' \in Settings
  <2>1. limit'.max \in Nat /\ setting.calls + 1 \in Nat /\ setting.told \in Nat /\ setting.top \in Nat
    BY <1>1, <1>4 DEF Settings
  <2>2. /\ (IF lower THEN setting.told ELSE limit'.max) \in Nat
        /\ (IF raise THEN target ELSE setting.top) \in Nat /\ lower \in BOOLEAN
    BY <1>1, <2>1
  <2> QED
    BY <1>1, <1>2, <2>1, <2>2 DEF Settings
<1>9. free' + TotalHeld = limit'.max /\ limit'.throttled = limit'.withheld
  <2>1. TotalHeld \in Nat /\ free + TotalHeld = limit.max
    BY TotalType DEF PermitsConserved
  <2>2. limit'.max = (IF raise THEN target ELSE max) /\ limit'.throttled = limit'.withheld
    BY <1>2
  <2>3. free' = free + limit.throttled + (IF raise THEN target - max ELSE 0)
    BY <1>1, <1>2
  <2> HIDE DEF raise, lower, r
  <2>4. CASE raise
    BY <1>1, <2>1, <2>2, <2>3, <2>4
  <2>5. CASE ~raise
    BY <1>1, <2>1, <2>2, <2>3, <2>5
  <2> QED
    BY <2>4, <2>5
<1> HIDE DEF max, raise, lower, r
<1>10. /\ line' \in Seq(Requests)
       /\ \A j \in DOMAIN line' : (lower /\ line'[j] = r) \/ (j \in DOMAIN line /\ line'[j] = line[j])
       /\ \A i, j \in DOMAIN line' : line'[i].who = line'[j].who => i = j
  <2>1. CASE lower
    BY <1>1, <1>3, <1>5, <1>7, <2>1, JoinedLine DEF LineInv
  <2>2. CASE ~lower
    BY <1>1, <1>6, <2>2 DEF LineInv
  <2> QED
    BY <2>1, <2>2
<1>11. TypeOK'
  BY <1>2, <1>4, <1>8, <1>10 DEF TypeOK, Requests
<1>12. LineInv'
  BY <1>2, <1>3, <1>5, <1>7, <1>10 DEF LineInv
<1>13. TotalHeld' = TotalHeld
  BY <1>2, <1>11, TotalStays
<1>14. LimitInv'
  <2>1. setting.top = max
    BY DEF LimitInv, max
  <2>2. /\ limit'.max = (IF raise THEN target ELSE max) /\ limit'.throttled = 0
        /\ setting'.open = lower /\ setting'.told = (IF lower THEN setting.told ELSE limit'.max)
        /\ setting'.top = (IF raise THEN target ELSE setting.top)
    BY <1>2
  <2> QED
    BY <1>1, <1>3, <2>1, <2>2 DEF LimitInv
<1> QED
  BY <1>2, <1>9, <1>11, <1>12, <1>13, <1>14 DEF HolderInv, PermitsConserved

\* The waiting call gets its permits and lowers the maximum by as many.
LEMMA SetGrantedKeeps == ASSUME IndInv, SetGranted PROVE IndInv'
<1> USE DEF IndInv
<1>1. /\ line \in Seq(Requests) /\ free \in Nat /\ limit.max \in Nat /\ setting \in Settings
      /\ setting.target \in Nat
  BY DEF TypeOK, Requests, Settings
<1>2. /\ line # <<>> /\ line[1].n <= free /\ line[1].who = 0 /\ line' = Tail(line)
      /\ free' = free - line[1].n /\ UNCHANGED <<exec, gc>>
      /\ limit' = [max |-> setting.target, throttled |-> line[1].n, withheld |-> line[1].n]
      /\ setting' = [setting EXCEPT !.waits = FALSE, !.told = setting.target, !.open = FALSE]
  BY DEF SetGranted, Served
<1>3. /\ 1 \in DOMAIN line /\ line[1] \in Requests
      /\ line' \in Seq(Requests)
      /\ \A j \in DOMAIN line' : \E k \in DOMAIN line : line'[j] = line[k] /\ line[k].who # 0
      /\ \A i, j \in DOMAIN line' : line'[i].who = line'[j].who => i = j
  BY <1>1, <1>2, ServedLine DEF LineInv
<1>4. line[1].n \in Nat /\ line[1].n = limit.max - setting.target
  BY <1>2, <1>3 DEF LineInv, Requests
<1>5. TypeOK'
  <2>1. free' \in Nat
    BY <1>1, <1>2, <1>4
  <2>2. limit' \in [max : Nat, throttled : Nat, withheld : Nat]
    BY <1>1, <1>2, <1>4
  <2>3. setting' \in Settings
    BY <1>1, <1>2 DEF Settings
  <2> QED
    BY <1>2, <1>3, <2>1, <2>2, <2>3 DEF TypeOK, Requests
<1>6. LineInv'
  BY <1>2, <1>3 DEF LineInv
<1>7. TotalHeld' = TotalHeld
  BY <1>2, <1>5, TotalStays
<1>8. TotalHeld \in Nat /\ limit'.max = setting.target /\ limit'.throttled = limit'.withheld
  BY <1>2, TotalType
<1>9. LimitInv'
  <2>1. setting.waits /\ limit.throttled = 0 /\ setting.top = limit.max
    BY <1>1, <1>2, <1>3 DEF LineInv, LimitInv
  <2>2. /\ limit'.max = setting.target /\ limit'.throttled = limit.max - setting.target
        /\ setting'.told = setting.target /\ setting'.top = setting.top /\ setting'.waits = FALSE
    BY <1>1, <1>2, <1>4 DEF Settings
  <2> QED
    BY <1>1, <2>1, <2>2 DEF LimitInv
<1> QED
  BY <1>1, <1>2, <1>4, <1>5, <1>6, <1>7, <1>8, <1>9 DEF HolderInv, PermitsConserved

\* The client of set_permits goes away and its request leaves the line.
LEMMA SetDroppedKeeps == ASSUME IndInv, SetDropped PROVE IndInv'
<1> USE DEF IndInv
<1>1. /\ line \in Seq(Requests) /\ UNCHANGED <<free, limit, exec, gc>> /\ Leave(0)
      /\ setting' = [setting EXCEPT !.waits = FALSE]
  BY DEF TypeOK, Requests, SetDropped
<1>2. /\ line' \in Seq(Requests)
      /\ \A j \in DOMAIN line' : \E k \in DOMAIN line : line'[j] = line[k] /\ line[k].who # 0
      /\ \A i, j \in DOMAIN line' : line'[i].who = line'[j].who => i = j
  BY <1>1, LeftLine DEF LineInv
<1>3. /\ setting' \in Settings /\ setting'.told = setting.told /\ setting'.open = setting.open
      /\ setting'.top = setting.top /\ setting'.waits = FALSE
  BY <1>1 DEF TypeOK, Settings
<1>4. TypeOK'
  BY <1>1, <1>2, <1>3 DEF TypeOK, Requests
<1>5. LineInv'
  BY <1>1, <1>2 DEF LineInv
<1>6. TotalHeld' = TotalHeld
  BY <1>1, <1>4, TotalStays
<1> QED
  BY <1>1, <1>3, <1>4, <1>5, <1>6 DEF HolderInv, PermitsConserved, LimitInv

-----------------------------------------------------------------------------
\* Nobody holds anything at the start.
LEMMA IndInit == Init => IndInv
<1> SUFFICES ASSUME Init PROVE IndInv
  OBVIOUS
<1> USE ManagerAssumption
<1>1. exec = [e \in Execs |-> NoExec] /\ NoExec \in ExecRecord /\ NoExec.held = 0
  BY DEF Init, NoExec, ExecRecord, Phases, Locks
<1>2. exec \in [Execs -> ExecRecord]
  BY <1>1
<1>3. /\ free \in Nat /\ limit \in [max : Nat, throttled : Nat, withheld : Nat]
      /\ line \in Seq(Requests)
      /\ setting \in Settings
      /\ gc \in [on : BOOLEAN, keys : SUBSET Execs, at : Execs \cup {0}, overdue : SUBSET Execs]
  BY DEF Init, NotSetting, GcIdle, Settings
<1>4. TypeOK
  BY <1>2, <1>3 DEF TypeOK, ExecRecord, Requests
<1>5. LineInv
  BY DEF Init, LineInv
<1>6. HolderInv
  BY <1>1 DEF HolderInv, MayHold, NoExec
<1>7. TotalHeld = 0
  <2>1. IsFiniteSet(Execs) /\ \A e \in Execs : HeldBy[e] = 0
    BY <1>1 DEF HeldBy
  <2>2. SumOver(HeldBy, Execs) = 0
    BY <2>1, SumZero
  <2> QED
    BY <2>2, TotalIsSum
<1> QED
  BY <1>4, <1>5, <1>6, <1>7 DEF Init, IndInv, PermitsConserved, LimitInv, NotSetting

\* No step loses or invents a permit.
THEOREM PermitsKept == Spec => []IndInv
<1>1. IndInv /\ [Next]_vars => IndInv'
  <2> SUFFICES ASSUME IndInv, [Next]_vars PROVE IndInv'
    OBVIOUS
  <2>1. ASSUME NEW e \in Execs, Request(e) \/ Progress(e) \/ Exit(e) \/ Expire(e) PROVE IndInv'
    <3>1. CASE Run(e)
      BY <3>1, RunKeeps
    <3>2. CASE DropRun(e)
      BY <3>2, DropRunKeeps
    <3>3. CASE Grant(e)
      BY <3>3, GrantKeeps
    <3>4. CASE \/ Spawn(e) \/ Exit(e) \/ Expire(e) \/ CheckDone(e) \/ CheckDropped(e) \/ Fetch(e)
               \/ Shutdown(e) \/ ShutdownDone(e) \/ CheckProc(e, "client")
      BY <3>4, ProcessKeeps
    <3> QED
      BY <2>1, <3>1, <3>2, <3>3, <3>4 DEF Request, Progress
  <2>2. CASE UNCHANGED vars
    <3>1. UNCHANGED <<free, line, limit, setting, exec, gc>>
      BY <2>2 DEF vars
    <3>2. TypeOK'
      BY <3>1 DEF IndInv, TypeOK
    <3>3. TotalHeld' = TotalHeld
      BY <3>1, <3>2, TotalStays DEF IndInv
    <3> QED
      BY <3>1, <3>2, <3>3 DEF IndInv, LineInv, HolderInv, PermitsConserved, LimitInv
  <2> QED
    BY <2>1, <2>2, GcKeeps, SetGrantedKeeps, SetDroppedKeeps, SetPermitsKeeps DEF Next
<1> QED
  BY <1>1, IndInit, PTL DEF Spec

\* Once set_permits has answered, the executions hold no more permits than it
\* said until a lower limit is asked for, and never more than it last raised
\* the limit to: for any number of executions and calls, however starts, ends,
\* garbage collection and set_permits interleave.
THEOREM HeldIsWithinLimit == Spec => []HeldWithinLimit
<1>1. IndInv => HeldWithinLimit
  <2> SUFFICES ASSUME IndInv PROVE HeldWithinLimit
    OBVIOUS
  <2>1. /\ TotalHeld \in Nat /\ free \in Nat /\ limit.max \in Nat /\ limit.throttled \in Nat
        /\ free + TotalHeld = limit.max
    BY TotalType DEF IndInv, TypeOK, PermitsConserved
  <2>2. (~ setting.open => setting.told = limit.max) /\ limit.max + limit.throttled = setting.top
    BY DEF IndInv, LimitInv
  <2> QED
    BY <2>1, <2>2 DEF HeldWithinLimit
<1> QED
  BY <1>1, PermitsKept, PTL
=============================================================================
