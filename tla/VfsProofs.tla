------------------------------ MODULE VfsProofs ------------------------------
(***************************************************************************)
(* Proofs about the RAM budget and the descriptor tables: VfsInv is        *)
(* inductive, so for every number of VMs, every limit, every descriptor    *)
(* cost and every set of sizes the budget is conserved, the low-water mark *)
(* is right, and every VM is charged for exactly what it holds.            *)
(***************************************************************************)
EXTENDS Vfs, Sums

-----------------------------------------------------------------------------
\* Arithmetic modulo 2^32.

\* u32 arithmetic stays within its width.
LEMMA WrapType == ASSUME NEW n \in Int PROVE Wrap(n) \in Amounts
  BY LimiterAssumption DEF Wrap, Amounts

\* Amounts within the width are themselves.
LEMMA WrapSmall == ASSUME NEW n \in Amounts PROVE Wrap(n) = n
  BY LimiterAssumption DEF Wrap, Amounts

\* Adding whole multiples of 2^32 changes nothing.
LEMMA WrapMultiple ==
  ASSUME NEW a \in Int, NEW k \in Int
  PROVE  Wrap(a + k * (Limit + 1)) = Wrap(a)
<1> DEFINE M == Limit + 1
           b == a + k * M
<1>1. M \in Nat /\ M > 0
  BY LimiterAssumption
<1>2. b \in Int
  BY <1>1
<1>3. a = (a % M) + (a \div M) * M /\ a % M \in 0 .. Limit /\ a \div M \in Int
  BY <1>1, LimiterAssumption
<1> DEFINE j == b \div M
           i == a \div M
<1>4. b = (b % M) + j * M /\ b % M \in 0 .. Limit /\ j \in Int
  BY <1>1, <1>2, LimiterAssumption
<1>5. b = a + k * M
  OBVIOUS
<1> DEFINE r == a % M
           s == b % M
<1> HIDE DEF b, j, i, r, s, M
<1>6. s - r = (i + k - j) * M
  BY <1>1, <1>2, <1>3, <1>4, <1>5 DEF i, r, s
<1>7. s - r < M /\ r - s < M
  BY <1>1, <1>3, <1>4, SMTT(30) DEF M, r, s
<1> DEFINE d == i + k - j
<1>8. d \in Int
  BY <1>3, <1>4 DEF i
<1> HIDE DEF d
<1>9. d = 0
  <2>1. d * M < M /\ - M < d * M
    BY <1>1, <1>3, <1>4, <1>6, <1>7 DEF d, r, s
  <2>2. d >= 1 => d * M >= M
    BY <1>1, <1>8
  <2>3. d <= -1 => d * M <= - M
    BY <1>1, <1>8
  <2> QED
    BY <1>1, <1>8, <2>1, <2>2, <2>3
<1>10. s = r
  BY <1>1, <1>3, <1>4, <1>6, <1>9 DEF d, r, s
<1> QED
  BY <1>10 DEF Wrap, r, s, b, M

\* Congruence is kept by addition, and wrapping is congruent to not wrapping.
LEMMA WrapQuotient ==
  ASSUME NEW a \in Int
  PROVE  \E k \in Int : a = Wrap(a) + k * (Limit + 1)
<1>1. a \div (Limit + 1) \in Int /\ a = Wrap(a) + (a \div (Limit + 1)) * (Limit + 1)
  BY LimiterAssumption DEF Wrap
<1> QED
  BY <1>1

\* Numbers equal modulo 2^32 stay so when the same is added.
LEMMA WrapShift ==
  ASSUME NEW a \in Int, NEW b \in Int, NEW c \in Int, Wrap(a) = Wrap(b)
  PROVE  Wrap(a + c) = Wrap(b + c)
<1>1. PICK k \in Int : a = Wrap(a) + k * (Limit + 1)
  BY WrapQuotient
<1>2. PICK j \in Int : b = Wrap(b) + j * (Limit + 1)
  BY WrapQuotient
<1>3. Wrap(a) \in Int
  BY WrapType DEF Amounts
<1>4. a + c = (Wrap(a) + c) + k * (Limit + 1)
  BY <1>1, <1>3, LimiterAssumption
<1>5. b + c = (Wrap(a) + c) + j * (Limit + 1)
  BY <1>2, <1>3, LimiterAssumption
<1>6. Wrap(a) + c \in Int
  BY <1>3
<1>7. Wrap(a + c) = Wrap(Wrap(a) + c)
  BY <1>4, <1>6, WrapMultiple
<1>8. Wrap(b + c) = Wrap(Wrap(a) + c)
  BY <1>5, <1>6, WrapMultiple
<1> QED
  BY <1>7, <1>8

\* Wrapping twice is wrapping once.
LEMMA WrapWrap == ASSUME NEW a \in Int PROVE Wrap(Wrap(a)) = Wrap(a)
  BY WrapType, WrapSmall

\* A sum may be wrapped at every step or at the end.
LEMMA WrapAdd == ASSUME NEW a \in Int, NEW c \in Int PROVE Wrap(Wrap(a) + c) = Wrap(a + c)
<1>1. Wrap(a) \in Int
  BY WrapType DEF Amounts
<1>2. Wrap(Wrap(a)) = Wrap(a)
  BY WrapWrap
<1> QED
  BY <1>1, <1>2, WrapShift

\* The smaller of two numbers.
LEMMA MinOfTwo ==
  ASSUME NEW a \in Int, NEW b \in Int
  PROVE  Min({a, b}) = IF a <= b THEN a ELSE b
<1>1. \E x \in {a, b} : \A y \in {a, b} : x <= y
  OBVIOUS
<1>2. Min({a, b}) \in {a, b} /\ \A y \in {a, b} : Min({a, b}) <= y
  BY <1>1 DEF Min
<1> QED
  BY <1>2

-----------------------------------------------------------------------------
\* The two sums: what the handles hold, and the contents a table has open.

\* There are finitely many descriptors.
LEMMA FdsFinite == IsFiniteSet(Fds)
  BY VfsAssumption, FS_Interval DEF Fds

HeldIsInt == \A v \in VMs : Held(v) \in Int /\ HeldBy[v] = Held(v)

\* What a VM holds is an integer.
LEMMA HeldType == TypeOK => HeldIsInt
  BY DEF HeldIsInt, TypeOK, LimiterTypeOK, Held, HeldBy, Amounts

\* The total of MemLimiter is a sum over the VMs.
LEMMA TotalIsSum == Total = remaining + SumOver(HeldBy, VMs)
  BY Zenon DEF Total, SumOver

\* The total is an integer.
LEMMA TotalType == ASSUME TypeOK PROVE Total \in Int
<1>1. SumOver(HeldBy, VMs) \in Int
  BY HeldType, SumType, LimiterAssumption DEF HeldIsInt
<1>2. remaining \in Int
  BY DEF TypeOK, LimiterTypeOK, Amounts
<1> QED
  BY <1>1, <1>2, TotalIsSum

\* What a step of one handle does to the total.
LEMMA TotalChange ==
  ASSUME TypeOK, TypeOK', NEW v \in VMs, \A w \in VMs \ {v} : Held(w)' = Held(w)
  PROVE  Total' = Total - remaining + remaining' - Held(v) + Held(v)'
<1>1. \A w \in VMs : Held(w) \in Int /\ HeldBy[w] = Held(w)
  BY HeldType DEF HeldIsInt
<1>2. \A w \in VMs : Held(w)' \in Int /\ HeldBy'[w] = Held(w)'
  <2>1. HeldIsInt'
    BY HeldType, PTL
  <2> QED
    BY <2>1 DEF HeldIsInt
<1>3. Total' = remaining' + SumOver(HeldBy', VMs)
  <2>1. (Total = remaining + SumOver(HeldBy, VMs))'
    BY TotalIsSum, PTL
  <2> QED
    BY <2>1
<1>4. Total = remaining + SumOver(HeldBy, VMs)
  BY TotalIsSum
<1> DEFINE f == HeldBy
           h == HeldBy'
<1>5. /\ \A x \in VMs : f[x] \in Int /\ h[x] \in Int
      /\ \A x \in VMs \ {v} : f[x] = h[x]
  BY <1>1, <1>2
<1> HIDE DEF f, h
<1>6. SumOver(h, VMs) = SumOver(f, VMs) - f[v] + h[v]
  BY <1>5, SumChange, LimiterAssumption
<1>7. SumOver(f, VMs) \in Int
  BY <1>5, SumType, LimiterAssumption
<1>8. remaining \in Int /\ remaining' \in Int
  BY DEF TypeOK, LimiterTypeOK, Amounts
<1> QED
  BY <1>1, <1>2, <1>3, <1>4, <1>6, <1>7, <1>8 DEF f, h

\* When no handle owes anything, none holds more than is not there any more.
LEMMA HeldWithinTotal ==
  ASSUME TypeOK, NEW v \in VMs, \A w \in VMs : Held(w) >= 0
  PROVE  remaining + Held(v) <= Total
<1>1. \A w \in VMs : HeldBy[w] \in Nat /\ HeldBy[w] = Held(w)
  BY HeldType DEF HeldIsInt
<1>2. HeldBy[v] <= SumOver(HeldBy, VMs)
  BY <1>1, TermWithinSum, LimiterAssumption
<1>3. SumOver(HeldBy, VMs) \in Nat
  BY <1>1, SumNat, LimiterAssumption
<1>4. remaining \in Int
  BY DEF TypeOK, LimiterTypeOK, Amounts
<1> QED
  BY <1>1, <1>2, <1>3, <1>4, TotalIsSum

ContentsAreSums == \A v \in VMs : Contents(v) = SumOver(ContentOf(v), Fds)

\* The contents of a VM are a sum over its descriptors.
LEMMA ContentsIsSum == ContentsAreSums
  BY Zenon DEF ContentsAreSums, Contents, SumOver

\* What a descriptor's content counts for.
LEMMA ContentType ==
  ASSUME TypeOK, NEW v \in VMs
  PROVE  \A fd \in Fds :
           /\ ContentOf(v)[fd] \in Nat
           /\ ContentOf(v)[fd] = IF fds[v][fd].kind \in {"stdin", "content"}
                                THEN fds[v][fd].len ELSE 0
  BY DEF TypeOK, ContentOf, Descriptors

\* Contents are a natural number.
LEMMA ContentsType == ASSUME TypeOK, NEW v \in VMs PROVE Contents(v) \in Nat
  BY ContentType, ContentsIsSum, FdsFinite, SumNat DEF ContentsAreSums

\* A table that does not change keeps its sum.
LEMMA ContentsSame ==
  ASSUME NEW v \in VMs, fds'[v] = fds[v] PROVE Contents(v)' = Contents(v)
<1>1. ContentOf(v)' = ContentOf(v)
  BY DEF ContentOf
<1>2. ContentsAreSums'
  BY ContentsIsSum, PTL
<1>3. Contents(v)' = SumOver(ContentOf(v)', Fds)
  BY <1>2 DEF ContentsAreSums
<1> QED
  BY <1>1, <1>3, ContentsIsSum DEF ContentsAreSums

\* What a change of one descriptor does to the sum.
LEMMA ContentsChange ==
  ASSUME TypeOK, TypeOK', NEW v \in VMs, NEW fd \in Fds,
         \A x \in Fds \ {fd} : fds'[v][x] = fds[v][x]
  PROVE  Contents(v)' = Contents(v) - ContentOf(v)[fd] + ContentOf(v)'[fd]
<1>1. \A x \in Fds : ContentOf(v)[x] \in Nat
  BY ContentType
<1>2. \A x \in Fds : ContentOf(v)'[x] \in Nat
  BY DEF TypeOK, ContentOf, Descriptors
<1>3. \A x \in Fds \ {fd} : ContentOf(v)[x] = ContentOf(v)'[x]
  BY DEF ContentOf
<1>4. Contents(v) = SumOver(ContentOf(v), Fds)
  BY ContentsIsSum DEF ContentsAreSums
<1>5. Contents(v)' = SumOver(ContentOf(v)', Fds)
  <2>1. ContentsAreSums'
    BY ContentsIsSum, PTL
  <2> QED
    BY <2>1 DEF ContentsAreSums
<1> DEFINE f == ContentOf(v)
           h == ContentOf(v)'
<1>6. /\ \A x \in Fds : f[x] \in Int /\ h[x] \in Int
      /\ \A x \in Fds \ {fd} : f[x] = h[x]
  BY <1>1, <1>2, <1>3
<1> HIDE DEF f, h
<1>7. SumOver(h, Fds) = SumOver(f, Fds) - f[fd] + h[fd]
  BY <1>6, SumChange, FdsFinite
<1> QED
  BY <1>4, <1>5, <1>7 DEF f, h

\* The sum of a new table is the length of its stdin.
LEMMA SumOfOne ==
  ASSUME NEW f, NEW n \in Int, 0 \in Fds, f[0] = n, \A x \in Fds \ {0} : f[x] = 0
  PROVE  SumOver(f, Fds) = n
<1>1. \A x \in Fds : f[x] \in Int
  OBVIOUS
<1>2. SumOver(f, Fds) = f[0] + SumOver(f, Fds \ {0})
  BY <1>1, SumRemove, FdsFinite
<1>3. IsFiniteSet(Fds \ {0})
  BY FdsFinite, FS_Subset
<1>4. SumOver(f, Fds \ {0}) = 0
  BY <1>3, SumZero
<1> QED
  BY <1>2, <1>4

\* A new VM has nothing open that is charged but its stdin.
LEMMA StartContents ==
  ASSUME NEW v \in VMs, fds[v] = StartFds PROVE Contents(v) = StdinLen
<1> DEFINE f == ContentOf(v)
<1>1. 0 \in Fds /\ StdinLen \in Int
  BY VfsAssumption DEF Fds
<1>2. f[0] = StdinLen /\ \A x \in Fds \ {0} : f[x] = 0
  BY <1>1 DEF ContentOf, StartFds, File, Closed
<1>3. Contents(v) = SumOver(f, Fds)
  BY ContentsIsSum DEF ContentsAreSums
<1> HIDE DEF f
<1> QED
  BY <1>1, <1>2, <1>3, SumOfOne

-----------------------------------------------------------------------------
\* Every step is one atomic operation of one handle, or none.
LimiterAct(v) ==
  \/ Derived(v) \/ DropLimiter(v)
  \/ \E d \in Nat : ConsumeLoad(v, d)
  \/ \E fd \in Fds : pop_fd(v, fd) /\ ReleaseAdd(v, fds[v][fd].len)
  \/ ConsumeRefused(v) \/ ConsumeSwap(v) \/ ConsumeRetry(v) \/ NoteLeast(v)
  \/ ConsumeCounted(v) \/ ReleaseCounted(v)
  \/ UNCHANGED limiterVars

\* The actions of one VM.
VmAct(v) ==
  \/ Spawn(v) \/ EndVM(v)
  \/ \E n \in Sizes : Grow(v, n) \/ place_content(v, n) \/ path_open(v, n)
  \/ alloc_fd_reuse(v) \/ alloc_fd_new(v) \/ Granted(v) \/ Refused(v)
  \/ \E fd \in Fds : pop_fd(v, fd)
  \/ LimiterStep(v) /\ UNCHANGED vfsVars

\* Every step of a VM is, for the limiter, one of its atomic operations.
LEMMA ActsOnLimiter ==
  ASSUME TypeOK, NEW v \in VMs, VmAct(v)
  PROVE  LimiterAct(v)
<1>1. ASSUME NEW n \in Sizes PROVE n \in Nat
  BY VfsAssumption
<1>2. FdCost \in Nat
  BY VfsAssumption
<1>3. CASE Spawn(v) \/ EndVM(v)
  BY <1>3 DEF Spawn, EndVM, LimiterAct
<1>4. ASSUME NEW n \in Sizes, Grow(v, n) \/ place_content(v, n) \/ path_open(v, n)
      PROVE  LimiterAct(v)
  BY <1>1, <1>4 DEF Grow, place_content, path_open, LimiterAct, limiterVars
<1>5. CASE alloc_fd_reuse(v) \/ alloc_fd_new(v)
  BY <1>2, <1>5 DEF alloc_fd_reuse, alloc_fd_new, LimiterAct, limiterVars
<1>6. CASE Granted(v) \/ Refused(v)
  BY <1>6 DEF Granted, Refused, LimiterAct
<1>7. ASSUME NEW fd \in Fds, pop_fd(v, fd) PROVE LimiterAct(v)
  <2>1. ReleaseAdd(v, fds[v][fd].len) \/ UNCHANGED limiterVars
    BY <1>7 DEF pop_fd
  <2> QED
    BY <1>7, <2>1 DEF LimiterAct
<1>8. CASE LimiterStep(v) /\ UNCHANGED vfsVars
  BY <1>8 DEF LimiterStep, LimiterAct
<1> QED
  BY <1>3, <1>4, <1>5, <1>6, <1>7, <1>8 DEF VmAct

\* The cells of the limiter as numbers.
LEMMA LimiterValues ==
  ASSUME TypeOK
  PROVE  /\ remaining \in Nat /\ remaining <= Limit
         /\ low \in Int /\ least \in Int
         /\ \A v \in VMs : /\ consumed[v] \in Nat /\ consumed[v] <= Limit
                          /\ seen[v] \in Nat /\ seen[v] <= Limit
                          /\ delta[v] \in Nat
<1>1. \A n \in Amounts : n \in Nat /\ n <= Limit
  BY LimiterAssumption DEF Amounts
<1>2. remaining \in Amounts /\ low \in Amounts /\ least \in Amounts
  BY DEF TypeOK, LimiterTypeOK
<1>3. \A v \in VMs : consumed[v] \in Amounts /\ seen[v] \in Amounts /\ delta[v] \in Nat
  BY DEF TypeOK, LimiterTypeOK
<1> QED
  BY <1>1, <1>2, <1>3

\* Lengths of open contents are naturals.
LEMMA LenType == ASSUME TypeOK, NEW v \in VMs PROVE \A fd \in Fds : fds[v][fd].len \in Nat
  BY DEF TypeOK, Descriptors

\* The atomic operations keep the types of the limiter's cells: none leaves
\* its width.
LEMMA LimiterTypeStep ==
  ASSUME TypeOK, CallInv, NEW v \in VMs, LimiterAct(v)
  PROVE  LimiterTypeOK'
<1> USE DEF LimiterTypeOK, Step, Return, SetRemaining
<1>0. LimiterTypeOK /\ Amounts \subseteq Int /\ 0 \in Amounts
  BY LimiterAssumption DEF TypeOK, Amounts
<1>1. \A a, b \in Amounts : Min({a, b}) \in Amounts
  BY <1>0, MinOfTwo
<1>2. \A n \in Int : Wrap(n) \in Amounts
  BY WrapType
<1>3. CASE Derived(v)
  BY <1>0, <1>3 DEF Derived
<1>4. ASSUME NEW d \in Nat, GiveBack(d)
      PROVE  remaining' \in Amounts /\ low' \in Amounts /\ panicked' \in BOOLEAN
  <2>1. remaining + d \in Int
    BY LimiterValues
  <2>2. Wrap(remaining + d) \in Amounts
    BY <2>1, <1>2
  <2>3. low \in Amounts
    BY <1>0
  <2>4. /\ remaining' = Wrap(remaining + d) /\ low' = Min({low, Wrap(remaining + d)})
        /\ panicked' = (remaining + d > Limit)
    BY <1>4 DEF GiveBack
  <2> QED
    BY <1>1, <2>2, <2>3, <2>4
<1>5. CASE DropLimiter(v)
  <2>1. consumed[v] \in Nat
    BY <1>0 DEF Amounts
  <2> QED
    BY <1>0, <1>4, <1>5, <2>1 DEF DropLimiter
<1>6. ASSUME NEW d \in Nat, ConsumeLoad(v, d) PROVE LimiterTypeOK'
  BY <1>0, <1>6 DEF ConsumeLoad
<1>7. ASSUME NEW d \in Nat, ReleaseAdd(v, d) PROVE LimiterTypeOK'
  BY <1>0, <1>4, <1>7 DEF ReleaseAdd
<1>8. CASE ConsumeRefused(v)
  BY <1>0, <1>8 DEF ConsumeRefused
<1>9. CASE ConsumeSwap(v)
  <2>1. seen[v] - delta[v] \in Amounts
    BY <1>9, LimiterValues, LimiterAssumption DEF ConsumeSwap, Amounts
  <2> QED
    BY <1>0, <1>1, <1>9, <2>1 DEF ConsumeSwap
<1>10. CASE ConsumeRetry(v)
  BY <1>0, <1>10 DEF ConsumeRetry
<1>11. CASE NoteLeast(v)
  <2>1. delta[v] <= seen[v]
    BY <1>11 DEF NoteLeast, CallInv, CallOK
  <2>2. seen[v] - delta[v] \in Amounts
    BY <2>1, LimiterValues, LimiterAssumption DEF Amounts
  <2> QED
    BY <1>0, <1>1, <1>11, <2>2 DEF NoteLeast
<1>12. CASE ConsumeCounted(v)
  <2>1. consumed[v] + delta[v] \in Int
    BY LimiterValues
  <2> QED
    BY <1>0, <1>2, <1>12, <2>1 DEF ConsumeCounted
<1>13. CASE ReleaseCounted(v)
  <2>1. consumed[v] - delta[v] \in Int
    BY LimiterValues
  <2> QED
    BY <1>0, <1>2, <1>13, <2>1 DEF ReleaseCounted
<1>14. CASE UNCHANGED limiterVars
  BY <1>0, <1>14 DEF limiterVars
<1> QED
  BY <1>3, <1>5, <1>6, <1>7, <1>8, <1>9, <1>10, <1>11, <1>12, <1>13, <1>14, LenType DEF LimiterAct

\* The low-water mark.
LEMMA LowStep ==
  ASSUME TypeOK, CallInv, LowInv, ~panicked, NEW v \in VMs, LimiterAct(v)
  PROVE  LowInv'
<1> USE DEF LowInv, Step, Return, SetRemaining
<1>0. LimiterTypeOK /\ Amounts \subseteq Int
  BY DEF TypeOK, Amounts
<1>1. \A a, b \in Int : Min({a, b}) = IF a <= b THEN a ELSE b
  BY MinOfTwo
<1>2. remaining \in Int /\ low \in Int /\ least \in Int
  BY <1>0 DEF LimiterTypeOK
<1>3. \A w \in VMs : seen[w] \in Int /\ delta[w] \in Int /\ seen[w] - delta[w] \in Int
  BY LimiterValues
<1>p. DOMAIN pc = VMs /\ DOMAIN seen = VMs /\ DOMAIN delta = VMs
  BY <1>0 DEF LimiterTypeOK
\* A step that leaves the mark, the pool and the notes to be made alone.
<1>4. ASSUME remaining' = remaining, low' = low, least' = least,
             \A w \in VMs : pc'[w] = "noting" <=> pc[w] = "noting",
             \A w \in VMs : pc[w] = "noting" => seen'[w] = seen[w] /\ delta'[w] = delta[w]
      PROVE  LowInv'
  BY <1>4
\* Giving back without an overflow only raises what remains.
<1>5. ASSUME NEW d \in Nat, GiveBack(d), least' = least,
             \A w \in VMs : pc'[w] = "noting" <=> pc[w] = "noting",
             \A w \in VMs : pc[w] = "noting" => seen'[w] = seen[w] /\ delta'[w] = delta[w]
      PROVE  LowInv'
  <2> SUFFICES ASSUME ~panicked' PROVE LowInv'
    OBVIOUS
  <2>0. ~ (remaining + d > Limit)
    BY <1>5 DEF GiveBack
  <2>1. remaining + d \in Amounts
    BY <2>0, LimiterValues, LimiterAssumption DEF Amounts
  <2>2. remaining' = remaining + d
    BY <1>5, <2>1, WrapSmall DEF GiveBack
  <2>3. low' = low
    BY <1>1, <1>2, <1>5, <2>1, <2>2 DEF GiveBack
  <2> QED
    BY <1>2, <1>5, <2>2, <2>3
<1>6. CASE Derived(v)
  BY <1>4, <1>6, <1>p DEF Derived
<1>7. CASE DropLimiter(v)
  <2>1. consumed[v] \in Nat
    BY <1>0 DEF LimiterTypeOK, Amounts
  <2> QED
    BY <1>5, <1>7, <1>p, <2>1 DEF DropLimiter
<1>8. ASSUME NEW d \in Nat, ConsumeLoad(v, d) PROVE LowInv'
  BY <1>4, <1>8, <1>p DEF ConsumeLoad
<1>9. ASSUME NEW d \in Nat, ReleaseAdd(v, d) PROVE LowInv'
  BY <1>5, <1>9, <1>p DEF ReleaseAdd
<1>10. CASE ConsumeRefused(v)
  BY <1>4, <1>10, <1>p DEF ConsumeRefused
<1>11. CASE ConsumeSwap(v)
  <2> DEFINE n == seen[v] - delta[v]
  <2>1. n \in Int
    BY <1>3
  <2>2. /\ remaining' = n /\ low' = Min({low, n}) /\ least' = least
        /\ seen' = seen /\ delta' = delta /\ panicked' = panicked
        /\ pc' = [pc EXCEPT ![v] = "noting"] /\ pc[v] = "comparing"
    BY <1>11 DEF ConsumeSwap
  <2>3. pc'[v] = "noting" /\ seen'[v] - delta'[v] = n /\ \A w \in VMs : w # v => pc'[w] = pc[w]
    BY <1>p, <2>2
  <2> HIDE DEF n
  <2>4. low' = IF low <= n THEN low ELSE n
    BY <1>1, <1>2, <2>1, <2>2
  <2>5. low' <= remaining' /\ low' <= least'
    BY <1>2, <2>1, <2>2, <2>4
  <2>6. ASSUME NEW w \in VMs, pc'[w] = "noting" PROVE low' <= seen'[w] - delta'[w]
    <3>1. CASE w = v
      BY <1>2, <2>1, <2>3, <2>4, <3>1
    <3>2. CASE w # v
      BY <1>2, <1>3, <2>1, <2>2, <2>3, <2>4, <2>6, <3>2
    <3> QED
      BY <3>1, <3>2
  <2>7. low' = least' \/ \E w \in VMs : pc'[w] = "noting" /\ low' = seen'[w] - delta'[w]
    <3>1. CASE low <= n
      BY <2>2, <2>3, <2>4, <3>1
    <3>2. CASE ~ (low <= n)
      BY <2>3, <2>4, <3>2
    <3> QED
      BY <3>1, <3>2
  <2> QED
    BY <2>5, <2>6, <2>7
<1>12. CASE ConsumeRetry(v)
  BY <1>4, <1>12, <1>p DEF ConsumeRetry
<1>13. CASE NoteLeast(v)
  <2> DEFINE n == seen[v] - delta[v]
  <2>1. n \in Int /\ low <= n
    BY <1>3, <1>13 DEF NoteLeast
  <2>2. /\ remaining' = remaining /\ low' = low /\ least' = Min({least, n})
        /\ seen' = seen /\ delta' = delta /\ panicked' = panicked
        /\ pc' = [pc EXCEPT ![v] = "counting"] /\ pc[v] = "noting"
    BY <1>13 DEF NoteLeast
  <2>3. pc'[v] = "counting" /\ \A w \in VMs : w # v => pc'[w] = pc[w]
    BY <1>p, <2>2
  <2>4. low = n \/ low = least \/ \E w \in VMs : w # v /\ pc[w] = "noting" /\ low = seen[w] - delta[w]
    OBVIOUS
  <2> HIDE DEF n
  <2>5. least' = IF least <= n THEN least ELSE n
    BY <1>1, <1>2, <2>1, <2>2
  <2>6. low' <= remaining' /\ low' <= least'
    BY <1>2, <2>1, <2>2, <2>5
  <2>7. \A w \in VMs : pc'[w] = "noting" => low' <= seen'[w] - delta'[w]
    BY <2>2, <2>3
  <2>8. low' = least' \/ \E w \in VMs : pc'[w] = "noting" /\ low' = seen'[w] - delta'[w]
    <3>1. CASE low = n \/ low = least
      BY <1>2, <2>1, <2>2, <2>5, <3>1
    <3>2. CASE \E w \in VMs : w # v /\ pc[w] = "noting" /\ low = seen[w] - delta[w]
      BY <2>2, <2>3, <3>2
    <3> QED
      BY <2>4, <3>1, <3>2
  <2> QED
    BY <2>6, <2>7, <2>8
<1>14. CASE ConsumeCounted(v)
  BY <1>4, <1>14, <1>p DEF ConsumeCounted
<1>15. CASE ReleaseCounted(v)
  BY <1>4, <1>15, <1>p DEF ReleaseCounted
<1>16. CASE UNCHANGED limiterVars
  BY <1>4, <1>16 DEF limiterVars
<1> QED
  BY <1>6, <1>7, <1>8, <1>9, <1>10, <1>11, <1>12, <1>13, <1>14, <1>15, <1>16, LenType DEF LimiterAct

-----------------------------------------------------------------------------
\* The tables.

VfsTypeOK ==
  /\ fds \in [VMs -> [Fds -> Descriptors]]
  /\ free \in [VMs -> Seq(Fds)]
  /\ next \in [VMs -> Fds]
  /\ call \in [VMs -> Calls]
  /\ file \in [VMs -> Descriptors]
  /\ trapped \in [VMs -> BOOLEAN]
  /\ grown \in [VMs -> Nat]
  /\ stdinCloses \in 0 .. MaxStdinCloses

\* The descriptors the actions make are descriptors.
LEMMA MadeFiles == /\ Closed \in Descriptors /\ StartFds \in [Fds -> Descriptors]
                   /\ \A n \in Nat : File("content", n) \in Descriptors /\ File("mapped", n) \in Descriptors
  BY VfsAssumption DEF Closed, StartFds, File, Descriptors, Kinds, Fds

\* Installing a descriptor keeps the tables' types.
LEMMA InstallType ==
  ASSUME TypeOK, NEW v \in VMs, NEW fd \in Fds, Install(v, fd)
  PROVE  fds' \in [VMs -> [Fds -> Descriptors]] /\ file' \in [VMs -> Descriptors]
<1>1. /\ fds \in [VMs -> [Fds -> Descriptors]] /\ file \in [VMs -> Descriptors]
      /\ fds[v] \in [Fds -> Descriptors] /\ file[v] \in Descriptors
  BY DEF TypeOK
<1>2. [fds[v] EXCEPT ![fd] = file[v]] \in [Fds -> Descriptors]
  BY <1>1
<1>3. fds' \in [VMs -> [Fds -> Descriptors]]
  BY <1>1, <1>2 DEF Install
<1>4. file' \in [VMs -> Descriptors]
  BY <1>1, MadeFiles DEF Install
<1> QED
  BY <1>3, <1>4

\* The last free descriptor, which alloc_fd takes, is one of the free ones.
LEMMA LastFree ==
  ASSUME TypeOK, NEW v \in VMs, free[v] # <<>>
  PROVE  /\ Len(free[v]) \in Nat \ {0} /\ free[v][Len(free[v])] \in Fds
         /\ free[v] \in Seq(Fds)
         /\ free[v][Len(free[v])] \in Elements(free[v])
<1>1. free[v] \in Seq(Fds)
  BY DEF TypeOK
<1> QED
  BY <1>1 DEF Elements

\* Every step of a VM keeps the types of its tables.
LEMMA VfsTypeStep ==
  ASSUME TypeOK, CallInv, NEW v \in VMs, VmAct(v)
  PROVE  VfsTypeOK'
<1>0. VfsTypeOK
  BY DEF TypeOK, VfsTypeOK
<1>1. /\ LastStd \in Fds /\ Sizes \subseteq Nat
      /\ \A c \in Calls : [call EXCEPT ![v] = c] \in [VMs -> Calls]
  BY <1>0, VfsAssumption DEF VfsTypeOK, Fds
<1>2. "none" \in Calls /\ "grow" \in Calls /\ "content" \in Calls /\ "alloc" \in Calls /\ "fd" \in Calls
  BY DEF Calls
<1>3. CASE Spawn(v)
  BY <1>0, <1>3 DEF Spawn, vfsVars, VfsTypeOK
<1>4. CASE EndVM(v)
  BY <1>0, <1>1, <1>4, MadeFiles DEF EndVM, VfsTypeOK
<1>5. ASSUME NEW n \in Sizes, Grow(v, n) PROVE VfsTypeOK'
  BY <1>0, <1>1, <1>2, <1>5 DEF Grow, Enter, VfsTypeOK
<1>6. ASSUME NEW n \in Sizes, place_content(v, n) PROVE VfsTypeOK'
  <2>1. File("content", n) \in Descriptors
    BY <1>1, MadeFiles
  <2> QED
    BY <1>0, <1>1, <1>2, <1>6, <2>1 DEF place_content, Enter, VfsTypeOK
<1>7. ASSUME NEW n \in Sizes, path_open(v, n) PROVE VfsTypeOK'
  <2>1. File("mapped", n) \in Descriptors
    BY <1>1, MadeFiles
  <2> QED
    BY <1>0, <1>1, <1>2, <1>7, <2>1 DEF path_open, Enter, VfsTypeOK
<1>8. CASE alloc_fd_reuse(v)
  <2>1. free[v] # <<>> /\ Install(v, free[v][Len(free[v])])
    BY <1>8 DEF alloc_fd_reuse
  <2>2. fds' \in [VMs -> [Fds -> Descriptors]] /\ file' \in [VMs -> Descriptors]
    BY <2>1, LastFree, InstallType
  <2>3. SubSeq(free[v], 1, Len(free[v]) - 1) \in Seq(Fds)
    BY <2>1, LastFree
  <2> QED
    BY <1>0, <1>1, <1>2, <1>8, <2>2, <2>3 DEF alloc_fd_reuse, Enter, VfsTypeOK
<1>9. CASE alloc_fd_new(v)
  BY <1>0, <1>1, <1>2, <1>9 DEF alloc_fd_new, Enter, VfsTypeOK
<1>10. CASE Granted(v)
  <2>0. UNCHANGED <<free, trapped, stdinCloses>>
    BY <1>10 DEF Granted
  <2>1. CASE call[v] = "grow" /\ grown' = [grown EXCEPT ![v] = @ + delta[v]]
             /\ Enter(v, "none") /\ UNCHANGED <<fds, next, file>>
    <3>1. grown[v] + delta[v] \in Nat
      BY <1>0, LimiterValues DEF VfsTypeOK
    <3> QED
      BY <1>0, <1>1, <1>2, <2>0, <2>1, <3>1 DEF Enter, VfsTypeOK
  <2>2. CASE call[v] = "content" /\ Enter(v, "alloc") /\ UNCHANGED <<fds, next, file, grown>>
    BY <1>0, <1>1, <1>2, <2>0, <2>2 DEF Enter, VfsTypeOK
  <2>3. CASE call[v] = "fd" /\ next' = [next EXCEPT ![v] = @ + 1]
             /\ Install(v, next[v] + 1) /\ Enter(v, "none") /\ UNCHANGED grown
    <3>1. next[v] + 1 \in Fds
      BY <1>0, <2>3, VfsAssumption DEF CallInv, CallOK, VfsTypeOK, Fds
    <3>2. fds' \in [VMs -> [Fds -> Descriptors]] /\ file' \in [VMs -> Descriptors]
      BY <2>3, <3>1, InstallType
    <3> QED
      BY <1>0, <1>1, <1>2, <2>0, <2>3, <3>1, <3>2 DEF Enter, VfsTypeOK
  <2> QED
    BY <1>10, <2>1, <2>2, <2>3 DEF Granted
<1>11. CASE Refused(v)
  BY <1>0, <1>1, <1>2, <1>11, MadeFiles DEF Refused, Enter, VfsTypeOK
<1>12. ASSUME NEW fd \in Fds, pop_fd(v, fd) PROVE VfsTypeOK'
  <2>1. Append(free[v], fd) \in Seq(Fds)
    BY <1>0 DEF VfsTypeOK
  <2>2. stdinCloses' \in 0 .. MaxStdinCloses
    <3>1. stdinCloses' = stdinCloses \/ stdinCloses' = stdinCloses + 1
      BY <1>12 DEF pop_fd
    <3> QED
      BY <1>0, <1>12, <3>1, VfsAssumption DEF pop_fd, VfsTypeOK
  <2> QED
    BY <1>0, <1>12, <2>1, <2>2, MadeFiles DEF pop_fd, VfsTypeOK
<1>13. CASE LimiterStep(v) /\ UNCHANGED vfsVars
  BY <1>0, <1>13 DEF vfsVars, VfsTypeOK
<1> QED
  BY <1>3, <1>4, <1>5, <1>6, <1>7, <1>8, <1>9, <1>10, <1>11, <1>12, <1>13 DEF VmAct

\* Every step keeps TypeOK.
LEMMA TypeStep ==
  ASSUME TypeOK, CallInv, NEW v \in VMs, VmAct(v)
  PROVE  TypeOK'
  BY ActsOnLimiter, LimiterTypeStep, VfsTypeStep DEF TypeOK, VfsTypeOK

\* A step of one VM leaves the others' state alone.
Untouched(w) ==
  /\ consumed'[w] = consumed[w] /\ pc'[w] = pc[w] /\ delta'[w] = delta[w] /\ seen'[w] = seen[w]
  /\ fds'[w] = fds[w] /\ free'[w] = free[w] /\ next'[w] = next[w] /\ call'[w] = call[w]
  /\ file'[w] = file[w] /\ trapped'[w] = trapped[w] /\ grown'[w] = grown[w]

\* A step of one VM touches no cell of another.
LEMMA OthersUntouched ==
  ASSUME TypeOK, NEW v \in VMs, VmAct(v), NEW w \in VMs, w # v
  PROVE  Untouched(w)
<1>1. /\ consumed'[w] = consumed[w] /\ pc'[w] = pc[w] /\ delta'[w] = delta[w]
      /\ seen'[w] = seen[w]
  <2>1. LimiterAct(v)
    BY ActsOnLimiter
  <2> QED
    BY <2>1 DEF LimiterAct, Derived, DropLimiter, ConsumeLoad, ReleaseAdd, ConsumeRefused, ConsumeSwap,
      ConsumeRetry, NoteLeast, ConsumeCounted, ReleaseCounted, limiterVars, Step, Return,
      TypeOK, LimiterTypeOK
<1>2. /\ fds'[w] = fds[w] /\ free'[w] = free[w] /\ next'[w] = next[w] /\ call'[w] = call[w]
      /\ file'[w] = file[w] /\ trapped'[w] = trapped[w] /\ grown'[w] = grown[w]
  BY DEF VmAct, Spawn, EndVM, Grow, place_content, path_open, alloc_fd_reuse, alloc_fd_new,
    Granted, Refused, pop_fd, Install, Enter, vfsVars, TypeOK
<1> QED
  BY <1>1, <1>2 DEF Untouched

\* The count of closed stdins only grows.
LEMMA ClosesGrow ==
  ASSUME TypeOK, NEW v \in VMs, VmAct(v), stdinCloses' = 0
  PROVE  stdinCloses = 0
<1>1. stdinCloses' = stdinCloses \/ stdinCloses' = stdinCloses + 1
  BY DEF VmAct, Spawn, EndVM, Grow, place_content, path_open, alloc_fd_reuse, alloc_fd_new,
    Granted, Refused, pop_fd, vfsVars
<1> QED
  BY <1>1 DEF TypeOK

\* Every step leaves each call at an atomic operation that belongs to it.
LEMMA CallStep ==
  ASSUME TypeOK, CallInv, NEW v \in VMs, VmAct(v)
  PROVE  CallInv'
<1> USE DEF CallOK
<1>0. CallOK(v)
  BY DEF CallInv
<1>1. ASSUME NEW w \in VMs, w # v PROVE CallOK(w)'
  <2>1. Untouched(w) /\ CallOK(w)
    BY <1>1, OthersUntouched DEF CallInv
  <2> QED
    BY <2>1 DEF Untouched
<1> SUFFICES CallOK(v)'
  BY <1>1 DEF CallInv
<1>p. /\ DOMAIN pc = VMs /\ DOMAIN call = VMs /\ DOMAIN file = VMs /\ DOMAIN trapped = VMs
      /\ DOMAIN delta = VMs /\ DOMAIN seen = VMs /\ DOMAIN consumed = VMs /\ DOMAIN next = VMs
      /\ next[v] \in Nat /\ LastStd \in Nat /\ MaxFd \in Nat
  BY VfsAssumption DEF TypeOK, LimiterTypeOK, Fds
<1> USE DEF Step, Return, Enter
<1>2. CASE Spawn(v)
  BY <1>0, <1>p, <1>2 DEF Spawn, Derived, vfsVars
<1>3. CASE EndVM(v)
  BY <1>0, <1>p, <1>3 DEF EndVM, DropLimiter
<1>4. ASSUME NEW n \in Sizes, Grow(v, n) PROVE CallOK(v)'
  BY <1>0, <1>p, <1>4 DEF Grow, Ready, ConsumeLoad
<1>5. ASSUME NEW n \in Sizes, place_content(v, n) PROVE CallOK(v)'
  BY <1>0, <1>p, <1>5 DEF place_content, GuestRuns, Ready, ConsumeLoad, File
<1>6. ASSUME NEW n \in Sizes, path_open(v, n) PROVE CallOK(v)'
  BY <1>0, <1>p, <1>6 DEF path_open, GuestRuns, Ready, limiterVars, File
<1>7. CASE alloc_fd_reuse(v)
  BY <1>0, <1>p, <1>7 DEF alloc_fd_reuse, Install, limiterVars
<1>8. CASE alloc_fd_new(v)
  BY <1>0, <1>p, <1>8 DEF alloc_fd_new, ConsumeLoad
<1>9. CASE Granted(v)
  BY <1>0, <1>p, <1>9 DEF Granted, ConsumeCounted, Install
<1>10. CASE Refused(v)
  BY <1>0, <1>p, <1>10 DEF Refused, ConsumeRefused
<1>11. ASSUME NEW fd \in Fds, pop_fd(v, fd) PROVE CallOK(v)'
  BY <1>0, <1>p, <1>11 DEF pop_fd, GuestRuns, Ready, ReleaseAdd, limiterVars
<1>12. CASE LimiterStep(v) /\ UNCHANGED vfsVars
  BY <1>0, <1>p, <1>12 DEF LimiterStep, ConsumeSwap, ConsumeRetry, NoteLeast, ReleaseCounted, vfsVars
<1> HIDE DEF CallOK
<1> QED
  BY <1>2, <1>3, <1>4, <1>5, <1>6, <1>7, <1>8, <1>9, <1>10, <1>11, <1>12 DEF VmAct

\* What is known of one table.
TableOK(v) ==
  /\ \A i, j \in 1 .. Len(free[v]) : free[v][i] = free[v][j] => i = j
  /\ Elements(free[v]) \cap OpenFds(v) = {}
  /\ \A fd \in Elements(free[v]) \cup OpenFds(v) : fd <= next[v]

\* DescriptorsDistinct, VM by VM.
LEMMA Tables == DescriptorsDistinct <=> \A v \in VMs : TableOK(v)
  BY DEF DescriptorsDistinct, TableOK

\* Taking the last free descriptor, and freeing one.
LEMMA FrontElements ==
  ASSUME NEW s \in Seq(Fds), s # <<>>, \A i, j \in 1 .. Len(s) : s[i] = s[j] => i = j
  PROVE  LET r == SubSeq(s, 1, Len(s) - 1)
         IN  /\ \A x \in Elements(r) : x \in Elements(s) /\ x # s[Len(s)]
             /\ \A i, j \in 1 .. Len(r) : r[i] = r[j] => i = j
<1> DEFINE r == SubSeq(s, 1, Len(s) - 1)
<1>1. Len(s) \in Nat \ {0}
  OBVIOUS
<1>2. Len(r) = Len(s) - 1 /\ \A i \in 1 .. Len(r) : r[i] = s[i]
  <2>1. ASSUME NEW n \in 1 .. Len(s)
        PROVE  /\ Len(SubSeq(s, 1, n - 1)) = n - 1
               /\ \A i \in 1 .. n - 1 : SubSeq(s, 1, n - 1)[i] = s[i]
    OBVIOUS
  <2>2. Len(s) \in 1 .. Len(s)
    BY <1>1
  <2> QED
    BY <2>1, <2>2
<1> HIDE DEF r
<1>3. \A i \in 1 .. Len(r) : i \in 1 .. Len(s) /\ i # Len(s)
  BY <1>1, <1>2
<1>4. Len(s) \in 1 .. Len(s)
  BY <1>1
<1>5. \A x \in Elements(r) : x \in Elements(s) /\ x # s[Len(s)]
  BY <1>2, <1>3, <1>4 DEF Elements
<1>6. \A i, j \in 1 .. Len(r) : r[i] = r[j] => i = j
  BY <1>2, <1>3
<1> QED
  BY <1>5, <1>6 DEF r

\* The elements of a list with one more.
LEMMA AppendElements ==
  ASSUME NEW s \in Seq(Fds), NEW x \in Fds
  PROVE  Elements(Append(s, x)) = Elements(s) \cup {x}
<1> DEFINE r == Append(s, x)
<1>1. Len(s) \in Nat /\ Len(r) = Len(s) + 1
  OBVIOUS
<1>2. \A i \in 1 .. Len(s) : r[i] = s[i]
  OBVIOUS
<1>3. r[Len(s) + 1] = x
  OBVIOUS
<1> HIDE DEF r
<1>4. \A i \in 1 .. Len(r) : i \in 1 .. Len(s) \/ i = Len(s) + 1
  BY <1>1
<1>5. Len(s) + 1 \in 1 .. Len(r) /\ \A i \in 1 .. Len(s) : i \in 1 .. Len(r)
  BY <1>1
<1>6. Elements(r) \subseteq Elements(s) \cup {x}
  BY <1>2, <1>3, <1>4 DEF Elements
<1>7. Elements(s) \cup {x} \subseteq Elements(r)
  BY <1>2, <1>3, <1>5 DEF Elements
<1> QED
  BY <1>6, <1>7 DEF r

\* The steps that leave a VM's table alone.
SameTable(v) == fds'[v] = fds[v] /\ free'[v] = free[v] /\ next'[v] = next[v]

\* alloc_fd, free_fd and pop_fd keep every descriptor in one place.
LEMMA TableStep ==
  ASSUME TypeOK, TypeOK', DescriptorsDistinct, NEW v \in VMs, VmAct(v)
  PROVE  DescriptorsDistinct'
<1>0. TableOK(v)
  BY Tables
<1>s. ASSUME NEW w \in VMs, TableOK(w), SameTable(w) PROVE TableOK(w)'
  BY <1>s DEF TableOK, SameTable, OpenFds
<1>1. ASSUME NEW w \in VMs, w # v PROVE TableOK(w)'
  BY <1>1, <1>s, OthersUntouched, Tables DEF Untouched, SameTable
<1> SUFFICES TableOK(v)'
  BY <1>1 DEF DescriptorsDistinct, TableOK
<1>p. /\ free[v] \in Seq(Fds) /\ next[v] \in Fds /\ fds[v] \in [Fds -> Descriptors]
      /\ DOMAIN fds = VMs /\ DOMAIN free = VMs /\ DOMAIN next = VMs
      /\ \A fd \in Fds : fd \in Nat
  BY VfsAssumption DEF TypeOK, Fds
<1>2. CASE EndVM(v)
  <2>1. fds'[v] = StartFds /\ free'[v] = <<>> /\ next'[v] = LastStd
    BY <1>2, <1>p DEF EndVM
  <2>2. \A fd \in Fds : StartFds[fd] # Closed => fd <= LastStd
    BY VfsAssumption DEF StartFds, Closed, File, Fds
  <2> QED
    BY <2>1, <2>2 DEF TableOK, OpenFds, Elements
\* A descriptor is installed where the table was closed.
<1>3. ASSUME NEW fd \in Fds, Install(v, fd)
      PROVE  \A x \in Fds : x # fd => fds'[v][x] = fds[v][x]
  BY <1>3, <1>p DEF Install
<1>4. CASE alloc_fd_reuse(v)
  <2> DEFINE s == free[v]
             r == SubSeq(s, 1, Len(s) - 1)
             fd == s[Len(s)]
  <2>1. s # <<>> /\ Install(v, fd) /\ free'[v] = r /\ next'[v] = next[v]
    BY <1>4, <1>p DEF alloc_fd_reuse
  <2>2. fd \in Fds /\ fd \in Elements(s)
    BY <2>1, LastFree
  <2>3. \A i, j \in 1 .. Len(s) : s[i] = s[j] => i = j
    BY <1>0 DEF TableOK
  <2>4. /\ \A x \in Elements(r) : x \in Elements(s) /\ x # fd
        /\ \A i, j \in 1 .. Len(r) : r[i] = r[j] => i = j
    BY <1>p, <2>1, <2>3, FrontElements
  <2>5. \A x \in Fds : x # fd => fds'[v][x] = fds[v][x]
    BY <1>3, <2>1, <2>2
  <2>6. s = free[v]
    OBVIOUS
  <2> HIDE DEF s, r, fd
  <2>7. Elements(free'[v]) \cap OpenFds(v)' = {}
    BY <1>0, <1>p, <2>1, <2>4, <2>5, <2>6 DEF TableOK, OpenFds
  <2>8. \A x \in Elements(free'[v]) \cup OpenFds(v)' : x <= next'[v]
    BY <1>0, <1>p, <2>1, <2>2, <2>4, <2>5, <2>6 DEF TableOK, OpenFds
  <2> QED
    BY <2>1, <2>4, <2>7, <2>8 DEF TableOK
<1>5. CASE Granted(v)
  <2>1. CASE call[v] = "fd" /\ next' = [next EXCEPT ![v] = @ + 1] /\ Install(v, next[v] + 1)
    <3>1. free'[v] = free[v] /\ next'[v] = next[v] + 1
      BY <1>5, <1>p, <2>1 DEF Granted
    <3>2. next[v] + 1 \in Fds
      BY <3>1 DEF TypeOK
    <3>3. \A x \in Fds : x # next[v] + 1 => fds'[v][x] = fds[v][x]
      BY <1>3, <2>1, <3>2
    <3>4. \A x \in Elements(free[v]) : x # next[v] + 1
      BY <1>0, <1>p DEF TableOK
    <3>5. Elements(free'[v]) \cap OpenFds(v)' = {}
      BY <1>0, <3>1, <3>3, <3>4 DEF TableOK, OpenFds
    <3>6. \A x \in Elements(free[v]) : x \in Fds
      BY <1>p DEF Elements
    <3>7. \A x \in Elements(free'[v]) \cup OpenFds(v)' : x <= next'[v]
      BY <1>0, <1>p, <3>1, <3>2, <3>3, <3>6 DEF TableOK, OpenFds
    <3> QED
      BY <1>0, <3>1, <3>5, <3>7 DEF TableOK
  <2>2. CASE UNCHANGED <<fds, next>>
    BY <1>0, <1>5, <1>s, <2>2 DEF Granted, SameTable
  <2> QED
    BY <1>5, <2>1, <2>2 DEF Granted
<1>6. ASSUME NEW fd \in Fds, pop_fd(v, fd) PROVE TableOK(v)'
  <2> DEFINE s == free[v]
             r == Append(s, fd)
  <2>1. fds[v][fd] # Closed /\ free'[v] = r /\ next'[v] = next[v]
    BY <1>6, <1>p DEF pop_fd
  <2>2. fds'[v][fd] = Closed /\ \A x \in Fds : x # fd => fds'[v][x] = fds[v][x]
    BY <1>6, <1>p DEF pop_fd
  <2>3. Elements(r) = Elements(s) \cup {fd}
    BY <1>p, AppendElements
  <2>4. fd \notin Elements(s) /\ fd <= next[v]
    BY <1>0, <2>1 DEF TableOK, OpenFds
  <2>5. \A i, j \in 1 .. Len(r) : r[i] = r[j] => i = j
    <3>1. Len(s) \in Nat /\ Len(r) = Len(s) + 1 /\ r[Len(s) + 1] = fd
      BY <1>p
    <3>2. \A i \in 1 .. Len(s) : r[i] = s[i] /\ s[i] \in Elements(s)
      BY <1>p DEF Elements
    <3>3. \A i, j \in 1 .. Len(s) : s[i] = s[j] => i = j
      BY <1>0 DEF TableOK
    <3> HIDE DEF r, s
    <3>4. \A i \in 1 .. Len(r) : i \in 1 .. Len(s) \/ i = Len(s) + 1
      BY <3>1
    <3> QED
      BY <2>4, <3>1, <3>2, <3>3, <3>4
  <2>6. s = free[v]
    OBVIOUS
  <2> HIDE DEF s, r
  <2>7. Elements(free'[v]) \cap OpenFds(v)' = {}
    BY <1>0, <2>1, <2>2, <2>3, <2>6 DEF TableOK, OpenFds
  <2>8. \A x \in Elements(free'[v]) \cup OpenFds(v)' : x <= next'[v]
    BY <1>0, <1>p, <2>1, <2>2, <2>3, <2>4, <2>6 DEF TableOK, OpenFds
  <2> QED
    BY <2>1, <2>5, <2>7, <2>8 DEF TableOK
<1>7. CASE UNCHANGED <<fds, free, next>>
  BY <1>0, <1>7, <1>s DEF SameTable
<1> QED
  BY <1>2, <1>4, <1>5, <1>6, <1>7 DEF VmAct, Spawn, Grow, place_content, path_open, alloc_fd_new,
    Refused, vfsVars

\* Every step keeps a stdin that nobody closed in its place.
LEMMA StdinStep ==
  ASSUME TypeOK, TypeOK', CallInv, DescriptorsDistinct, StdinInv, NEW v \in VMs, VmAct(v)
  PROVE  StdinInv'
<1> SUFFICES ASSUME stdinCloses' = 0 PROVE \A w \in VMs : fds'[w][0] = File("stdin", StdinLen)
  BY DEF StdinInv
<1>0. \A w \in VMs : fds[w][0] = File("stdin", StdinLen)
  BY ClosesGrow DEF StdinInv
<1>1. \A w \in VMs : w # v => fds'[w][0] = File("stdin", StdinLen)
  BY <1>0, OthersUntouched DEF Untouched
<1> SUFFICES fds'[v][0] = File("stdin", StdinLen)
  BY <1>1
<1>p. /\ 0 \in Fds /\ DOMAIN fds = VMs /\ fds[v] \in [Fds -> Descriptors] /\ next[v] \in Nat
      /\ fds[v][0] # Closed
  BY <1>0, VfsAssumption DEF TypeOK, Fds, File, Closed
<1>2. CASE EndVM(v)
  BY <1>2, <1>p DEF EndVM, StartFds
<1>3. ASSUME NEW fd \in Fds, Install(v, fd), fd # 0 PROVE fds'[v][0] = File("stdin", StdinLen)
  BY <1>0, <1>3, <1>p DEF Install
<1>4. CASE alloc_fd_reuse(v)
  <2> DEFINE fd == free[v][Len(free[v])]
  <2>1. free[v] # <<>> /\ Install(v, fd)
    BY <1>4 DEF alloc_fd_reuse
  <2>2. fd \in Fds /\ fd \in Elements(free[v])
    BY <2>1, LastFree
  <2>3. fd # 0
    BY <1>p, <2>2 DEF DescriptorsDistinct, OpenFds
  <2> QED
    BY <1>3, <2>1, <2>2, <2>3
<1>5. CASE Granted(v)
  <2>1. CASE call[v] = "fd" /\ next' = [next EXCEPT ![v] = @ + 1] /\ Install(v, next[v] + 1)
    <3>1. next[v] + 1 \in Fds
      BY <2>1 DEF TypeOK
    <3> QED
      BY <1>3, <1>p, <2>1, <3>1
  <2>2. CASE UNCHANGED fds
    BY <1>0, <2>2
  <2> QED
    BY <1>5, <2>1, <2>2 DEF Granted
<1>6. ASSUME NEW fd \in Fds, pop_fd(v, fd) PROVE fds'[v][0] = File("stdin", StdinLen)
  <2>1. fds[v][fd].kind # "stdin"
    <3>1. stdinCloses' = IF fds[v][fd].kind = "stdin" THEN stdinCloses + 1 ELSE stdinCloses
      BY <1>6 DEF pop_fd
    <3>2. stdinCloses \in Nat
      BY DEF TypeOK
    <3> QED
      BY <3>1, <3>2
  <2>2. fd # 0
    BY <1>0, <2>1 DEF File
  <2> QED
    BY <1>0, <1>6, <1>p, <2>2 DEF pop_fd
<1>7. CASE UNCHANGED fds
  BY <1>0, <1>7
<1> QED
  BY <1>2, <1>4, <1>5, <1>6, <1>7 DEF VmAct, Spawn, Grow, place_content, path_open, alloc_fd_new,
    Refused, vfsVars

-----------------------------------------------------------------------------
\* The accounts.

\* The charge for descriptors is a natural number.
LEMMA FdChargeType ==
  ASSUME TypeOK, CallInv, NEW v \in VMs
  PROVE  FdCost * (next[v] - LastStd) \in Nat
<1>1. next[v] - LastStd \in Nat
  BY VfsAssumption DEF TypeOK, Fds, CallInv, CallOK
<1>2. \A a, b \in Nat : a * b \in Nat
  OBVIOUS
<1> QED
  BY <1>1, <1>2, VfsAssumption

\* Charges are integers, no less than the contents but for stdin.
LEMMA ChargeType ==
  ASSUME TypeOK, CallInv, NEW v \in VMs
  PROVE  /\ Settled(v) \in Int /\ Charge(v) \in Int /\ Pending(v) \in Nat
         /\ Charge(v) + StdinLen >= Contents(v)
<1>1. Settled(v) \in Int
  BY LimiterValues DEF Settled
<1>2. Pending(v) \in Nat
  <2>1. file[v].len \in Nat
    BY DEF TypeOK, Descriptors
  <2> QED
    BY <2>1 DEF Pending
<1>3. grown[v] \in Nat /\ StdinLen \in Nat
  BY VfsAssumption, LimiterAssumption DEF TypeOK
<1>4. Contents(v) \in Nat
  BY ContentsType
<1> QED
  BY <1>1, <1>2, <1>3, <1>4, FdChargeType DEF Charge

\* While no stdin was closed, a table holds at least its stdin, and any other
\* content on top of it.
LEMMA ContentsHoldStdin ==
  ASSUME TypeOK, StdinInv, stdinCloses = 0, NEW v \in VMs
  PROVE  /\ StdinLen <= Contents(v)
         /\ \A fd \in Fds \ {0} : StdinLen + ContentOf(v)[fd] <= Contents(v)
<1> DEFINE f == ContentOf(v)
<1>1. 0 \in Fds /\ StdinLen \in Nat
  BY VfsAssumption, LimiterAssumption DEF Fds
<1>2. fds[v][0].kind = "stdin" /\ fds[v][0].len = StdinLen
  BY DEF StdinInv, File
<1>3. f[0] = StdinLen /\ \A x \in Fds : f[x] \in Nat
  BY <1>1, <1>2, ContentType
<1>4. Contents(v) = SumOver(f, Fds)
  BY ContentsIsSum DEF ContentsAreSums
<1> HIDE DEF f
<1>5. SumOver(f, Fds) = f[0] + SumOver(f, Fds \ {0})
  BY <1>1, <1>3, SumRemove, FdsFinite
<1>6. IsFiniteSet(Fds \ {0})
  BY FdsFinite, FS_Subset
<1>7. SumOver(f, Fds \ {0}) \in Nat
  BY <1>3, <1>6, SumNat
<1>8. \A fd \in Fds \ {0} : f[fd] <= SumOver(f, Fds \ {0})
  BY <1>3, <1>6, TermWithinSum
<1>9. StdinLen <= Contents(v)
  BY <1>1, <1>3, <1>4, <1>5, <1>7
<1>10. ASSUME NEW fd \in Fds \ {0} PROVE StdinLen + f[fd] <= Contents(v)
  BY <1>1, <1>3, <1>4, <1>5, <1>7, <1>8
<1> QED
  BY <1>9, <1>10 DEF f

\* So no handle has given back more than it took.
LEMMA HeldNotNegative ==
  ASSUME TypeOK, CallInv, StdinInv, ChargedThroughout, stdinCloses = 0, NEW v \in VMs
  PROVE  Held(v) >= 0
<1>1. CASE pc[v] = "uncounting"
  <2>1. ~trapped[v]
    BY <1>1 DEF CallInv, CallOK
  <2>2. Settled(v) = Charge(v)
    BY <2>1 DEF ChargedThroughout, Agree
  <2>3. Held(v) = Settled(v)
    BY <1>1, LimiterValues DEF Held, Settled
  <2>4. StdinLen <= Contents(v)
    BY ContentsHoldStdin
  <2> QED
    BY <2>2, <2>3, <2>4, ChargeType, ContentsType, VfsAssumption, LimiterAssumption
<1>2. CASE pc[v] # "uncounting"
  BY <1>2, LimiterValues DEF Held
<1> QED
  BY <1>1, <1>2

\* What is released was counted as consumed.
LEMMA ReleasedWasConsumed ==
  ASSUME TypeOK, CallInv, StdinInv, ChargedThroughout, stdinCloses = 0, stdinCloses' = 0,
         NEW v \in VMs, NEW fd \in Fds, pop_fd(v, fd), release_memory(fds[v][fd])
  PROVE  fds[v][fd].len <= consumed[v]
<1>1. fds[v][fd].kind # "stdin"
  BY DEF pop_fd
<1>2. fds[v][0].kind = "stdin"
  BY DEF StdinInv, File
<1>3. fd \in Fds \ {0}
  BY <1>1, <1>2
<1>4. ContentOf(v)[fd] = fds[v][fd].len
  BY ContentType DEF release_memory
<1>5. StdinLen + fds[v][fd].len <= Contents(v)
  BY <1>3, <1>4, ContentsHoldStdin
<1>6. ~trapped[v] /\ pc[v] = "idle"
  BY DEF pop_fd, GuestRuns, Ready
<1>7. consumed[v] = Charge(v)
  <2>1. Settled(v) = consumed[v]
    BY <1>6, LimiterValues DEF Settled
  <2> QED
    BY <1>6, <2>1 DEF ChargedThroughout, Agree
<1>8. fds[v][fd].len \in Nat /\ StdinLen \in Nat
  BY LenType, VfsAssumption, LimiterAssumption
<1> QED
  BY <1>5, <1>7, <1>8, ChargeType, ContentsType

\* Taking a number out and putting it back wrapped.
LEMMA WrapCancel ==
  ASSUME NEW t \in Int, NEW a \in Int PROVE Wrap(t - a + Wrap(a)) = Wrap(t)
<1>1. Wrap(a) \in Int
  BY WrapType DEF Amounts
<1>2. Wrap(Wrap(a) + (t - a)) = Wrap(a + (t - a))
  BY WrapAdd
<1>3. Wrap(a) + (t - a) = t - a + Wrap(a) /\ a + (t - a) = t
  BY <1>1
<1> QED
  BY <1>2, <1>3

\* Every atomic operation moves memory between the pool and a handle: the
\* total changes by what a wrap-around takes away, and none happens before a
\* stdin was closed.
LEMMA TotalStep ==
  ASSUME TypeOK, TypeOK', CallInv, StdinInv, ChargedThroughout, BudgetConserved,
         NEW v \in VMs, VmAct(v)
  PROVE  \E a \in Int : Total' = Total - a + Wrap(a) /\ (stdinCloses' = 0 => a \in Amounts)
<1>1. Total' = Total - remaining + remaining' - Held(v) + Held(v)'
  <2>1. \A w \in VMs \ {v} : Held(w)' = Held(w)
    BY OthersUntouched DEF Untouched, Held
  <2> QED
    BY <2>1, TotalChange
<1>2. Total \in Int
  BY TotalType
<1>3. /\ remaining \in Nat /\ remaining <= Limit
      /\ consumed[v] \in Nat /\ consumed[v] <= Limit
      /\ seen[v] \in Nat /\ delta[v] \in Nat
  BY LimiterValues
<1>4. Limit \in Nat /\ 0 \in Amounts /\ Wrap(0) = 0 /\ \A a \in Int : Wrap(a) \in Int
  <2>1. Limit \in Nat /\ 0 \in Amounts
    BY LimiterAssumption DEF Amounts
  <2> QED
    BY <2>1, WrapSmall, WrapType DEF Amounts
<1>5. stdinCloses' = 0 => /\ stdinCloses = 0 /\ Held(v) >= 0
                          /\ remaining + Held(v) <= Limit
  <2> SUFFICES ASSUME stdinCloses' = 0
               PROVE  stdinCloses = 0 /\ Held(v) >= 0 /\ remaining + Held(v) <= Limit
    OBVIOUS
  <2>1. stdinCloses = 0
    BY ClosesGrow
  <2>2. \A w \in VMs : Held(w) >= 0
    BY <2>1, HeldNotNegative
  <2>3. remaining + Held(v) <= Total
    BY <2>2, HeldWithinTotal
  <2> QED
    BY <2>1, <2>2, <2>3 DEF BudgetConserved
<1>p. DOMAIN pc = VMs /\ DOMAIN consumed = VMs /\ DOMAIN delta = VMs
  BY DEF TypeOK, LimiterTypeOK
\* Steps that leave remaining + Held(v) as it was.
<1>6. ASSUME remaining' + Held(v)' = remaining + Held(v)
      PROVE  \E a \in Int : Total' = Total - a + Wrap(a) /\ (stdinCloses' = 0 => a \in Amounts)
  <2>1. Held(v) \in Int /\ Held(v)' \in Int /\ remaining' \in Int
    <3>1. Held(v) \in Int
      BY HeldType DEF HeldIsInt
    <3>2. HeldIsInt'
      BY HeldType, PTL
    <3> QED
      BY <3>1, <3>2 DEF HeldIsInt, TypeOK, LimiterTypeOK, Amounts
  <2>2. Total' = Total - 0 + Wrap(0)
    BY <1>1, <1>2, <1>3, <1>4, <1>6, <2>1
  <2> QED
    BY <1>4, <2>2
<1> USE DEF Step, Return, SetRemaining, Held
<1>7. CASE Derived(v)
  <2>1. consumed[v] = 0
    BY <1>7 DEF Derived, CallInv, CallOK
  <2> QED
    BY <1>6, <1>7, <1>p, <2>1 DEF Derived
<1>8. CASE DropLimiter(v)
  <2> DEFINE a == remaining + consumed[v]
  <2>1. remaining' = Wrap(a) /\ Held(v) = consumed[v] /\ Held(v)' = 0
    BY <1>3, <1>8, <1>p DEF DropLimiter, GiveBack
  <2>2. a \in Int /\ Wrap(a) \in Int
    BY <1>3, <1>4
  <2>3. Total' = Total - a + Wrap(a)
    BY <1>1, <1>2, <1>3, <2>1, <2>2
  <2>4. stdinCloses' = 0 => a \in Amounts
    BY <1>3, <1>4, <1>5, <2>1 DEF Amounts
  <2> QED
    BY <2>2, <2>3, <2>4
<1>9. ASSUME NEW d \in Nat, ConsumeLoad(v, d)
      PROVE  \E a \in Int : Total' = Total - a + Wrap(a) /\ (stdinCloses' = 0 => a \in Amounts)
  BY <1>3, <1>6, <1>9, <1>p DEF ConsumeLoad
<1>10. ASSUME NEW fd \in Fds, pop_fd(v, fd), ReleaseAdd(v, fds[v][fd].len)
       PROVE  \E a \in Int : Total' = Total - a + Wrap(a) /\ (stdinCloses' = 0 => a \in Amounts)
  <2> DEFINE d == fds[v][fd].len
             a == remaining + d
  <2>0. d \in Nat
    BY LenType
  <2>1. remaining' = Wrap(a) /\ Held(v) = consumed[v] /\ Held(v)' = consumed[v] - d
    BY <1>3, <1>10, <1>p, <2>0 DEF ReleaseAdd, GiveBack
  <2>2. stdinCloses' = 0 => d <= consumed[v]
    <3>1. release_memory(fds[v][fd])
      BY <1>10 DEF pop_fd, ReleaseAdd, limiterVars, TypeOK, LimiterTypeOK
    <3> QED
      BY <1>5, <1>10, <3>1, ReleasedWasConsumed
  <2> HIDE DEF d
  <2>3. a \in Int /\ Wrap(a) \in Int
    BY <1>3, <1>4, <2>0
  <2>4. Total' = Total - a + Wrap(a)
    BY <1>1, <1>2, <1>3, <2>0, <2>1, <2>3
  <2>5. stdinCloses' = 0 => a \in Amounts
    BY <1>3, <1>4, <1>5, <2>0, <2>1, <2>2 DEF Amounts
  <2> QED
    BY <2>3, <2>4, <2>5
<1>11. CASE ConsumeRefused(v)
  BY <1>3, <1>6, <1>11, <1>p DEF ConsumeRefused
<1>12. CASE ConsumeSwap(v)
  BY <1>3, <1>6, <1>12, <1>p DEF ConsumeSwap
<1>13. CASE ConsumeRetry(v)
  BY <1>3, <1>6, <1>13, <1>p DEF ConsumeRetry
<1>14. CASE NoteLeast(v)
  BY <1>3, <1>6, <1>14, <1>p DEF NoteLeast
<1>15. CASE ConsumeCounted(v)
  <2> DEFINE a == consumed[v] + delta[v]
  <2>1. remaining' = remaining /\ Held(v) = a /\ Held(v)' = Wrap(a)
    <3>1. a \in Int /\ Wrap(a) \in Int
      BY <1>3, <1>4
    <3>2. pc[v] = "counting" /\ pc'[v] = "idle" /\ consumed'[v] = Wrap(a) /\ remaining' = remaining
      BY <1>15, <1>p DEF ConsumeCounted
    <3> QED
      BY <1>3, <3>1, <3>2
  <2>2. a \in Int /\ Wrap(a) \in Int
    BY <1>3, <1>4
  <2>3. Total' = Total - a + Wrap(a)
    BY <1>1, <1>2, <1>3, <2>1, <2>2
  <2>4. stdinCloses' = 0 => a \in Amounts
    BY <1>3, <1>4, <1>5, <2>1 DEF Amounts
  <2> QED
    BY <2>2, <2>3, <2>4
<1>16. CASE ReleaseCounted(v)
  <2> DEFINE a == consumed[v] - delta[v]
  <2>1. remaining' = remaining /\ Held(v) = a /\ Held(v)' = Wrap(a)
    <3>1. a \in Int /\ Wrap(a) \in Int
      BY <1>3, <1>4
    <3>2. pc[v] = "uncounting" /\ pc'[v] = "idle" /\ consumed'[v] = Wrap(a) /\ remaining' = remaining
      BY <1>16, <1>p DEF ReleaseCounted
    <3> QED
      BY <1>3, <3>1, <3>2
  <2>2. a \in Int /\ Wrap(a) \in Int
    BY <1>3, <1>4
  <2>3. Total' = Total - a + Wrap(a)
    BY <1>1, <1>2, <1>3, <2>1, <2>2
  <2>4. stdinCloses' = 0 => a \in Amounts
    BY <1>3, <1>4, <1>5, <2>1 DEF Amounts
  <2> QED
    BY <2>2, <2>3, <2>4
<1>17. CASE UNCHANGED limiterVars
  BY <1>6, <1>17 DEF limiterVars
<1>18. LimiterAct(v)
  BY ActsOnLimiter
<1> QED
  BY <1>7, <1>8, <1>9, <1>10, <1>11, <1>12, <1>13, <1>14, <1>15, <1>16, <1>17, <1>18 DEF LimiterAct

\* Every step conserves the budget, modulo 2^32 once a stdin was closed.
LEMMA BudgetStep ==
  ASSUME TypeOK, TypeOK', CallInv, StdinInv, ChargedThroughout, BudgetConserved,
         NEW v \in VMs, VmAct(v)
  PROVE  BudgetConserved'
<1>1. PICK a \in Int : Total' = Total - a + Wrap(a) /\ (stdinCloses' = 0 => a \in Amounts)
  BY TotalStep
<1>2. Wrap(Total') = Limit
  BY <1>1, WrapCancel, TotalType DEF BudgetConserved
<1>3. stdinCloses' = 0 => Total' = Limit
  BY <1>1, ClosesGrow, WrapSmall, TotalType, LimiterAssumption DEF BudgetConserved, Amounts
<1> QED
  BY <1>2, <1>3 DEF BudgetConserved, Wrap

\* So before a stdin was closed the assertion of release_no_consumed holds.
LEMMA OverReleaseStep ==
  ASSUME TypeOK, TypeOK', CallInv, StdinInv, ChargedThroughout, BudgetConserved, ~panicked,
         NEW v \in VMs, VmAct(v)
  PROVE  OverReleaseNeedsStdin'
<1> SUFFICES ASSUME stdinCloses' = 0 PROVE ~panicked'
  BY VfsAssumption DEF OverReleaseNeedsStdin, TypeOK
<1>1. stdinCloses = 0
  BY ClosesGrow
<1>2. \A w \in VMs : Held(w) >= 0
  BY <1>1, HeldNotNegative
<1>3. remaining + Held(v) <= Limit
  BY <1>1, <1>2, HeldWithinTotal DEF BudgetConserved
<1>4. remaining \in Nat /\ consumed[v] \in Nat /\ Limit \in Nat
  BY LimiterValues, LimiterAssumption
<1>5. CASE DropLimiter(v)
  <2>1. Held(v) = consumed[v]
    BY <1>4, <1>5 DEF DropLimiter, Held, Step
  <2>2. panicked' = (remaining + consumed[v] > Limit)
    BY <1>5 DEF DropLimiter, GiveBack
  <2>3. ~ (remaining + consumed[v] > Limit)
    BY <1>3, <1>4, <2>1
  <2> QED
    BY <2>2, <2>3
<1>6. ASSUME NEW fd \in Fds, pop_fd(v, fd), ReleaseAdd(v, fds[v][fd].len) PROVE ~panicked'
  <2>1. release_memory(fds[v][fd])
    BY <1>6 DEF pop_fd, ReleaseAdd, limiterVars, TypeOK, LimiterTypeOK, Step
  <2>2. fds[v][fd].len <= consumed[v] /\ fds[v][fd].len \in Nat
    BY <1>1, <1>6, <2>1, ReleasedWasConsumed, LenType
  <2>3. Held(v) = consumed[v]
    BY <1>4, <1>6 DEF ReleaseAdd, Held, Step
  <2>4. panicked' = (remaining + fds[v][fd].len > Limit)
    BY <1>6 DEF ReleaseAdd, GiveBack
  <2>5. ~ (remaining + fds[v][fd].len > Limit)
    BY <1>3, <1>4, <2>2, <2>3
  <2> QED
    BY <2>4, <2>5
<1>7. CASE panicked' = panicked
  BY <1>7
<1>8. LimiterAct(v)
  BY ActsOnLimiter
<1> QED
  BY <1>5, <1>6, <1>7, <1>8 DEF LimiterAct, Derived, ConsumeLoad, ConsumeRefused, ConsumeSwap,
    ConsumeRetry, NoteLeast, ConsumeCounted, ReleaseCounted, limiterVars

\* Moving an account and its charge by the same amount, wrapped or not.
LEMMA AgreeShift ==
  ASSUME NEW s \in Int, NEW r \in Int, NEW c \in Int, NEW t \in Int, Wrap(s) = Wrap(r),
         t = s + c \/ t = Wrap(s + c)
  PROVE  Wrap(t) = Wrap(r + c)
<1>1. Wrap(s + c) = Wrap(r + c)
  BY WrapShift
<1>2. Wrap(Wrap(s + c)) = Wrap(s + c)
  BY WrapWrap
<1> QED
  BY <1>1, <1>2

\* A step that adds c to a VM's charge and to its account keeps them equal.
LEMMA AccountMoves ==
  ASSUME TypeOK, CallInv, StdinInv, ChargedThroughout, BudgetConserved,
         NEW v \in VMs, VmAct(v), NEW c \in Int,
         ~trapped[v], Charge(v)' = Charge(v) + c,
         \/ Settled(v)' = Settled(v) + c
         \/ Settled(v)' = Wrap(Settled(v) + c) /\ Settled(v) + c = Held(v)
  PROVE  Agree(Settled(v), Charge(v))'
<1>1. Settled(v) \in Int /\ Charge(v) \in Int
  BY ChargeType
<1>2. Wrap(Settled(v)) = Wrap(Charge(v))
  BY DEF ChargedThroughout, Agree
<1> DEFINE s == Settled(v)
           r == Charge(v)
           t == Settled(v)'
<1>3. s + c \in Int /\ Wrap(s + c) \in Int
  BY <1>1, WrapType DEF Amounts
<1>4. t \in Int /\ (t = s + c \/ t = Wrap(s + c))
  BY <1>3
<1>5. s \in Int /\ r \in Int /\ Wrap(s) = Wrap(r)
  BY <1>1, <1>2
<1> HIDE DEF s, r, t
<1>6. Wrap(t) = Wrap(r + c)
  BY <1>4, <1>5, AgreeShift
<1>7. ASSUME stdinCloses' = 0 PROVE Settled(v)' = Charge(v)'
  <2>1. stdinCloses = 0
    BY <1>7, ClosesGrow
  <2>2. Settled(v) = Charge(v)
    BY <2>1 DEF ChargedThroughout, Agree
  <2>3. ASSUME Settled(v) + c = Held(v) PROVE Wrap(Settled(v) + c) = Settled(v) + c
    <3>1. \A w \in VMs : Held(w) >= 0 /\ Held(w) \in Int
      BY <2>1, HeldNotNegative, HeldType DEF HeldIsInt
    <3>2. remaining + Held(v) <= Limit
      BY <2>1, <3>1, HeldWithinTotal DEF BudgetConserved
    <3>3. Held(v) \in Amounts
      BY <3>1, <3>2, LimiterValues, LimiterAssumption DEF Amounts
    <3> QED
      BY <2>3, <3>3, WrapSmall
  <2> QED
    BY <2>2, <2>3
<1>8. Wrap(Settled(v)') = Wrap(Charge(v)')
  BY <1>6 DEF r, t
<1> QED
  BY <1>7, <1>8 DEF Agree, Wrap

\* Installing moves a content from the call to the table.
LEMMA InstallMoves ==
  ASSUME TypeOK, TypeOK', CallInv, NEW v \in VMs, NEW fd \in Fds, fds[v][fd] = Closed,
         call[v] \in {"alloc", "fd"}, Install(v, fd), Enter(v, "none")
  PROVE  Contents(v)' = Contents(v) + Pending(v) /\ Pending(v)' = 0
<1>1. Pending(v)' = 0
  BY DEF Pending, Enter, TypeOK
<1>2. file[v].kind \in {"content", "mapped"} /\ file[v].len \in Nat /\ Contents(v) \in Nat
  BY ContentsType DEF CallInv, CallOK, TypeOK, Descriptors
<1>3. CASE fds' = [fds EXCEPT ![v][fd] = file[v]]
  <2>1. fds'[v][fd] = file[v] /\ \A x \in Fds \ {fd} : fds'[v][x] = fds[v][x]
    BY <1>3 DEF TypeOK
  <2>2. ContentOf(v)[fd] = 0
    BY ContentType DEF Closed, File
  <2>3. ContentOf(v)'[fd] = Pending(v)
    BY <1>2, <2>1 DEF ContentOf, Pending
  <2>4. Contents(v)' = Contents(v) - ContentOf(v)[fd] + ContentOf(v)'[fd]
    BY <2>1, ContentsChange
  <2> QED
    BY <1>1, <1>2, <2>2, <2>3, <2>4, ChargeType
<1>4. CASE file[v].kind = "mapped" /\ UNCHANGED fds
  <2>1. Pending(v) = 0
    BY <1>4 DEF Pending
  <2>2. Contents(v)' = Contents(v)
    BY <1>4, ContentsSame
  <2> QED
    BY <1>1, <1>2, <2>1, <2>2
<1> QED
  BY <1>3, <1>4 DEF Install

\* Every step keeps each VM charged for what it holds.
LEMMA ChargeStep ==
  ASSUME TypeOK, TypeOK', CallInv, StdinInv, DescriptorsDistinct, ChargedThroughout,
         BudgetConserved, NEW v \in VMs, VmAct(v)
  PROVE  ChargedThroughout'
<1>1. ASSUME NEW w \in VMs, w # v, ~trapped'[w] PROVE Agree(Settled(w), Charge(w))'
  <2>1. Untouched(w)
    BY <1>1, OthersUntouched
  <2>2. Contents(w)' = Contents(w)
    BY <2>1, ContentsSame DEF Untouched
  <2>3. Settled(w)' = Settled(w) /\ Charge(w)' = Charge(w)
    BY <2>1, <2>2 DEF Untouched, Settled, Charge, Pending
  <2>4. Agree(Settled(w), Charge(w))
    BY <1>1, <2>1 DEF Untouched, ChargedThroughout
  <2> QED
    BY <2>3, <2>4, ClosesGrow DEF Agree, Wrap
<1> SUFFICES ASSUME ~trapped'[v] PROVE Agree(Settled(v), Charge(v))'
  BY <1>1 DEF ChargedThroughout
<1>0. CallOK(v)
  BY DEF CallInv
<1>t. /\ Settled(v) \in Int /\ Charge(v) \in Int /\ Pending(v) \in Nat /\ Contents(v) \in Nat
      /\ FdCost * (next[v] - LastStd) \in Int /\ grown[v] \in Nat /\ StdinLen \in Nat
      /\ consumed[v] \in Nat /\ delta[v] \in Nat /\ seen[v] \in Nat /\ FdCost \in Nat
      /\ next[v] \in Nat /\ LastStd \in Nat
  <2>1. /\ Settled(v) \in Int /\ Charge(v) \in Int /\ Pending(v) \in Nat /\ Contents(v) \in Nat
        /\ FdCost * (next[v] - LastStd) \in Int
    BY ChargeType, ContentsType, FdChargeType
  <2>2. consumed[v] \in Nat /\ delta[v] \in Nat /\ seen[v] \in Nat
    BY LimiterValues
  <2>3. StdinLen \in Nat /\ FdCost \in Nat /\ LastStd \in Nat
    BY VfsAssumption, LimiterAssumption
  <2>4. grown[v] \in Nat /\ next[v] \in Nat
    BY VfsAssumption DEF TypeOK, Fds
  <2> QED
    BY <2>1, <2>2, <2>3, <2>4
<1>p. /\ DOMAIN pc = VMs /\ DOMAIN call = VMs /\ DOMAIN file = VMs /\ DOMAIN trapped = VMs
      /\ DOMAIN delta = VMs /\ DOMAIN seen = VMs /\ DOMAIN consumed = VMs /\ DOMAIN next = VMs
      /\ DOMAIN fds = VMs /\ DOMAIN grown = VMs
  BY DEF TypeOK, LimiterTypeOK
\* A step that moves neither the account nor the charge.
<1>2. ASSUME ~trapped[v], Settled(v)' = Settled(v), grown'[v] = grown[v], next'[v] = next[v],
             Contents(v)' = Contents(v), Pending(v)' = Pending(v)
      PROVE  Agree(Settled(v), Charge(v))'
  <2>1. Charge(v)' = Charge(v) + 0
    BY <1>2, <1>t DEF Charge
  <2>2. Settled(v)' = Settled(v) + 0
    BY <1>2, <1>t
  <2> QED
    BY <1>2, <2>1, <2>2, AccountMoves
<1> USE DEF Step, Return, Enter
<1>3. CASE Spawn(v)
  <2>1. Settled(v)' = Settled(v) /\ Pending(v)' = Pending(v) /\ ~trapped[v]
    BY <1>0, <1>3, <1>p, <1>t DEF Spawn, Derived, vfsVars, Settled, Pending, CallOK
  <2>2. Contents(v)' = Contents(v)
    BY <1>3, ContentsSame DEF Spawn, vfsVars
  <2> QED
    BY <1>2, <1>3, <2>1, <2>2 DEF Spawn, vfsVars
<1>4. CASE EndVM(v)
  <2>1. fds'[v] = StartFds /\ grown'[v] = 0 /\ next'[v] = LastStd /\ call'[v] = "none"
    BY <1>4, <1>p DEF EndVM
  <2>2. Contents(v)' = StdinLen
    <3>1. ContentsAreSums'
      BY ContentsIsSum, PTL
    <3> DEFINE f == ContentOf(v)'
    <3>2. Contents(v)' = SumOver(f, Fds)
      BY <3>1 DEF ContentsAreSums
    <3>3. 0 \in Fds /\ f[0] = StdinLen /\ \A x \in Fds \ {0} : f[x] = 0
      BY <2>1, VfsAssumption DEF ContentOf, StartFds, File, Closed, Fds
    <3> HIDE DEF f
    <3>4. SumOver(f, Fds) = StdinLen
      BY <1>t, <3>3, SumOfOne, FdsFinite
    <3> QED
      BY <3>2, <3>4
  <2>3. FdCost * (next'[v] - LastStd) = 0
    BY <1>t, <2>1
  <2>4. Charge(v)' = 0
    BY <1>t, <2>1, <2>2, <2>3 DEF Charge, Pending
  <2>5. Settled(v)' = 0
    BY <1>4, <1>p DEF EndVM, DropLimiter, Settled
  <2> QED
    BY <2>4, <2>5 DEF Agree
<1>5. ASSUME NEW n \in Sizes, Grow(v, n) \/ place_content(v, n) PROVE Agree(Settled(v), Charge(v))'
  <2>1. Settled(v)' = Settled(v) /\ Pending(v)' = Pending(v) /\ ~trapped[v]
    BY <1>5, <1>p, <1>t DEF Grow, place_content, GuestRuns, Ready, ConsumeLoad, Settled, Pending
  <2>2. Contents(v)' = Contents(v)
    BY <1>5, ContentsSame DEF Grow, place_content
  <2> QED
    BY <1>2, <1>5, <2>1, <2>2 DEF Grow, place_content
<1>6. ASSUME NEW n \in Sizes, path_open(v, n) PROVE Agree(Settled(v), Charge(v))'
  <2>1. Settled(v)' = Settled(v) /\ Pending(v)' = Pending(v) /\ ~trapped[v]
    BY <1>6, <1>p, <1>t DEF path_open, GuestRuns, Ready, limiterVars, Settled, Pending, File
  <2>2. Contents(v)' = Contents(v)
    BY <1>6, ContentsSame DEF path_open
  <2> QED
    BY <1>2, <1>6, <2>1, <2>2 DEF path_open
<1>7. CASE alloc_fd_reuse(v)
  <2> DEFINE fd == free[v][Len(free[v])]
  <2>1. free[v] # <<>> /\ Install(v, fd) /\ call[v] = "alloc" /\ Enter(v, "none")
    BY <1>7 DEF alloc_fd_reuse
  <2>2. fd \in Fds /\ fd \in Elements(free[v])
    BY <2>1, LastFree
  <2>3. fds[v][fd] = Closed
    BY <2>2 DEF DescriptorsDistinct, OpenFds
  <2> HIDE DEF fd
  <2>4. Contents(v)' = Contents(v) + Pending(v) /\ Pending(v)' = 0
    BY <2>1, <2>2, <2>3, InstallMoves
  <2>5. Settled(v)' = Settled(v) /\ grown'[v] = grown[v] /\ next'[v] = next[v] /\ ~trapped[v]
    BY <1>7 DEF alloc_fd_reuse, limiterVars, Settled
  <2>6. Charge(v)' = Charge(v) + 0
    BY <1>t, <2>4, <2>5 DEF Charge
  <2>7. Settled(v)' = Settled(v) + 0
    BY <1>t, <2>5
  <2> QED
    BY <2>5, <2>6, <2>7, AccountMoves
<1>8. CASE alloc_fd_new(v)
  <2>1. Settled(v)' = Settled(v) /\ Pending(v)' = Pending(v) /\ ~trapped[v]
    BY <1>8, <1>p, <1>t DEF alloc_fd_new, ConsumeLoad, Settled, Pending
  <2>2. Contents(v)' = Contents(v)
    BY <1>8, ContentsSame DEF alloc_fd_new
  <2> QED
    BY <1>2, <1>8, <2>1, <2>2 DEF alloc_fd_new
<1>9. CASE Granted(v)
  <2>1. ~trapped[v] /\ Settled(v)' = Wrap(Settled(v) + delta[v]) /\ Settled(v) + delta[v] = Held(v)
    <3>1. /\ pc[v] = "counting" /\ pc'[v] = "idle" /\ trapped'[v] = trapped[v]
          /\ consumed'[v] = Wrap(consumed[v] + delta[v])
      BY <1>9, <1>p DEF Granted, ConsumeCounted
    <3>2. Wrap(consumed[v] + delta[v]) \in Int
      BY <1>t, WrapType DEF Amounts
    <3>3. Settled(v) = consumed[v] /\ Settled(v)' = consumed'[v]
      BY <1>t, <3>1, <3>2 DEF Settled
    <3>4. Held(v) = consumed[v] + delta[v]
      BY <1>t, <3>1 DEF Held
    <3> QED
      BY <3>1, <3>3, <3>4
  <2> SUFFICES Charge(v)' = Charge(v) + delta[v]
    BY <1>t, <2>1, AccountMoves
  <2>2. CASE call[v] = "grow" /\ grown' = [grown EXCEPT ![v] = @ + delta[v]]
             /\ Enter(v, "none") /\ UNCHANGED <<fds, next, file>>
    <3>1. Contents(v)' = Contents(v)
      BY <2>2, ContentsSame
    <3>2. Pending(v) = 0 /\ Pending(v)' = 0 /\ grown'[v] = grown[v] + delta[v] /\ next'[v] = next[v]
      BY <1>p, <2>2 DEF Pending
    <3> QED
      BY <1>t, <3>1, <3>2 DEF Charge
  <2>3. CASE call[v] = "content" /\ Enter(v, "alloc") /\ UNCHANGED <<fds, next, file, grown>>
    <3>1. Contents(v)' = Contents(v)
      BY <2>3, ContentsSame
    <3>2. Pending(v) = 0 /\ Pending(v)' = delta[v]
      BY <1>0, <1>p, <2>3 DEF Pending, CallOK
    <3> QED
      BY <1>t, <2>3, <3>1, <3>2 DEF Charge
  <2>4. CASE call[v] = "fd" /\ next' = [next EXCEPT ![v] = @ + 1]
             /\ Install(v, next[v] + 1) /\ Enter(v, "none") /\ UNCHANGED grown
    <3>1. next'[v] = next[v] + 1 /\ next[v] + 1 \in Fds /\ delta[v] = FdCost
      BY <1>0, <1>p, <2>4 DEF TypeOK, CallOK
    <3>2. fds[v][next[v] + 1] = Closed
      <4>1. ~ (next[v] + 1 <= next[v])
        BY <1>t
      <4> QED
        BY <3>1, <4>1 DEF DescriptorsDistinct, OpenFds
    <3>3. Contents(v)' = Contents(v) + Pending(v) /\ Pending(v)' = 0
      BY <2>4, <3>1, <3>2, InstallMoves
    <3>4. FdCost * (next'[v] - LastStd) = FdCost * (next[v] - LastStd) + FdCost
      <4>1. \A a \in Nat, b \in Int : a * (b + 1) = a * b + a
        OBVIOUS
      <4>2. next'[v] - LastStd = (next[v] - LastStd) + 1
        BY <1>t, <3>1
      <4> QED
        BY <1>t, <4>1, <4>2
    <3> QED
      BY <1>t, <2>4, <3>1, <3>3, <3>4 DEF Charge
  <2> QED
    BY <1>9, <2>2, <2>3, <2>4 DEF Granted
<1>10. CASE Refused(v)
  <2>1. call[v] = "grow" /\ UNCHANGED trapped /\ ~trapped[v]
    BY <1>10, <1>p DEF Refused
  <2>2. Settled(v)' = Settled(v) /\ Pending(v)' = Pending(v)
    BY <1>10, <1>p, <1>t, <2>1 DEF Refused, ConsumeRefused, Settled, Pending
  <2>3. Contents(v)' = Contents(v)
    BY <1>10, ContentsSame DEF Refused
  <2> QED
    BY <1>2, <1>10, <2>1, <2>2, <2>3 DEF Refused
<1>11. ASSUME NEW fd \in Fds, pop_fd(v, fd) PROVE Agree(Settled(v), Charge(v))'
  <2> DEFINE m == ContentOf(v)[fd]
  <2>1. fds'[v][fd] = Closed /\ \A x \in Fds \ {fd} : fds'[v][x] = fds[v][x]
    BY <1>11, <1>p DEF pop_fd, TypeOK
  <2>2. ContentOf(v)'[fd] = 0
    BY <2>1 DEF ContentOf, Closed, File
  <2>3. Contents(v)' = Contents(v) - m + ContentOf(v)'[fd]
    BY <2>1, ContentsChange
  <2>4. m \in Nat /\ m = IF release_memory(fds[v][fd]) THEN fds[v][fd].len ELSE 0
    BY ContentType DEF release_memory
  <2> HIDE DEF m
  <2>5. Settled(v)' = Settled(v) + (0 - m)
    <3>1. CASE release_memory(fds[v][fd])
      <4>1. ReleaseAdd(v, m)
        BY <1>11, <2>4, <3>1 DEF pop_fd
      <4> QED
        BY <1>p, <1>t, <2>4, <4>1 DEF ReleaseAdd, Settled
    <3>2. CASE ~release_memory(fds[v][fd])
      <4>1. UNCHANGED limiterVars
        BY <1>11, <3>2 DEF pop_fd
      <4> QED
        BY <1>t, <2>4, <3>2, <4>1 DEF limiterVars, Settled
    <3> QED
      BY <3>1, <3>2
  <2>6. Pending(v)' = Pending(v) /\ grown'[v] = grown[v] /\ next'[v] = next[v] /\ ~trapped[v]
    BY <1>11 DEF pop_fd, GuestRuns, Ready, Pending
  <2>7. Charge(v)' = Charge(v) + (0 - m)
    BY <1>t, <2>2, <2>3, <2>4, <2>6 DEF Charge
  <2> QED
    BY <2>4, <2>5, <2>6, <2>7, AccountMoves
<1>12. CASE LimiterStep(v) /\ UNCHANGED vfsVars
  <2>1. /\ Contents(v)' = Contents(v) /\ Pending(v)' = Pending(v) /\ ~trapped[v]
        /\ grown'[v] = grown[v] /\ next'[v] = next[v]
    BY <1>12, ContentsSame DEF vfsVars, Pending
  <2>2. CASE ReleaseCounted(v)
    <3>1. /\ pc[v] = "uncounting" /\ pc'[v] = "idle"
          /\ consumed'[v] = Wrap(consumed[v] - delta[v])
      BY <1>p, <2>2 DEF ReleaseCounted
    <3>2. Wrap(consumed[v] - delta[v]) \in Int
      BY <1>t, WrapType DEF Amounts
    <3>3. Settled(v) = consumed[v] - delta[v] /\ Held(v) = Settled(v)
      BY <1>t, <3>1 DEF Settled, Held
    <3>4. Settled(v)' = Wrap(Settled(v) + 0) /\ Settled(v) + 0 = Held(v)
      BY <1>t, <3>1, <3>2, <3>3 DEF Settled
    <3>5. Charge(v)' = Charge(v) + 0
      BY <1>t, <2>1 DEF Charge
    <3> QED
      BY <2>1, <3>4, <3>5, AccountMoves
  <2>3. CASE ConsumeSwap(v) \/ ConsumeRetry(v) \/ NoteLeast(v)
    <3>1. Settled(v)' = Settled(v)
      BY <1>p, <1>t, <2>3 DEF ConsumeSwap, ConsumeRetry, NoteLeast, Settled
    <3> QED
      BY <1>2, <2>1, <3>1
  <2> QED
    BY <1>12, <2>2, <2>3 DEF LimiterStep
<1> QED
  BY <1>3, <1>4, <1>5, <1>6, <1>7, <1>8, <1>9, <1>10, <1>11, <1>12 DEF VmAct

-----------------------------------------------------------------------------
\* The initial state, the step, and what follows.

\* The invariant holds at the start of the pool.
LEMMA InitHolds == Init => VfsInv
<1> SUFFICES ASSUME Init PROVE VfsInv
  OBVIOUS
<1>1. LimiterTypeOK
  <2>1. Limit \in Amounts /\ 0 \in Amounts /\ 0 \in Nat
    BY LimiterAssumption DEF Amounts
  <2> QED
    BY <2>1 DEF Init, LimiterInit, LimiterTypeOK
<1>2. TypeOK
  <2>1. LastStd \in Fds /\ 0 \in 0 .. MaxStdinCloses /\ "none" \in Calls /\ <<>> \in Seq(Fds)
    BY VfsAssumption DEF Fds, Calls
  <2> QED
    BY <1>1, <2>1, MadeFiles DEF Init, TypeOK
<1>3. CallInv
  BY VfsAssumption DEF Init, LimiterInit, CallInv, CallOK
<1>4. StdinInv
  BY VfsAssumption DEF Init, StdinInv, StartFds, Fds
<1>5. LowInv
  BY LimiterAssumption DEF Init, LimiterInit, LowInv
<1>6. Total = Limit
  <2>1. \A v \in VMs : HeldBy[v] = 0
    BY DEF Init, LimiterInit, HeldBy, Held
  <2>2. SumOver(HeldBy, VMs) = 0
    BY <2>1, SumZero, LimiterAssumption
  <2> QED
    BY <2>2, TotalIsSum, LimiterAssumption DEF Init, LimiterInit
<1>7. BudgetConserved
  BY <1>6, WrapSmall, LimiterAssumption DEF BudgetConserved, Amounts
<1>8. ChargedThroughout
  <2> SUFFICES ASSUME NEW v \in VMs PROVE Settled(v) = 0 /\ Charge(v) = 0
    BY DEF ChargedThroughout, Agree
  <2>1. Contents(v) = StdinLen
    BY StartContents DEF Init
  <2>2. FdCost * (next[v] - LastStd) = 0
    BY VfsAssumption DEF Init
  <2>3. StdinLen \in Int
    BY VfsAssumption
  <2> QED
    BY <2>1, <2>2, <2>3 DEF Init, LimiterInit, Settled, Charge, Pending
<1>9. OverReleaseNeedsStdin
  BY DEF Init, LimiterInit, OverReleaseNeedsStdin
<1>10. DescriptorsDistinct
  <2>1. \A fd \in Fds : StartFds[fd] # Closed => fd <= LastStd
    BY VfsAssumption DEF StartFds, Closed, File, Fds
  <2> QED
    BY <2>1 DEF Init, DescriptorsDistinct, OpenFds, Elements
<1> QED
  BY <1>2, <1>3, <1>4, <1>5, <1>7, <1>8, <1>9, <1>10 DEF VfsInv

\* Every step keeps the invariant.
LEMMA StepHolds == VfsInv /\ [Next]_vars => VfsInv'
<1> SUFFICES ASSUME VfsInv, [Next]_vars PROVE VfsInv'
  OBVIOUS
<1>1. CASE Next
  <2>1. ~panicked /\ \E v \in VMs : VmAct(v)
    BY <1>1 DEF Next, VmAct
  <2>2. PICK v \in VMs : VmAct(v)
    BY <2>1
  <2>3. /\ TypeOK /\ CallInv /\ StdinInv /\ LowInv /\ BudgetConserved
        /\ ChargedThroughout /\ DescriptorsDistinct
    BY DEF VfsInv
  <2>4. TypeOK' /\ CallInv'
    BY <2>2, <2>3, TypeStep, CallStep
  <2>5. DescriptorsDistinct' /\ StdinInv'
    BY <2>2, <2>3, <2>4, TableStep, StdinStep
  <2>6. LowInv'
    BY <2>1, <2>2, <2>3, ActsOnLimiter, LowStep
  <2>7. BudgetConserved'
    BY <2>2, <2>3, <2>4, BudgetStep
  <2>8. ChargedThroughout'
    BY <2>2, <2>3, <2>4, ChargeStep
  <2>9. OverReleaseNeedsStdin'
    BY <2>1, <2>2, <2>3, <2>4, OverReleaseStep
  <2> QED
    BY <2>4, <2>5, <2>6, <2>7, <2>8, <2>9 DEF VfsInv
<1>2. CASE UNCHANGED vars
  <2>0. UNCHANGED limiterVars /\ UNCHANGED vfsVars
    BY <1>2 DEF vars
  <2> USE <2>0 DEF VfsInv, limiterVars, vfsVars
  <2>1. TypeOK' /\ LowInv' /\ OverReleaseNeedsStdin'
    BY DEF TypeOK, LimiterTypeOK, LowInv, OverReleaseNeedsStdin
  <2>2. CallInv' /\ StdinInv'
    BY DEF CallInv, CallOK, StdinInv
  <2>3. DescriptorsDistinct'
    BY DEF DescriptorsDistinct, OpenFds
  <2>4. BudgetConserved'
    <3>1. remaining' = remaining /\ HeldBy' = HeldBy /\ stdinCloses' = stdinCloses
      BY DEF HeldBy, Held
    <3>2. (Total = remaining + SumOver(HeldBy, VMs))'
      BY TotalIsSum, PTL
    <3>3. Total' = Total
      BY <3>1, <3>2, TotalIsSum
    <3> QED
      BY <3>1, <3>3 DEF BudgetConserved, Wrap
  <2>5. ChargedThroughout'
    <3> SUFFICES ASSUME NEW v \in VMs, ~trapped[v] PROVE Agree(Settled(v), Charge(v))'
      BY DEF ChargedThroughout
    <3>1. Contents(v)' = Contents(v)
      BY ContentsSame
    <3>2. Settled(v)' = Settled(v) /\ Charge(v)' = Charge(v) /\ stdinCloses' = stdinCloses
      BY <3>1 DEF Settled, Charge, Pending
    <3>3. Agree(Settled(v), Charge(v))
      BY DEF ChargedThroughout
    <3> QED
      BY <3>2, <3>3 DEF Agree, Wrap
  <2> QED
    BY <2>1, <2>2, <2>3, <2>4, <2>5
<1> QED
  BY <1>1, <1>2

\* The inductive invariant holds in every reachable state.
THEOREM AccountsKept == Spec => []VfsInv
  BY InitHolds, StepHolds, PTL DEF Spec

\* Every variable keeps its type: the u32 cells stay within their width.
THEOREM VfsTypeCorrect == Spec => []TypeOK
<1>1. VfsInv => TypeOK
  BY DEF VfsInv
<1> QED
  BY <1>1, AccountsKept, PTL

\* However the handles of any number of VMs interleave, consume, release and
\* Drop conserve the budget, least_remaining_memory is the low-water mark,
\* and the assertion of release_no_consumed fails only after a stdin was
\* closed.
THEOREM LimiterIsSound == Spec => []LimiterSound
<1>1. VfsInv => LimiterSound
  <2> SUFFICES ASSUME VfsInv PROVE LeastIsLowWater
    BY DEF VfsInv, LimiterSound
  <2> QED
    BY DEF VfsInv, LowInv, LeastIsLowWater
<1> QED
  BY <1>1, AccountsKept, PTL

\* alloc_fd, free_fd and pop_fd hand a descriptor out once, and a VM between
\* two calls has been charged for its growth, its descriptors and its open
\* contents.
THEOREM DescriptorsAreSound == Spec => []DescriptorsSound
<1>1. VfsInv => DescriptorsSound
  <2> SUFFICES ASSUME VfsInv, NEW v \in VMs, Resting(v)
               PROVE  consumed[v] = Wrap(grown[v] + FdCost * (next[v] - LastStd) + Contents(v) - StdinLen)
    BY DEF VfsInv, DescriptorsSound, ChargedForWhatItHolds
  <2>1. TypeOK /\ CallInv /\ ChargedThroughout
    BY DEF VfsInv
  <2>2. Wrap(Settled(v)) = Wrap(Charge(v))
    BY <2>1 DEF Resting, ChargedThroughout, Agree
  <2>3. Settled(v) = consumed[v] /\ consumed[v] \in Amounts
    BY <2>1, LimiterValues DEF Settled, Resting, TypeOK, LimiterTypeOK
  <2>4. Charge(v) = grown[v] + FdCost * (next[v] - LastStd) + Contents(v) - StdinLen
    <3>1. Pending(v) = 0
      BY DEF Pending, Resting
    <3>2. /\ grown[v] \in Int /\ FdCost * (next[v] - LastStd) \in Int /\ Contents(v) \in Int
          /\ StdinLen \in Int
      BY <2>1, FdChargeType, ContentsType, VfsAssumption DEF TypeOK
    <3> QED
      BY <3>1, <3>2 DEF Charge
  <2> QED
    BY <2>2, <2>3, <2>4, WrapSmall
<1> QED
  BY <1>1, AccountsKept, PTL
=============================================================================
