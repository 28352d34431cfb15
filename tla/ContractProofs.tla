--------------------------- MODULE ContractProofs ---------------------------
(***************************************************************************)
(* Proofs about the life of a contract: ContractInv is inductive, so for   *)
(* every number of transactions, VMs, threads and senders, and every       *)
(* balance, the properties of Contract hold.                               *)
(***************************************************************************)
EXTENDS Contract, Sums

\* The bounds are naturals, and thread 0 is the transaction's.
LEMMA Bounds == Balance \in Nat /\ MaxTx \in Nat /\ MaxVms \in Nat /\ MaxCalls \in Nat /\ 0 \in Threads
  BY ContractAssumption DEF Threads

-----------------------------------------------------------------------------
\* The number of the next VM is the least one not given out.
LEMMA FreshIs ==
  /\ Fresh \in 1..(MaxVms + 1)
  /\ Fresh \in VmIds => born[Fresh] = Unborn
  /\ \A j \in 1..(Fresh - 1) : born[j] # Unborn
<1> DEFINE T == {i \in 1..(MaxVms + 1) : i \in VmIds => born[i] = Unborn}
<1>1. T \in SUBSET Nat /\ MaxVms + 1 \in T
  BY Bounds DEF VmIds
<1>2. PICK n \in T : \A m \in T : n <= m
  BY <1>1, LeastOf
<1>3. \A j \in 1..(n - 1) : born[j] # Unborn
  <2> SUFFICES ASSUME NEW j \in 1..(n - 1), born[j] = Unborn PROVE FALSE
    OBVIOUS
  <2>1. j \in 1..(MaxVms + 1) /\ ~ (n <= j)
    BY Bounds
  <2> QED
    BY <1>2, <2>1
<1>4. \E i \in 1..(MaxVms + 1) :
        /\ i \in VmIds => born[i] = Unborn
        /\ \A j \in 1..(i - 1) : born[j] # Unborn
  BY <1>2, <1>3
<1> QED
  BY <1>4 DEF Fresh

\* The main VM of the latest transaction has the greatest number of them.
LEMMA NewestIs ==
  /\ Newest \in 0..MaxVms
  /\ Newest = 0 \/ born[Newest].kind = "main"
  /\ \A j \in (Newest + 1)..MaxVms : born[j].kind # "main"
<1> DEFINE T == {i \in 0..MaxVms : i = 0 \/ born[i].kind = "main"}
<1>1. T \in SUBSET (0..MaxVms) /\ T # {} /\ MaxVms \in Nat
  <2>1. 0 \in T
    BY Bounds
  <2> QED
    BY <2>1, Bounds
<1>2. T = {i \in 0..MaxVms : i = 0 \/ born[i].kind = "main"}
  OBVIOUS
<1> HIDE DEF T
<1>3. PICK n \in T : \A m \in T : m <= n
  BY <1>1, GreatestOf
<1>4. n \in 0..MaxVms /\ (n = 0 \/ born[n].kind = "main")
  BY <1>2
<1>5. \A j \in (n + 1)..MaxVms : born[j].kind # "main"
  <2> SUFFICES ASSUME NEW j \in (n + 1)..MaxVms, born[j].kind = "main" PROVE FALSE
    OBVIOUS
  <2>1. j \in 0..MaxVms /\ ~ (j <= n)
    BY <1>4, Bounds
  <2> QED
    BY <1>2, <1>3, <2>1
<1>6. \E i \in 0..MaxVms : (i = 0 \/ born[i].kind = "main") /\ \A j \in (i + 1)..MaxVms : born[j].kind # "main"
  BY <1>4, <1>5
<1> QED
  BY <1>6 DEF Newest

\* There is only one such number.
LEMMA NewestUnique ==
  ASSUME NEW n \in 0..MaxVms, n = 0 \/ born[n].kind = "main",
         \A j \in (n + 1)..MaxVms : born[j].kind # "main"
  PROVE  Newest = n
<1>1. /\ Newest \in 0..MaxVms
      /\ Newest = 0 \/ born[Newest].kind = "main"
      /\ \A j \in (Newest + 1)..MaxVms : born[j].kind # "main"
  BY NewestIs
<1>2. ~ (Newest < n)
  <2> SUFFICES ASSUME Newest < n PROVE FALSE
    OBVIOUS
  <2>1. n \in (Newest + 1)..MaxVms /\ n # 0
    BY <1>1, Bounds
  <2> QED
    BY <1>1, <2>1
<1>3. ~ (n < Newest)
  <2> SUFFICES ASSUME n < Newest PROVE FALSE
    OBVIOUS
  <2>1. Newest \in (n + 1)..MaxVms /\ Newest # 0
    BY <1>1, Bounds
  <2> QED
    BY <1>1, <2>1
<1> QED
  BY <1>1, <1>2, <1>3

-----------------------------------------------------------------------------
\* What the three ways to change a stack do to its VMs.

\* The running VM of t is replaced.
Updated(t, vm) ==
  /\ stacks' \in [Threads -> Seq(Vms)]
  /\ \A u \in Threads : DOMAIN stacks'[u] = DOMAIN stacks[u]
  /\ Len(stacks[t]) \in DOMAIN stacks[t] /\ stacks'[t][Len(stacks[t])] = vm
  /\ \A u \in Threads : \A i \in DOMAIN stacks[u] :
       u # t \/ i # Len(stacks[t]) => stacks'[u][i] = stacks[u][i]

\* A VM is put on top of t.
Pushed(t, vm) ==
  /\ stacks' \in [Threads -> Seq(Vms)]
  /\ \A u \in Threads : u # t => stacks'[u] = stacks[u]
  /\ DOMAIN stacks'[t] = DOMAIN stacks[t] \cup {Len(stacks[t]) + 1}
  /\ Len(stacks[t]) \in Nat /\ DOMAIN stacks[t] = 1..Len(stacks[t])
  /\ stacks'[t][Len(stacks[t]) + 1] = vm
  /\ \A i \in DOMAIN stacks[t] : stacks'[t][i] = stacks[t][i]

\* The running VM of t is taken away.
Popped(t) ==
  /\ stacks' \in [Threads -> Seq(Vms)]
  /\ \A u \in Threads : DOMAIN stacks'[u] \subseteq DOMAIN stacks[u]
  /\ \A u \in Threads : \A i \in DOMAIN stacks'[u] : stacks'[u][i] = stacks[u][i]

\* A stack without its running VM.
LEMMA FrontOf ==
  ASSUME NEW s \in Seq(Vms), s # <<>>
  PROVE  LET r == SubSeq(s, 1, Len(s) - 1) IN
         /\ Len(s) \in Nat \ {0} /\ Len(s) \in DOMAIN s /\ DOMAIN s = 1..Len(s) /\ s[Len(s)] \in Vms
         /\ r \in Seq(Vms) /\ Len(r) = Len(s) - 1 /\ DOMAIN r = 1..(Len(s) - 1)
         /\ \A i \in 1..(Len(s) - 1) : r[i] = s[i] /\ i \in DOMAIN s
<1>1. Len(s) \in Nat \ {0} /\ DOMAIN s = 1..Len(s)
  OBVIOUS
<1>2. Len(s) \in 1..Len(s)
  BY <1>1
<1>3. s[Len(s)] \in Vms
  BY <1>2
<1>4. ASSUME NEW n \in 1..Len(s)
      PROVE  LET r == SubSeq(s, 1, n - 1) IN
             /\ r \in Seq(Vms) /\ Len(r) = n - 1 /\ DOMAIN r = 1..(n - 1)
             /\ \A i \in 1..(n - 1) : r[i] = s[i] /\ i \in DOMAIN s
  OBVIOUS
<1> QED
  BY <1>1, <1>2, <1>3, <1>4

\* Update(t, vm) replaces the running VM of t and touches no other.
LEMMA UpdateIs ==
  ASSUME TypeOK, NEW t \in Threads, Alive(t), NEW vm \in Vms, Update(t, vm)
  PROVE  Updated(t, vm)
<1> DEFINE s == stacks[t]
           r == SubSeq(s, 1, Len(s) - 1)
           q == r \o <<vm>>
<1>0. stacks \in [Threads -> Seq(Vms)] /\ s \in Seq(Vms) /\ s # <<>>
  BY DEF TypeOK, Alive
<1>1. stacks' = [stacks EXCEPT ![t] = q]
  BY DEF Update
<1>2. /\ Len(s) \in Nat \ {0} /\ Len(s) \in DOMAIN s /\ DOMAIN s = 1..Len(s)
      /\ r \in Seq(Vms) /\ Len(r) = Len(s) - 1
      /\ \A i \in 1..(Len(s) - 1) : r[i] = s[i]
  BY <1>0, FrontOf
<1> HIDE DEF r
<1>3. /\ q \in Seq(Vms) /\ Len(q) = Len(r) + 1 /\ q[Len(r) + 1] = vm
      /\ \A i \in 1..Len(r) : q[i] = r[i]
  BY <1>2
<1> HIDE DEF q
<1>4. DOMAIN q = 1..Len(s) /\ q[Len(s)] = vm /\ \A i \in 1..Len(s) : i # Len(s) => q[i] = s[i]
  BY <1>2, <1>3
<1>5. stacks' \in [Threads -> Seq(Vms)]
  BY <1>0, <1>1, <1>3
<1>6. stacks'[t] = q /\ \A u \in Threads : u # t => stacks'[u] = stacks[u]
  BY <1>0, <1>1
<1>7. \A u \in Threads : DOMAIN stacks'[u] = DOMAIN stacks[u]
  BY <1>2, <1>4, <1>6
<1>8. ASSUME NEW u \in Threads, NEW i \in DOMAIN stacks[u], u # t \/ i # Len(stacks[t])
      PROVE  stacks'[u][i] = stacks[u][i]
  BY <1>2, <1>4, <1>6, <1>8
<1> QED
  BY <1>2, <1>4, <1>5, <1>6, <1>7, <1>8 DEF Updated

\* Starting a VM puts it on top of a stack and touches nothing below.
LEMMA PushIs ==
  ASSUME TypeOK, NEW t \in Threads, NEW vm \in Vms, stacks' = [stacks EXCEPT ![t] = @ \o <<vm>>]
  PROVE  Pushed(t, vm)
<1> DEFINE s == stacks[t]
           q == s \o <<vm>>
<1>0. stacks \in [Threads -> Seq(Vms)] /\ s \in Seq(Vms)
  BY DEF TypeOK
<1>1. /\ q \in Seq(Vms) /\ Len(q) = Len(s) + 1 /\ q[Len(s) + 1] = vm
      /\ \A i \in 1..Len(s) : q[i] = s[i]
  BY <1>0
<1>2. Len(s) \in Nat /\ DOMAIN s = 1..Len(s) /\ DOMAIN q = 1..Len(q)
  BY <1>0, <1>1
<1>3. stacks'[t] = q /\ \A u \in Threads : u # t => stacks'[u] = stacks[u]
  BY <1>0
<1>4. stacks' \in [Threads -> Seq(Vms)]
  BY <1>0, <1>1
<1> HIDE DEF q
<1>5. DOMAIN q = DOMAIN s \cup {Len(s) + 1}
  BY <1>1, <1>2
<1> QED
  BY <1>1, <1>2, <1>3, <1>4, <1>5 DEF Pushed

\* Finish takes the running VM off and leaves the others as they were.
LEMMA PopIs ==
  ASSUME TypeOK, NEW t \in Threads, NEW ok, Finish(t, ok)
  PROVE  Popped(t) /\ Running(t) \in Vms /\ Len(stacks[t]) \in DOMAIN stacks[t]
         /\ (SubSeq(stacks[t], 1, Len(stacks[t]) - 1) = <<>> => Len(stacks[t]) = 1)
<1> DEFINE s == stacks[t]
           r == SubSeq(s, 1, Len(s) - 1)
<1>0. stacks \in [Threads -> Seq(Vms)] /\ s \in Seq(Vms) /\ s # <<>>
  BY DEF TypeOK, Finish, Alive
<1>1. /\ Len(s) \in Nat \ {0} /\ Len(s) \in DOMAIN s /\ DOMAIN s = 1..Len(s) /\ s[Len(s)] \in Vms
      /\ r \in Seq(Vms) /\ Len(r) = Len(s) - 1 /\ DOMAIN r = 1..(Len(s) - 1)
      /\ \A i \in 1..(Len(s) - 1) : r[i] = s[i] /\ i \in DOMAIN s
  BY <1>0, FrontOf
<1>2. stacks' = [stacks EXCEPT ![t] = IF r = <<>> THEN <<>> ELSE [r EXCEPT ![Len(r)] = @]]
  BY DEF Finish, Resumed
<1> HIDE DEF r
<1>3. [r EXCEPT ![Len(r)] = @] = r
  BY <1>1
<1>4. stacks' = [stacks EXCEPT ![t] = r]
  BY <1>2, <1>3
<1>5. stacks' \in [Threads -> Seq(Vms)] /\ stacks'[t] = r /\ \A u \in Threads : u # t => stacks'[u] = stacks[u]
  BY <1>0, <1>1, <1>4
<1>6. \A u \in Threads : DOMAIN stacks'[u] \subseteq DOMAIN stacks[u]
  BY <1>1, <1>5
<1>7. \A u \in Threads : \A i \in DOMAIN stacks'[u] : stacks'[u][i] = stacks[u][i]
  BY <1>1, <1>5
<1>8. r = <<>> => Len(s) = 1
  BY <1>1
<1> QED
  BY <1>1, <1>5, <1>6, <1>7, <1>8 DEF Popped, Running, r

-----------------------------------------------------------------------------
\* Copies of the storage.

\* A contract that is not deployed holds nobody's writes.
LEMMA VacantType == Vacant \in Mem /\ Authors(Vacant) = {}
  BY Bounds DEF Vacant, Mem, Authors

\* The running VM is the last of its stack.
LEMMA RunningIs ==
  ASSUME TypeOK, NEW t \in Threads, Alive(t)
  PROVE  /\ Running(t) \in Vms /\ Running(t) = stacks[t][Len(stacks[t])]
         /\ Len(stacks[t]) \in DOMAIN stacks[t]
<1>1. stacks[t] \in Seq(Vms) /\ stacks[t] # <<>>
  BY DEF TypeOK, Alive
<1> QED
  BY <1>1, FrontOf DEF Running

\* A write changes one slot, and puts no name but the writer's into it.
LEMMA WriteIs ==
  ASSUME NEW vm \in Vms, NEW slot \in Slots, NEW value \in Contents(slot, vm)
  PROVE  LET mem == [vm.mem EXCEPT ![slot] = value] IN
         /\ mem \in Mem
         /\ Authors(mem) \subseteq Authors(vm.mem) \cup {vm.id}
         /\ vm.mem.code # 0 => mem.code # 0
         /\ \A s \in Slots : s # slot => mem[s] = vm.mem[s]
<1>1. /\ vm.mem \in Mem /\ vm.id \in 1..MaxVms /\ MaxVms \in Nat
      /\ vm.id \in 0..MaxVms /\ vm.id # 0
  BY Bounds DEF Vms, VmIds
<1> DEFINE m == vm.mem
           mem == [m EXCEPT ![slot] = value]
<1>2. CASE slot = "locked"
  <2>1. value \in SUBSET Slots
    <3>1. Contents(slot, vm) = {{}, vm.mem.locked \cup {"data"}}
      BY <1>2 DEF Contents
    <3> QED
      BY <1>1, <3>1 DEF Mem, Slots
  <2> QED
    BY <1>1, <1>2, <2>1 DEF Mem, Authors, Slots, Metadata
<1>3. CASE slot = "upgraders"
  <2>1. value \in SUBSET Senders
    <3>1. Contents(slot, vm) = {{x} : x \in Senders}
      BY <1>3, Zenon DEF Contents
    <3> QED
      BY <3>1
  <2> QED
    BY <1>1, <1>3, <2>1 DEF Mem, Authors, Slots, Metadata
<1>4. CASE slot \in {"code", "data"}
  <2>1. value = vm.id
    <3>1. slot # "locked" /\ slot # "upgraders"
      BY <1>4
    <3>2. Contents(slot, vm) = {vm.id}
      BY <1>4, <3>1, Zenon DEF Contents
    <3> QED
      BY <3>2
  <2>2. CASE slot = "code"
    BY <1>1, <2>1, <2>2 DEF Mem, Authors, Slots, Metadata
  <2>3. CASE slot = "data"
    BY <1>1, <2>1, <2>3 DEF Mem, Authors, Slots, Metadata
  <2> QED
    BY <1>4, <2>2, <2>3
<1> QED
  BY <1>2, <1>3, <1>4 DEF Slots, Metadata

-----------------------------------------------------------------------------
\* Numbers.

BornType == [kind : Kinds, addr : {Self, "other"}, hidden : BOOLEAN]

NewestOK ==
  /\ Newest \in 0..MaxVms
  /\ Newest = 0 \/ born[Newest].kind = "main"
  /\ \A j \in (Newest + 1)..MaxVms : born[j].kind # "main"

\* Newest is the main VM with the greatest number, 0 before there is one.
LEMMA NewestHolds == NewestOK
  BY NewestIs DEF NewestOK

\* Newest changes only with the main VMs.
LEMMA NewestSame ==
  ASSUME \A i \in VmIds : born'[i].kind = "main" <=> born[i].kind = "main"
  PROVE  Newest' = Newest
<1>1. NewestOK'
  BY NewestHolds, PTL
<1> DEFINE n == Newest'
<1>2. /\ n \in 0..MaxVms /\ (n = 0 \/ born'[n].kind = "main")
      /\ \A j \in (n + 1)..MaxVms : born'[j].kind # "main"
  BY <1>1 DEF NewestOK
<1> HIDE DEF n
<1>3. n = 0 \/ born[n].kind = "main"
  BY <1>2, Bounds DEF VmIds
<1>4. \A j \in (n + 1)..MaxVms : born[j].kind # "main"
  <2> SUFFICES ASSUME NEW j \in (n + 1)..MaxVms PROVE born[j].kind # "main"
    OBVIOUS
  <2>1. j \in VmIds
    BY <1>2, Bounds DEF VmIds
  <2> QED
    BY <1>2, <2>1
<1>5. Newest = n
  BY <1>2, <1>3, <1>4, NewestUnique
<1> QED
  BY <1>5 DEF n

\* No number after the next one was given out.
LEMMA FreshIsLast ==
  ASSUME BornInv, Fresh \in VmIds
  PROVE  \A j \in VmIds : j > Fresh => born[j] = Unborn
  BY FreshIs DEF BornInv

\* Giving out the next number keeps them in order.
LEMMA BirthKeepsOrder ==
  ASSUME TypeOK, BornInv, Fresh \in VmIds, NEW what, what # Unborn,
         born' = [born EXCEPT ![Fresh] = what]
  PROVE  /\ \A i, j \in VmIds : i < j /\ born'[j] # Unborn => born'[i] # Unborn
         /\ born'[Fresh] = what /\ \A i \in VmIds : i # Fresh => born'[i] = born[i]
<1>1. born'[Fresh] = what /\ \A i \in VmIds : i # Fresh => born'[i] = born[i]
  BY DEF TypeOK
<1>2. \A j \in VmIds : j > Fresh => born[j] = Unborn
  BY FreshIsLast
<1>3. \A j \in VmIds : j < Fresh => born[j] # Unborn
  <2>1. \A j \in 1..(Fresh - 1) : born[j] # Unborn
    BY FreshIs
  <2> QED
    BY <2>1, Bounds DEF VmIds
<1>4. ASSUME NEW i \in VmIds, NEW j \in VmIds, i < j, born'[j] # Unborn PROVE born'[i] # Unborn
  <2>1. i \in Int /\ j \in Int /\ Fresh \in Int
    BY Bounds DEF VmIds
  <2>2. ~ (j > Fresh)
    BY <1>1, <1>2, <1>4, <2>1
  <2>3. i < Fresh
    BY <1>4, <2>1, <2>2
  <2> QED
    BY <1>1, <1>3, <2>1, <2>3
<1> QED
  BY <1>1, <1>4

\* What a copy of the storage holds was written by VMs.
LEMMA AuthorsAreVms == ASSUME NEW mem \in Mem PROVE Authors(mem) \subseteq VmIds
  BY Bounds DEF Mem, Authors, VmIds

\* The parts of a live VM have their types.
LEMMA FrameIs ==
  ASSUME TypeOK, NEW t \in Threads, NEW i \in DOMAIN stacks[t]
  PROVE  /\ stacks[t][i] \in Vms /\ i \in 1..Len(stacks[t]) /\ Len(stacks[t]) \in Nat
         /\ stacks[t][i].mem \in Mem /\ stacks[t][i].id \in VmIds
         /\ DOMAIN stacks[t] = 1..Len(stacks[t]) /\ 1 \in DOMAIN stacks[t] /\ stacks[t] # <<>>
<1>1. stacks[t] \in Seq(Vms)
  BY DEF TypeOK
<1>2. stacks[t][i] \in Vms /\ i \in 1..Len(stacks[t]) /\ DOMAIN stacks[t] = 1..Len(stacks[t])
  BY <1>1
<1>3. stacks[t] # <<>> /\ Len(stacks[t]) \in Nat
  BY <1>1, <1>2
<1>4. 1 \in 1..Len(stacks[t])
  BY <1>2, <1>3
<1> QED
  BY <1>2, <1>3, <1>4 DEF Vms

\* The numbers below a VM do not change while it is not taken away.
LEMMA IdsSame ==
  ASSUME TypeOK, NEW t \in Threads, NEW i \in DOMAIN stacks[t],
         \A j \in DOMAIN stacks[t] : j <= i => stacks'[t][j].id = stacks[t][j].id
  PROVE  IdsUpTo(t, i)' = IdsUpTo(t, i)
<1>1. \A j \in 1..i : j \in DOMAIN stacks[t] /\ j <= i
  BY FrameIs
<1>2. \A j \in 1..i : stacks'[t][j].id = stacks[t][j].id
  BY <1>1
<1> QED
  BY <1>2 DEF IdsUpTo

\* A sub-VM starts.
LEMMA SpawnStep ==
  ASSUME ContractInv, NEW t \in Threads, NEW vm \in Vms, NEW what \in BornType,
         Spawn(t, vm, what), vm.id = Fresh, vm.spent = 0,
         what.kind \in {"call", "sandbox", "nondet"}, what.hidden => ~ vm.conf.det,
         \A a \in Authors(vm.mem) : born[a] # Unborn /\ ~ born[a].hidden,
         Authors(vm.mem) \subseteq Authors(store) \cup IdsUpTo(t, Len(stacks[t])) \cup {Newest},
         vm.conf.spawn => Authors(vm.mem) \subseteq Authors(store) \cup {Newest},
         ~ (vm.conf.spawn /\ vm.conf.write),
         t = 0 => stacks[0] # <<>>, tx.role # "none"
  PROVE  ContractInv'
<1>1. TypeOK /\ BornInv /\ CopyInv /\ MetaInv
  BY DEF ContractInv
<1>2. /\ Fresh \in VmIds /\ stacks' = [stacks EXCEPT ![t] = @ \o <<vm>>]
      /\ born' = [born EXCEPT ![Fresh] = what]
      /\ UNCHANGED <<store, tx, locks, outcome, posted, opened>>
  BY DEF Spawn
<1>3. Pushed(t, vm)
  BY <1>1, <1>2, PushIs
<1>t. PICK top \in Nat : top = Len(stacks[t]) + 1
  BY <1>3 DEF Pushed
<1>p. /\ stacks' \in [Threads -> Seq(Vms)]
      /\ \A u \in Threads : u # t => stacks'[u] = stacks[u]
      /\ DOMAIN stacks'[t] = DOMAIN stacks[t] \cup {top} /\ stacks'[t][top] = vm
      /\ Len(stacks[t]) \in Nat /\ DOMAIN stacks[t] = 1..Len(stacks[t])
      /\ \A i \in DOMAIN stacks[t] : stacks'[t][i] = stacks[t][i]
  BY <1>3, <1>t DEF Pushed
<1>q. \A u \in Threads : \A i \in DOMAIN stacks[u] : i \in DOMAIN stacks'[u] /\ stacks'[u][i] = stacks[u][i]
  BY <1>p
<1>r. \A u \in Threads : \A i \in DOMAIN stacks'[u] : i \in DOMAIN stacks[u] \/ (u = t /\ i = top)
  BY <1>p
<1>4. born[Fresh] = Unborn /\ what # Unborn
  <2>1. Unborn.kind = "none"
    BY DEF Unborn, Born
  <2>2. born[Fresh] = Unborn
    BY <1>2, FreshIs
  <2> QED
    BY <2>1, <2>2
<1>5. /\ \A i, j \in VmIds : i < j /\ born'[j] # Unborn => born'[i] # Unborn
      /\ born'[Fresh] = what /\ \A i \in VmIds : i # Fresh => born'[i] = born[i]
  BY <1>1, <1>2, <1>4, BirthKeepsOrder
<1>6. TypeOK'
  BY <1>1, <1>2, <1>p DEF TypeOK, BornType
<1>7. BornInv'
  <2>1. posted' = posted
    BY <1>2
  <2>2. ASSUME NEW i \in VmIds
        PROVE  /\ born'[i].kind = "main" => ~ born'[i].hidden
               /\ born'[i] = Unborn => posted'[i] = [any |-> FALSE, value |-> 0]
               /\ born'[i].hidden => ~ posted'[i].any
               /\ posted'[i].value <= Balance
    BY <1>1, <1>4, <1>5, <2>1 DEF BornInv
  <2> QED
    BY <1>5, <2>2 DEF BornInv
<1>8. \A i \in VmIds : born'[i].kind = "main" <=> born[i].kind = "main"
  BY <1>4, <1>5 DEF Unborn, Born
<1>9. Newest' = Newest /\ Mains' = Mains /\ Authors(store)' = Authors(store)
  BY <1>2, <1>8, NewestSame DEF Mains, Authors
\* The VMs that were there.
<1>10. ASSUME NEW u \in Threads, NEW i \in DOMAIN stacks[u]
       PROVE  LiveVm(u, i)' /\ CopyOfVm(u, i)' /\ stacks[u][i].id # Fresh
  <2> DEFINE o == stacks[u][i]
  <2>1. LiveVm(u, i) /\ CopyOfVm(u, i) /\ o \in Vms /\ o.id \in VmIds /\ o.mem \in Mem
    BY <1>1, FrameIs DEF CopyInv
  <2>2. stacks'[u][i] = o
    BY <1>q
  <2>3. o.id # Fresh /\ born'[o.id] = born[o.id]
    BY <1>4, <1>5, <2>1 DEF LiveVm
  <2>4. ASSUME NEW w \in Threads, NEW j \in DOMAIN stacks'[w], stacks'[w][j].id = o.id PROVE w = u /\ j = i
    <3>1. ~ (w = t /\ j = top)
      BY <1>p, <2>3, <2>4
    <3>2. j \in DOMAIN stacks[w] /\ stacks'[w][j] = stacks[w][j]
      BY <1>q, <1>r, <3>1
    <3> QED
      BY <2>1, <2>4, <3>2 DEF LiveVm
  <2>5. LiveVm(u, i)'
    BY <1>2, <2>1, <2>2, <2>3, <2>4 DEF LiveVm
  <2>6. \A a \in Authors(o.mem) : born'[a] # Unborn /\ ~ born'[a].hidden
    <3>1. \A a \in Authors(o.mem) : a \in VmIds /\ born[a] # Unborn /\ ~ born[a].hidden
      BY <2>1, AuthorsAreVms DEF CopyOfVm
    <3> QED
      BY <1>4, <1>5, <3>1
  <2>7. IdsUpTo(u, i)' = IdsUpTo(u, i)
    BY <1>1, <1>q, IdsSame
  <2>8. CopyOfVm(u, i)'
    BY <1>9, <2>1, <2>2, <2>6, <2>7 DEF CopyOfVm, Authors
  <2> QED
    BY <2>3, <2>5, <2>8
\* The new one.
<1>11. LiveVm(t, top)'
  <2>1. posted'[Fresh].value = 0
    BY <1>1, <1>2, <1>4 DEF BornInv
  <2>2. ASSUME NEW w \in Threads, NEW j \in DOMAIN stacks'[w], stacks'[w][j].id = Fresh PROVE w = t /\ j = top
    BY <1>10, <1>q, <1>r, <2>2
  <2> QED
    BY <1>4, <1>5, <1>p, <2>1, <2>2 DEF LiveVm
<1>12. CopyOfVm(t, top)'
  <2>1. \A a \in Authors(vm.mem) : born'[a] # Unborn /\ ~ born'[a].hidden
    <3>1. \A a \in Authors(vm.mem) : a \in VmIds
      BY AuthorsAreVms DEF Vms
    <3> QED
      BY <1>4, <1>5, <3>1
  <2>2. IdsUpTo(t, Len(stacks[t])) \subseteq IdsUpTo(t, top)'
    <3>1. \A j \in 1..Len(stacks[t]) : j \in 1..top /\ stacks'[t][j] = stacks[t][j]
      BY <1>p, <1>t
    <3> QED
      BY <3>1 DEF IdsUpTo
  <2>3. ~ (t = 0 /\ top = 1)
    <3> SUFFICES ASSUME t = 0, top = 1 PROVE FALSE
      OBVIOUS
    <3>1. stacks[0] \in Seq(Vms) /\ Len(stacks[0]) = 0
      BY <1>1, <1>p, <1>t, Bounds DEF TypeOK
    <3> QED
      BY <3>1
  <2> QED
    BY <1>9, <1>p, <2>1, <2>2, <2>3 DEF CopyOfVm, Authors
<1>13. CopyInv'
  <2>1. \A u \in Threads : \A i \in DOMAIN stacks'[u] : LiveVm(u, i)' /\ CopyOfVm(u, i)'
    BY <1>10, <1>11, <1>12, <1>r
  <2>2. Authors(store)' \subseteq Mains'
    BY <1>1, <1>9 DEF CopyInv
  <2>3. outcome' # <<>> => Authors(outcome[1].mem)' \subseteq Mains'
    BY <1>1, <1>2, <1>9 DEF CopyInv, Authors
  <2> QED
    BY <2>1, <2>2, <2>3 DEF CopyInv
<1>14. MetaInv'
  <2>1. stacks'[0] # <<>> => stacks[0] # <<>>
    BY <1>p, Bounds
  <2>2. stacks[0] # <<>> => stacks'[0][1] = stacks[0][1]
    <3> SUFFICES ASSUME stacks[0] # <<>> PROVE 1 \in DOMAIN stacks[0]
      BY <1>q, Bounds
    <3>1. stacks[0] \in Seq(Vms)
      BY <1>1, Bounds DEF TypeOK
    <3>2. Len(stacks[0]) \in DOMAIN stacks[0]
      BY <3>1, FrontOf
    <3> QED
      BY <1>1, <3>2, Bounds, FrameIs
  <2> QED
    BY <1>1, <1>2, <2>1, <2>2 DEF MetaInv, Kept, LockedSlotsForSender
<1> QED
  BY <1>6, <1>7, <1>13, <1>14 DEF ContractInv

\* What is known of the running VM of a thread.
LEMMA RunningHas ==
  ASSUME ContractInv, NEW t \in Threads, Alive(t)
  PROVE  LET vm == Running(t) IN
         /\ vm \in Vms /\ vm.id \in VmIds /\ vm.mem \in Mem /\ vm.conf \in Confs
         /\ vm = stacks[t][Len(stacks[t])] /\ Len(stacks[t]) \in DOMAIN stacks[t]
         /\ LiveVm(t, Len(stacks[t])) /\ CopyOfVm(t, Len(stacks[t]))
         /\ tx.role # "none"
<1>1. TypeOK /\ CopyInv /\ MetaInv
  BY DEF ContractInv
<1>2. /\ Running(t) \in Vms /\ Running(t) = stacks[t][Len(stacks[t])]
      /\ Len(stacks[t]) \in DOMAIN stacks[t]
  BY <1>1, RunningIs
<1>3. LiveVm(t, Len(stacks[t])) /\ CopyOfVm(t, Len(stacks[t]))
  BY <1>1, <1>2 DEF CopyInv
<1>4. tx.role # "none"
  BY <1>1 DEF MetaInv, Quiet, Alive
<1> QED
  BY <1>2, <1>3, <1>4 DEF Vms

\* What is committed was written by VMs that are not hidden.
LEMMA StoreAuthors ==
  ASSUME ContractInv PROVE \A a \in Authors(store) : born[a] # Unborn /\ ~ born[a].hidden
<1>1. \A a \in Authors(store) : a \in VmIds /\ born[a].kind = "main"
  BY DEF ContractInv, CopyInv, Mains
<1>2. Unborn.kind # "main"
  BY DEF Unborn, Born
<1> QED
  BY <1>1, <1>2 DEF ContractInv, BornInv

\* A call of a contract (genlayer_sdk.rs call_contract).
LEMMA CallStep ==
  ASSUME ContractInv, NEW t \in Threads, NEW addr \in {Self, "other"}, CallContract(t, addr)
  PROVE  ContractInv'
<1> DEFINE vm == Running(t)
           conf == [vm.conf EXCEPT !.write = FALSE]
           mem == IF addr = Self THEN store ELSE Vacant
           new == VM(Fresh, conf, mem)
           what == Born("call", addr, HiddenIn(vm))
<1>1. Alive(t) /\ vm.conf.det /\ Spawn(t, new, what)
  BY DEF CallContract
<1>2. /\ vm \in Vms /\ vm.id \in VmIds /\ vm.conf \in Confs /\ vm = stacks[t][Len(stacks[t])]
      /\ LiveVm(t, Len(stacks[t])) /\ tx.role # "none"
  BY <1>1, RunningHas
<1>3. Fresh \in VmIds /\ store \in Mem /\ born[vm.id] \in BornType
  BY <1>1, <1>2 DEF Spawn, ContractInv, TypeOK, BornType
<1>4. mem \in Mem /\ Authors(mem) \subseteq Authors(store)
  BY <1>3, VacantType
<1>5. conf \in Confs /\ ~ conf.write /\ what \in BornType /\ what.kind = "call" /\ ~ what.hidden
  BY <1>1, <1>2, <1>3 DEF Confs, BornType, Born, Kinds, HiddenIn, LiveVm
<1> HIDE DEF mem, conf
<1>6. new \in Vms /\ new.id = Fresh /\ new.spent = 0 /\ new.conf = conf /\ new.mem = mem
  BY <1>3, <1>4, <1>5 DEF VM, Vms
<1>7. t = 0 => stacks[0] # <<>>
  BY <1>1 DEF Alive
<1> HIDE DEF new, what
<1> QED
  BY <1>1, <1>2, <1>4, <1>5, <1>6, <1>7, StoreAuthors, SpawnStep

\* A sandbox, with or without the right to write (genlayer_sdk.rs sandbox).
LEMMA SandboxStep ==
  ASSUME ContractInv, NEW t \in Threads, NEW allow \in BOOLEAN, Sandbox(t, allow)
  PROVE  ContractInv'
<1> DEFINE vm == Running(t)
           conf == Conf(vm.conf.det, vm.conf.write /\ allow, vm.conf.send /\ allow, FALSE, FALSE)
           new == VM(Fresh, conf, vm.mem)
           what == Born("sandbox", born[vm.id].addr, HiddenIn(vm))
<1>1. Alive(t) /\ Spawn(t, new, what)
  BY DEF Sandbox
<1>2. /\ vm \in Vms /\ vm.id \in VmIds /\ vm.mem \in Mem /\ vm.conf \in Confs
      /\ vm = stacks[t][Len(stacks[t])]
      /\ LiveVm(t, Len(stacks[t])) /\ CopyOfVm(t, Len(stacks[t])) /\ tx.role # "none"
  BY <1>1, RunningHas
<1>3. Fresh \in VmIds /\ born[vm.id] \in BornType
  BY <1>1, <1>2 DEF Spawn, ContractInv, TypeOK, BornType
<1>4. /\ conf \in Confs /\ ~ conf.spawn /\ conf.det = vm.conf.det
      /\ what \in BornType /\ what.kind = "sandbox" /\ what.hidden = born[vm.id].hidden
  BY <1>2, <1>3 DEF Conf, Confs, BornType, Born, Kinds, HiddenIn
<1>5. what.hidden => ~ conf.det
  BY <1>2, <1>4 DEF LiveVm
<1>6. /\ \A a \in Authors(vm.mem) : born[a] # Unborn /\ ~ born[a].hidden
      /\ Authors(vm.mem) \subseteq Authors(store) \cup IdsUpTo(t, Len(stacks[t])) \cup {Newest}
  BY <1>2 DEF CopyOfVm
<1>7. t = 0 => stacks[0] # <<>>
  BY <1>1 DEF Alive
<1> HIDE DEF vm, conf
<1>8. new \in Vms /\ new.id = Fresh /\ new.spent = 0 /\ new.conf = conf /\ new.mem = vm.mem
  BY <1>2, <1>3, <1>4 DEF VM, Vms
<1> HIDE DEF new, what
<1> QED
  BY <1>1, <1>2, <1>4, <1>5, <1>6, <1>7, <1>8, SpawnStep

\* A non-deterministic block, which a validator runs on a thread of its own
\* (genlayer_sdk.rs run_nondet).
LEMMA NondetStep ==
  ASSUME ContractInv, NEW t \in Threads, NEW free \in Threads, RunNondet(t, free)
  PROVE  ContractInv' \/ UNCHANGED vars
<1> DEFINE vm == Running(t)
           conf == NondetConf(vm.conf)
           new == VM(Fresh, conf, vm.mem)
           what == Born("nondet", born[vm.id].addr, TRUE)
<1>1. CASE UNCHANGED vars
  BY <1>1
<1>2. CASE (free = t \/ (free # 0 /\ stacks[free] = <<>>)) /\ Spawn(free, new, what)
  <2>1. Alive(t) /\ vm.conf.spawn
    BY DEF RunNondet
  <2>2. /\ vm \in Vms /\ vm.id \in VmIds /\ vm.mem \in Mem
        /\ vm = stacks[t][Len(stacks[t])]
        /\ CopyOfVm(t, Len(stacks[t])) /\ tx.role # "none"
    BY <2>1, RunningHas
  <2>3. Fresh \in VmIds /\ born[vm.id] \in BornType
    BY <1>2, <2>2 DEF Spawn, ContractInv, TypeOK, BornType
  <2>4. /\ conf \in Confs /\ ~ conf.spawn /\ ~ conf.det
        /\ what \in BornType /\ what.kind = "nondet"
    BY <2>3 DEF NondetConf, Conf, Confs, BornType, Born, Kinds
  <2>5. /\ \A a \in Authors(vm.mem) : born[a] # Unborn /\ ~ born[a].hidden
        /\ Authors(vm.mem) \subseteq Authors(store) \cup {Newest}
    BY <2>1, <2>2 DEF CopyOfVm
  <2>6. free = 0 => stacks[0] # <<>>
    BY <1>2, <2>1 DEF Alive
  <2> HIDE DEF vm, conf
  <2>7. new \in Vms /\ new.id = Fresh /\ new.spent = 0 /\ new.conf = conf /\ new.mem = vm.mem
    BY <2>2, <2>3, <2>4 DEF VM, Vms
  <2> HIDE DEF new, what
  <2> QED
    BY <1>2, <2>2, <2>4, <2>5, <2>6, <2>7, SpawnStep
<1> QED
  BY <1>1, <1>2 DEF RunNondet

-----------------------------------------------------------------------------
\* The running VM writes or sends.
LEMMA UpdateStep ==
  ASSUME ContractInv, NEW t \in Threads, Alive(t), Called, NEW new \in Vms, Update(t, new),
         new.id = Running(t).id, new.conf = Running(t).conf,
         UNCHANGED <<store, locks, outcome, born, opened>>,
         posted' \in [VmIds -> [any : BOOLEAN, value : Nat]],
         posted'[new.id].value = new.spent, new.spent <= Balance,
         \A i \in VmIds : i # new.id => posted'[i] = posted[i],
         born[new.id].hidden => ~ posted'[new.id].any,
         \/ Authors(new.mem) = Authors(Running(t).mem)
         \/ /\ Authors(new.mem) \subseteq Authors(Running(t).mem) \cup {new.id}
            /\ new.conf.det /\ new.conf.write,
         t = 0 /\ Len(stacks[0]) = 1 => Kept(new.mem, new.meta)
  PROVE  ContractInv'
<1>1. TypeOK /\ BornInv /\ CopyInv /\ MetaInv
  BY DEF ContractInv
<1> DEFINE vm == Running(t)
<1>2. /\ vm \in Vms /\ vm.id \in VmIds /\ vm.mem \in Mem
      /\ vm = stacks[t][Len(stacks[t])] /\ Len(stacks[t]) \in DOMAIN stacks[t]
      /\ LiveVm(t, Len(stacks[t])) /\ CopyOfVm(t, Len(stacks[t])) /\ tx.role # "none"
  BY RunningHas
<1>3. Updated(t, new)
  BY <1>1, UpdateIs
<1>t. PICK top \in Nat : top = Len(stacks[t])
  BY <1>1 DEF TypeOK
<1>p. /\ stacks' \in [Threads -> Seq(Vms)]
      /\ \A u \in Threads : DOMAIN stacks'[u] = DOMAIN stacks[u]
      /\ top \in DOMAIN stacks[t] /\ stacks'[t][top] = new /\ stacks[t][top] = vm
      /\ \A u \in Threads : \A i \in DOMAIN stacks[u] :
           u # t \/ i # top => stacks'[u][i] = stacks[u][i]
      /\ LiveVm(t, top) /\ CopyOfVm(t, top)
  BY <1>2, <1>3, <1>t DEF Updated
<1> HIDE DEF vm
<1>q. \A u \in Threads : \A i \in DOMAIN stacks[u] : stacks'[u][i].id = stacks[u][i].id
  BY <1>p DEF vm
<1>4. /\ tx' = [tx EXCEPT !.calls = @ + 1] /\ tx.calls < MaxCalls
      /\ UNCHANGED <<store, locks, outcome, born, opened>>
  BY DEF Called
<1>5. /\ tx'.role = tx.role /\ tx'.init = tx.init /\ tx'.sender = tx.sender
      /\ tx' \in [n : 0..MaxTx, sender : Senders \cup {"none"}, init : BOOLEAN,
                  role : {"none", "leader", "validator", "sync"}, calls : 0..MaxCalls]
  <2>1. tx \in [n : 0..MaxTx, sender : Senders \cup {"none"}, init : BOOLEAN,
                 role : {"none", "leader", "validator", "sync"}, calls : 0..MaxCalls]
    BY <1>1 DEF TypeOK
  <2>2. tx.calls + 1 \in 0..MaxCalls
    BY <1>4, <2>1, Bounds
  <2> QED
    BY <1>4, <2>1, <2>2
<1>6. TypeOK'
  BY <1>1, <1>4, <1>5, <1>p DEF TypeOK
<1>7. BornInv'
  <2>1. new.id \in VmIds /\ born[new.id] # Unborn
    BY <1>2, <1>p DEF LiveVm, vm
  <2>2. ASSUME NEW i \in VmIds
        PROVE  /\ born[i].kind = "main" => ~ born[i].hidden
               /\ born[i] = Unborn => posted'[i] = [any |-> FALSE, value |-> 0]
               /\ born[i].hidden => ~ posted'[i].any
               /\ posted'[i].value <= Balance
    <3>1. CASE i = new.id
      BY <1>1, <2>1, <3>1 DEF BornInv
    <3>2. CASE i # new.id
      BY <1>1, <3>2 DEF BornInv
    <3> QED
      BY <3>1, <3>2
  <2> QED
    BY <1>1, <1>4, <2>2 DEF BornInv
<1>9. Newest' = Newest /\ Mains' = Mains /\ Authors(store)' = Authors(store)
  BY <1>4, NewestSame DEF Mains, Authors
<1>10. ASSUME NEW u \in Threads, NEW i \in DOMAIN stacks[u] PROVE LiveVm(u, i)'
  <2>1. LiveVm(u, i) /\ stacks'[u][i].id = stacks[u][i].id
    BY <1>1, <1>q DEF CopyInv
  <2>2. ASSUME NEW w \in Threads, NEW j \in DOMAIN stacks'[w], stacks'[w][j].id = stacks'[u][i].id
        PROVE  w = u /\ j = i
    <3>1. j \in DOMAIN stacks[w] /\ stacks[w][j].id = stacks[u][i].id
      BY <1>p, <1>q, <2>1, <2>2
    <3> QED
      BY <2>1, <3>1 DEF LiveVm
  <2>3. CASE u = t /\ i = top
    BY <1>4, <1>p, <2>1, <2>2, <2>3 DEF LiveVm, vm
  <2>4. CASE u # t \/ i # top
    <3>1. stacks'[u][i] = stacks[u][i]
      BY <1>p, <2>4
    <3>2. stacks[u][i].id # new.id /\ stacks[u][i].id \in VmIds
      BY <1>1, <1>p, <2>4, FrameIs DEF LiveVm, vm
    <3> QED
      BY <1>4, <2>1, <2>2, <3>1, <3>2 DEF LiveVm
  <2> QED
    BY <2>3, <2>4
<1>11. ASSUME NEW u \in Threads, NEW i \in DOMAIN stacks[u] PROVE CopyOfVm(u, i)'
  <2>1. CopyOfVm(u, i)
    BY <1>1 DEF CopyInv
  <2>2. IdsUpTo(u, i)' = IdsUpTo(u, i)
    BY <1>1, <1>q, IdsSame
  <2>3. CASE u # t \/ i # top
    <3>1. stacks'[u][i] = stacks[u][i]
      BY <1>p, <2>3
    <3> QED
      BY <1>4, <1>9, <2>1, <2>2, <3>1 DEF CopyOfVm, Authors
  <2>4. CASE u = t /\ i = top /\ Authors(new.mem) = Authors(vm.mem)
    BY <1>4, <1>9, <1>p, <2>1, <2>2, <2>4, ZenonT(40) DEF CopyOfVm, Authors, vm
  <2>5. CASE /\ u = t /\ i = top /\ new.conf.det /\ new.conf.write
             /\ Authors(new.mem) \subseteq Authors(vm.mem) \cup {new.id}
    <3>1. born[new.id] # Unborn /\ ~ born[new.id].hidden
      BY <1>p, <2>5 DEF LiveVm, vm
    <3>2. new.id \in IdsUpTo(t, top)
      <4>1. top \in 1..top
        BY <1>1, <1>p, FrameIs
      <4> QED
        BY <1>p, <4>1 DEF IdsUpTo, vm
    <3>3. new.conf.spawn \/ (t = 0 /\ top = 1) => new.id = Newest
      BY <1>p, <2>5 DEF CopyOfVm, vm
    <3>4. \A a \in Authors(new.mem) : born'[a] # Unborn /\ ~ born'[a].hidden
      BY <1>4, <1>p, <2>5, <3>1 DEF CopyOfVm
    <3>5. Authors(new.mem) \subseteq Authors(store) \cup IdsUpTo(t, top) \cup {Newest}
      BY <1>p, <2>5, <3>2 DEF CopyOfVm
    <3>6. new.conf.spawn \/ (t = 0 /\ top = 1) => Authors(new.mem) \subseteq Authors(store) \cup {Newest}
      BY <1>p, <2>5, <3>3 DEF CopyOfVm, vm
    <3> QED
      BY <1>9, <1>p, <2>2, <2>5, <3>3, <3>4, <3>5, <3>6 DEF CopyOfVm, Authors
  <2> QED
    BY <2>3, <2>4, <2>5 DEF vm
<1>13. CopyInv'
  <2>1. \A u \in Threads : \A i \in DOMAIN stacks'[u] : LiveVm(u, i)' /\ CopyOfVm(u, i)'
    BY <1>10, <1>11, <1>p
  <2>2. Authors(store)' \subseteq Mains'
    BY <1>1, <1>9 DEF CopyInv
  <2>3. outcome' # <<>> => Authors(outcome[1].mem)' \subseteq Mains'
    BY <1>1, <1>4, <1>9 DEF CopyInv, Authors
  <2> QED
    BY <2>1, <2>2, <2>3 DEF CopyInv
<1>14. MetaInv'
  <2>1. stacks'[0] # <<>> => Kept(stacks'[0][1].mem, stacks'[0][1].meta)
    <3> SUFFICES ASSUME stacks'[0] # <<>> PROVE Kept(stacks'[0][1].mem, stacks'[0][1].meta)
      OBVIOUS
    <3>1. stacks'[0] \in Seq(Vms) /\ stacks[0] \in Seq(Vms) /\ DOMAIN stacks'[0] = DOMAIN stacks[0]
      BY <1>1, <1>p, Bounds DEF TypeOK
    <3>2. stacks[0] # <<>> /\ 1 \in DOMAIN stacks[0]
      <4>1. 1 \in DOMAIN stacks'[0]
        BY <3>1
      <4> QED
        BY <3>1, <4>1
    <3>3. CASE t = 0 /\ top = 1
      BY <1>p, <1>t, <3>3
    <3>4. CASE ~ (t = 0 /\ top = 1)
      <4>1. stacks'[0][1] = stacks[0][1]
        BY <1>p, <3>2, <3>4, Bounds
      <4> QED
        BY <1>1, <3>2, <4>1 DEF MetaInv
    <3> QED
      BY <3>3, <3>4
  <2>2. ASSUME NEW mem, NEW open, Kept(mem, open) PROVE Kept(mem, open)'
    BY <1>4, <1>5, <2>2 DEF Kept
  <2> QED
    BY <1>1, <1>2, <1>4, <1>5, <2>1, <2>2 DEF MetaInv, LockedSlotsForSender, Kept
<1> QED
  BY <1>6, <1>7, <1>13, <1>14 DEF ContractInv

\* The main VM is the first of thread 0.
LEMMA FirstOfMain ==
  ASSUME ContractInv, stacks[0] # <<>>
  PROVE  /\ 1 \in DOMAIN stacks[0] /\ stacks[0][1] \in Vms
         /\ Kept(stacks[0][1].mem, stacks[0][1].meta)
<1>1. stacks[0] \in Seq(Vms)
  BY Bounds DEF ContractInv, TypeOK
<1>2. 1 \in DOMAIN stacks[0]
  BY <1>1
<1> QED
  BY <1>1, <1>2 DEF ContractInv, MetaInv

\* A write to a slot of the running VM's copy (genlayer_sdk.rs storage_write).
LEMMA WriteStep ==
  ASSUME ContractInv, NEW t \in Threads, Alive(t), NEW slot \in Slots,
         NEW value \in Contents(slot, Running(t)), StorageWrite(t, slot, value)
  PROVE  ContractInv'
<1> DEFINE vm == Running(t)
           mem == [vm.mem EXCEPT ![slot] = value]
           meta == vm.meta \/ slot \in Metadata
           new == [vm EXCEPT !.mem = mem, !.meta = meta]
<1>1. /\ Called /\ vm.conf.det /\ vm.conf.write /\ slot \notin locks /\ Update(t, new)
      /\ UNCHANGED <<store, locks, outcome, posted, born, opened>>
  BY DEF StorageWrite
<1>2. /\ vm \in Vms /\ vm.id \in VmIds /\ vm.mem \in Mem
      /\ vm = stacks[t][Len(stacks[t])] /\ LiveVm(t, Len(stacks[t]))
  BY RunningHas
<1>3. /\ mem \in Mem /\ Authors(mem) \subseteq Authors(vm.mem) \cup {vm.id}
      /\ vm.mem.code # 0 => mem.code # 0
      /\ \A s \in Slots : s # slot => mem[s] = vm.mem[s]
  BY <1>2, WriteIs
<1>4. vm.meta \in BOOLEAN /\ meta \in BOOLEAN
  BY <1>2 DEF Vms
<1>5. t = 0 /\ Len(stacks[0]) = 1 => Kept(mem, meta)
  <2> SUFFICES ASSUME t = 0, Len(stacks[0]) = 1 PROVE Kept(mem, meta)
    OBVIOUS
  <2>1. Kept(vm.mem, vm.meta)
    BY <1>2, FirstOfMain DEF Alive
  <2>2. mem.code # 0
    BY <1>3, <2>1 DEF Kept
  <2>3. CASE tx.init
    <3>1. CASE slot \in Metadata
      BY <2>2, <2>3, <3>1 DEF Kept
    <3>2. CASE slot \notin Metadata
      <4>1. mem.locked = vm.mem.locked /\ mem.upgraders = vm.mem.upgraders
        BY <1>2, <3>2 DEF Mem, Metadata, Slots
      <4> QED
        BY <2>1, <2>2, <2>3, <4>1 DEF Kept
    <3> QED
      BY <3>1, <3>2
  <2>4. CASE ~ tx.init
    <3>1. locks \subseteq Slots
      BY DEF ContractInv, TypeOK
    <3>2. \A s \in locks : mem[s] = vm.mem[s]
      BY <1>1, <1>3, <3>1
    <3> QED
      BY <2>1, <2>2, <2>4, <3>2 DEF Kept
  <2> QED
    BY <2>3, <2>4
<1>6. /\ posted[vm.id].value = vm.spent /\ vm.spent <= Balance
      /\ born[vm.id].hidden => ~ posted[vm.id].any
      /\ posted \in [VmIds -> [any : BOOLEAN, value : Nat]]
  BY <1>2 DEF LiveVm, ContractInv, BornInv, TypeOK
<1> HIDE DEF mem, meta
<1>7. /\ new \in Vms /\ new.id = vm.id /\ new.conf = vm.conf /\ new.spent = vm.spent
      /\ new.mem = mem /\ new.meta = meta
  BY <1>2, <1>3, <1>4 DEF Vms
<1> HIDE DEF new
<1> QED
  BY <1>1, <1>2, <1>3, <1>5, <1>6, <1>7, UpdateStep

\* A message with its value (genlayer_sdk.rs messages_decremented).
LEMMA PostStep ==
  ASSUME ContractInv, NEW t \in Threads, NEW value \in 0..Balance, Post(t, value)
  PROVE  ContractInv'
<1> DEFINE vm == Running(t)
           new == [vm EXCEPT !.spent = @ + value]
<1>1. /\ Called /\ Alive(t) /\ vm.conf.det /\ Affordable(vm, value) /\ Update(t, new)
      /\ posted' = [posted EXCEPT ![vm.id] = [any |-> TRUE, value |-> @.value + value]]
      /\ UNCHANGED <<store, locks, outcome, born, opened>>
  BY DEF Post
<1>2. /\ vm \in Vms /\ vm.id \in VmIds /\ vm = stacks[t][Len(stacks[t])]
      /\ LiveVm(t, Len(stacks[t]))
  BY <1>1, RunningHas
<1>3. /\ posted[vm.id].value = vm.spent /\ vm.spent <= Balance /\ ~ born[vm.id].hidden
      /\ posted \in [VmIds -> [any : BOOLEAN, value : Nat]]
  BY <1>1, <1>2 DEF LiveVm, ContractInv, BornInv, TypeOK
<1>4. vm.spent \in Nat /\ value \in Nat /\ vm.spent + value \in Nat /\ vm.spent + value <= Balance
  BY <1>1, <1>2, <1>3, Bounds DEF Vms, Affordable
<1>5. /\ posted' \in [VmIds -> [any : BOOLEAN, value : Nat]]
      /\ posted'[vm.id].value = vm.spent + value
      /\ \A i \in VmIds : i # vm.id => posted'[i] = posted[i]
  <2>1. [any |-> TRUE, value |-> posted[vm.id].value + value] \in [any : BOOLEAN, value : Nat]
    BY <1>3, <1>4
  <2> QED
    BY <1>1, <1>2, <1>3, <2>1
<1>6. /\ new \in Vms /\ new.id = vm.id /\ new.conf = vm.conf /\ new.spent = vm.spent + value
      /\ new.mem = vm.mem /\ new.meta = vm.meta
  BY <1>2, <1>4 DEF Vms
<1>7. t = 0 /\ Len(stacks[0]) = 1 => Kept(vm.mem, vm.meta)
  BY <1>1, <1>2, FirstOfMain DEF Alive
<1> HIDE DEF new
<1>8. /\ posted'[new.id].value = new.spent /\ new.spent <= Balance
      /\ \A i \in VmIds : i # new.id => posted'[i] = posted[i]
      /\ born[new.id].hidden => ~ posted'[new.id].any
  BY <1>3, <1>4, <1>5, <1>6
<1>9. /\ Authors(new.mem) = Authors(Running(t).mem)
      /\ t = 0 /\ Len(stacks[0]) = 1 => Kept(new.mem, new.meta)
  BY <1>6, <1>7, Zenon
<1> QED
  BY <1>1, <1>5, <1>6, <1>8, <1>9, UpdateStep

-----------------------------------------------------------------------------
\* A result has the type of outcomes and the parts it was made from.
LEMMA ResultIs ==
  ASSUME NEW ok \in BOOLEAN, NEW mem \in Mem, NEW open \in BOOLEAN
  PROVE  /\ <<FullResult(ok, mem, open)>> \in Seq(Results) /\ Len(<<FullResult(ok, mem, open)>>) <= 1
         /\ <<FullResult(ok, mem, open)>>[1].mem = mem /\ <<FullResult(ok, mem, open)>>[1].open = open
<1> DEFINE x == FullResult(ok, mem, open)
<1>1. x \in Results /\ x.mem = mem /\ x.open = open
  BY DEF FullResult, Results
<1> HIDE DEF x
<1>2. <<x>> \in Seq(Results) /\ Len(<<x>>) <= 1 /\ <<x>>[1] = x
  BY <1>1
<1> QED
  BY <1>1, <1>2 DEF x

\* A VM ends.
LEMMA FinishStep ==
  ASSUME ContractInv, NEW t \in Threads, NEW ok \in BOOLEAN, Finish(t, ok)
  PROVE  ContractInv'
<1>1. TypeOK /\ BornInv /\ CopyInv /\ MetaInv
  BY DEF ContractInv
<1> DEFINE vm == Running(t)
           below == SubSeq(stacks[t], 1, Len(stacks[t]) - 1)
           open == vm.meta /\ (tx.init \/ tx.sender \in store.upgraders)
           last == t = 0 /\ below = <<>>
<1>2. /\ Alive(t) /\ UNCHANGED <<store, tx, locks, posted, born, opened>>
      /\ outcome' = IF last THEN <<FullResult(ok, vm.mem, open)>> ELSE outcome
  BY DEF Finish
<1>3. /\ vm \in Vms /\ vm.id \in VmIds /\ vm.mem \in Mem
      /\ vm = stacks[t][Len(stacks[t])] /\ Len(stacks[t]) \in DOMAIN stacks[t]
      /\ CopyOfVm(t, Len(stacks[t])) /\ tx.role # "none"
  BY <1>2, RunningHas
<1>4. Popped(t) /\ (below = <<>> => Len(stacks[t]) = 1)
  BY <1>1, PopIs
<1>p. /\ stacks' \in [Threads -> Seq(Vms)]
      /\ \A u \in Threads : \A i \in DOMAIN stacks'[u] : i \in DOMAIN stacks[u] /\ stacks'[u][i] = stacks[u][i]
  BY <1>4 DEF Popped
<1>5. last => Len(stacks[0]) = 1 /\ vm = stacks[0][1]
  BY <1>3, <1>4
<1>6. last => Authors(vm.mem) \subseteq Mains /\ Kept(vm.mem, open)
  <2> SUFFICES ASSUME last PROVE Authors(vm.mem) \subseteq Mains /\ Kept(vm.mem, open)
    OBVIOUS
  <2>1. Authors(vm.mem) \subseteq Authors(store) \cup {Newest}
    BY <1>3, <1>5 DEF CopyOfVm
  <2>2. 0 \notin Authors(vm.mem) /\ Authors(vm.mem) \subseteq VmIds /\ Authors(store) \subseteq Mains
    BY <1>1, <1>3, AuthorsAreVms DEF Authors, CopyInv
  <2>3. Authors(vm.mem) \subseteq Mains
    BY <2>1, <2>2, NewestIs DEF Mains
  <2>4. Kept(vm.mem, vm.meta)
    BY <1>2, <1>5, FirstOfMain DEF Alive
  <2>5. Kept(vm.mem, open)
    BY <2>4 DEF Kept
  <2> QED
    BY <2>3, <2>5
<1>7. open \in BOOLEAN
  BY <1>3 DEF Vms
<1> HIDE DEF vm, open, last
<1>r. last => /\ outcome' \in Seq(Results) /\ Len(outcome') <= 1
              /\ outcome'[1].mem = vm.mem /\ outcome'[1].open = open
  <2>1. last => outcome' = <<FullResult(ok, vm.mem, open)>>
    BY <1>2
  <2>2. PICK m \in Mem, op \in BOOLEAN : m = vm.mem /\ op = open
    BY <1>3, <1>7
  <2>3. last => outcome' = <<FullResult(ok, m, op)>>
    BY <2>1, <2>2
  <2>4. PICK r : r = <<FullResult(ok, m, op)>>
    OBVIOUS
  <2>5. r \in Seq(Results) /\ Len(r) <= 1 /\ r[1].mem = m /\ r[1].open = op
    BY <2>4, ResultIs
  <2> QED
    BY <2>2, <2>3, <2>4, <2>5
<1>8. TypeOK'
  <2>2. outcome' \in Seq(Results) /\ Len(outcome') <= 1
    <3>1. CASE last
      BY <1>r, <3>1, Zenon
    <3>2. CASE ~ last
      BY <1>1, <1>2, <3>2 DEF TypeOK
    <3> QED
      BY <3>1, <3>2
  <2> QED
    BY <1>1, <1>2, <1>p, <2>2 DEF TypeOK
<1>9. BornInv'
  BY <1>1, <1>2 DEF BornInv
<1>10. Newest' = Newest /\ Mains' = Mains /\ Authors(store)' = Authors(store)
  BY <1>2, NewestSame DEF Mains, Authors
<1>11. ASSUME NEW u \in Threads, NEW i \in DOMAIN stacks'[u] PROVE LiveVm(u, i)' /\ CopyOfVm(u, i)'
  <2>1. i \in DOMAIN stacks[u] /\ stacks'[u][i] = stacks[u][i]
    BY <1>p
  <2>2. LiveVm(u, i) /\ CopyOfVm(u, i)
    BY <1>1, <2>1 DEF CopyInv
  <2>3. LiveVm(u, i)'
    BY <1>2, <1>p, <2>1, <2>2, SMTT(30) DEF LiveVm
  <2>4. IdsUpTo(u, i)' = IdsUpTo(u, i)
    <3>1. stacks'[u] \in Seq(Vms) /\ i \in 1..Len(stacks'[u]) /\ DOMAIN stacks'[u] = 1..Len(stacks'[u])
      BY <1>p
    <3>2. \A j \in 1..i : j \in DOMAIN stacks'[u]
      BY <3>1
    <3>3. \A j \in 1..i : stacks'[u][j] = stacks[u][j]
      BY <1>p, <3>2
    <3> QED
      BY <3>3 DEF IdsUpTo
  <2>5. CopyOfVm(u, i)'
    BY <1>2, <1>10, <2>1, <2>2, <2>4 DEF CopyOfVm, Authors
  <2> QED
    BY <2>3, <2>5
<1>12. CopyInv'
  <2>1. Authors(store)' \subseteq Mains'
    BY <1>1, <1>10 DEF CopyInv
  <2>2. outcome' # <<>> => Authors(outcome[1].mem)' \subseteq Mains'
    <3>1. CASE last
      BY <1>6, <1>10, <1>r, <3>1 DEF Authors
    <3>2. CASE ~ last
      BY <1>1, <1>2, <1>10, <3>2 DEF CopyInv, Authors
    <3> QED
      BY <3>1, <3>2
  <2> QED
    BY <1>11, <2>1, <2>2 DEF CopyInv
<1>13. MetaInv'
  <2>1. stacks'[0] # <<>> => Kept(stacks'[0][1].mem, stacks'[0][1].meta)
    <3> SUFFICES ASSUME stacks'[0] # <<>> PROVE Kept(stacks'[0][1].mem, stacks'[0][1].meta)
      OBVIOUS
    <3>1. stacks'[0] \in Seq(Vms) /\ stacks[0] \in Seq(Vms)
      BY <1>1, <1>p, Bounds DEF TypeOK
    <3>2. 1 \in DOMAIN stacks'[0]
      BY <3>1
    <3>3. 1 \in DOMAIN stacks[0] /\ stacks'[0][1] = stacks[0][1]
      BY <1>p, <3>2, Bounds
    <3>4. stacks[0] # <<>>
      BY <3>1, <3>3
    <3> QED
      BY <3>3, <3>4, FirstOfMain
  <2>2. outcome' # <<>> => Kept(outcome'[1].mem, outcome'[1].open)
    <3>1. CASE last
      BY <1>6, <1>r, <3>1
    <3>2. CASE ~ last
      BY <1>1, <1>2, <3>2 DEF MetaInv
    <3> QED
      BY <3>1, <3>2
  <2>3. ASSUME NEW mem, NEW op, Kept(mem, op) PROVE Kept(mem, op)'
    BY <1>2, <2>3 DEF Kept
  <2> QED
    BY <1>1, <1>2, <1>3, <2>1, <2>2, <2>3 DEF MetaInv, LockedSlotsForSender, Kept
<1> QED
  BY <1>8, <1>9, <1>12, <1>13 DEF ContractInv

\* The host has the result.
LEMMA QuietMeans == ASSUME Quiet PROVE \A t \in Threads : DOMAIN stacks[t] = {}
  BY DEF Quiet

\* The outcome of a transaction is a result.
LEMMA OutcomeIs ==
  ASSUME TypeOK, outcome # <<>>
  PROVE  outcome[1] \in Results
<1>1. outcome \in Seq(Results)
  BY DEF TypeOK
<1> QED
  BY <1>1

\* The result of a later transaction agrees with the committed state on every
\* slot that was locked for its sender.
LEMMA ResultKeeps ==
  ASSUME ContractInv, outcome # <<>>
  PROVE  LET mem == outcome[1].mem IN
         /\ mem \in Mem /\ mem.code # 0 /\ tx.role # "none"
         /\ store.code = 0 /\ ~ outcome[1].open => Metadata \subseteq mem.locked /\ mem.upgraders = {}
         /\ store.code # 0 => \A s \in LockedSlotsForSender(tx.sender) : mem[s] = store[s]
         /\ store.code # 0 /\ ~ opened => \A s \in Metadata : mem[s] = store[s]
<1>1. TypeOK /\ MetaInv
  BY DEF ContractInv
<1>2. outcome[1] \in Results
  BY <1>1, OutcomeIs
<1>3. Kept(outcome[1].mem, outcome[1].open) /\ tx.role # "none"
  BY <1>1 DEF MetaInv
<1>4. locks = LockedSlotsForSender(tx.sender) /\ (tx.init <=> store.code = 0)
  BY <1>1, <1>3 DEF MetaInv
<1>5. store.code # 0 /\ ~ opened => Metadata \subseteq LockedSlotsForSender(tx.sender)
  BY <1>1 DEF MetaInv, LockedSlotsForSender
<1> QED
  BY <1>2, <1>3, <1>4, <1>5 DEF Kept, Results

\* The host stores the result of a transaction or drops it.
LEMMA CommitStep ==
  ASSUME ContractInv, NEW keep \in BOOLEAN, Commit(keep)
  PROVE  ContractInv'
<1>1. TypeOK /\ BornInv /\ CopyInv /\ MetaInv
  BY DEF ContractInv
<1> DEFINE mem == outcome[1].mem
<1>2. /\ Quiet /\ outcome # <<>>
      /\ store' = IF keep THEN mem ELSE store
      /\ opened' = (opened \/ (keep /\ outcome[1].open))
      /\ outcome' = <<>> /\ tx' = [tx EXCEPT !.role = "none"]
      /\ UNCHANGED <<locks, stacks, posted, born>>
  BY DEF Commit
<1>3. /\ mem \in Mem /\ mem.code # 0 /\ tx.role # "none"
      /\ store.code = 0 /\ ~ outcome[1].open => Metadata \subseteq mem.locked /\ mem.upgraders = {}
      /\ store.code # 0 /\ ~ opened => \A s \in Metadata : mem[s] = store[s]
  BY <1>2, ResultKeeps
<1>4. \A t \in Threads : DOMAIN stacks[t] = {} /\ stacks[t] = <<>>
  BY <1>2, QuietMeans DEF Quiet
<1>5. TypeOK'
  <2>1. store' \in Mem
    BY <1>1, <1>2, <1>3 DEF TypeOK
  <2>2. tx' \in [n : 0..MaxTx, sender : Senders \cup {"none"}, init : BOOLEAN,
                 role : {"none", "leader", "validator", "sync"}, calls : 0..MaxCalls] /\ tx'.role = "none"
    BY <1>1, <1>2 DEF TypeOK
  <2>3. outcome' \in Seq(Results) /\ Len(outcome') <= 1
    BY <1>2
  <2>4. opened' \in BOOLEAN
    <3>1. outcome[1] \in Results
      BY <1>1, <1>2, OutcomeIs
    <3> QED
      BY <1>1, <1>2, <3>1 DEF TypeOK, Results
  <2> QED
    BY <1>1, <1>2, <2>1, <2>2, <2>3, <2>4 DEF TypeOK
<1>6. BornInv'
  BY <1>1, <1>2 DEF BornInv
<1>7. CopyInv'
  <2>1. Mains' = Mains
    BY <1>2 DEF Mains
  <2>2. Authors(mem) \subseteq Mains /\ Authors(store) \subseteq Mains
    BY <1>1, <1>2 DEF CopyInv
  <2>3. Authors(store)' \subseteq Mains'
    BY <1>2, <2>1, <2>2 DEF Authors
  <2> QED
    BY <1>2, <1>4, <2>3 DEF CopyInv
<1>8. MetaInv'
  <2>1. tx'.role = "none"
    BY <1>1, <1>2 DEF TypeOK
  <2>2. Quiet' /\ outcome' = <<>> /\ stacks'[0] = <<>>
    BY <1>2, <1>4, Bounds DEF Quiet
  <2>3. store'.code = 0 => store' = Vacant
    BY <1>1, <1>2, <1>3 DEF MetaInv
  <2>4. store'.code # 0 /\ ~ opened' => Metadata \subseteq store'.locked /\ store'.upgraders = {}
    <3> SUFFICES ASSUME store'.code # 0, ~ opened'
                 PROVE  Metadata \subseteq store'.locked /\ store'.upgraders = {}
      OBVIOUS
    <3>1. ~ opened /\ (keep => ~ outcome[1].open)
      BY <1>2
    <3>2. CASE ~ keep
      BY <1>1, <1>2, <3>1, <3>2 DEF MetaInv
    <3>3. CASE keep /\ store.code = 0
      BY <1>2, <1>3, <3>1, <3>3
    <3>4. CASE keep /\ store.code # 0
      <4>1. mem["locked"] = store["locked"] /\ mem["upgraders"] = store["upgraders"]
        BY <1>3, <3>1, <3>4 DEF Metadata
      <4>2. mem.locked = store.locked /\ mem.upgraders = store.upgraders
        BY <4>1
      <4> QED
        BY <1>1, <1>2, <3>1, <3>4, <4>2 DEF MetaInv
    <3> QED
      BY <3>2, <3>3, <3>4
  <2> QED
    BY <2>1, <2>2, <2>3, <2>4 DEF MetaInv
<1> QED
  BY <1>5, <1>6, <1>7, <1>8 DEF ContractInv

\* A transaction begins.
LEMMA StartStep ==
  ASSUME ContractInv, NEW sender \in Senders, NEW init \in BOOLEAN, NEW role \in {"leader", "validator", "sync"},
         NEW conf \in Confs, NEW loads \in BOOLEAN, StartTx(sender, init, role, conf, loads)
  PROVE  ContractInv'
<1>1. TypeOK /\ BornInv /\ CopyInv /\ MetaInv
  BY DEF ContractInv
<1>f. PICK f \in VmIds : f = Fresh
  BY DEF StartTx
<1> DEFINE coded == [store EXCEPT !.code = f]
           mem == IF init THEN LockDefault(coded) ELSE store
           ends == init /\ ~ (loads /\ conf.write)
<1>2. /\ Quiet /\ outcome = <<>> /\ tx.role = "none" /\ tx.n < MaxTx /\ init = (store.code = 0)
      /\ tx' = [n |-> tx.n + 1, sender |-> sender, init |-> init, role |-> role, calls |-> 0]
      /\ locks' = LockedSlotsForSender(sender)
      /\ born' = [born EXCEPT ![f] = Born("main", Self, FALSE)]
      /\ posted' = NonePosted /\ store' = store /\ opened' = opened
  BY <1>f DEF StartTx
<1>3. IF ends THEN outcome' = <<FullResult(FALSE, coded, TRUE)>> /\ stacks' = stacks
              ELSE stacks' = [stacks EXCEPT ![0] = <<VM(f, conf, mem)>>] /\ outcome' = outcome
  BY <1>f DEF StartTx
<1>4. f \in Nat /\ f # 0 /\ f \in 0..MaxVms /\ MaxVms \in Nat
  BY Bounds DEF VmIds
<1>5. /\ store \in Mem /\ coded \in Mem /\ mem \in Mem /\ coded.code = f
      /\ Authors(coded) \subseteq Authors(store) \cup {f} /\ Authors(mem) \subseteq Authors(store) \cup {f}
  BY <1>1, <1>4 DEF TypeOK, Mem, Authors, LockDefault, Slots
<1>6. /\ mem.code # 0
      /\ init => Metadata \subseteq mem.locked /\ mem.upgraders = {}
      /\ ~ init => mem = store
  <2>1. CASE init
    <3>1. store = Vacant
      BY <1>1, <1>2, <2>1 DEF MetaInv
    <3> QED
      BY <1>4, <2>1, <3>1 DEF Vacant, LockDefault
  <2>2. CASE ~ init
    BY <1>2, <2>2
  <2> QED
    BY <2>1, <2>2
<1> HIDE DEF coded, mem
<1>7. Born("main", Self, FALSE) # Unborn /\ Born("main", Self, FALSE).kind = "main" /\ ~ Born("main", Self, FALSE).hidden
  BY DEF Unborn, Born
<1>8. /\ \A i, j \in VmIds : i < j /\ born'[j] # Unborn => born'[i] # Unborn
      /\ born'[f] = Born("main", Self, FALSE) /\ \A i \in VmIds : i # f => born'[i] = born[i]
  BY <1>1, <1>2, <1>7, <1>f, BirthKeepsOrder
<1>9. Newest' = f
  <2>1. NewestOK'
    BY NewestHolds, PTL
  <2>2. PICK n : n = Newest'
    OBVIOUS
  <2>3. /\ n \in 0..MaxVms /\ (n = 0 \/ born'[n].kind = "main")
        /\ \A j \in (n + 1)..MaxVms : born'[j].kind # "main"
    BY <2>1, <2>2 DEF NewestOK
  <2>4. ~ (n < f)
    <3> SUFFICES ASSUME n < f PROVE FALSE
      OBVIOUS
    <3>1. f \in (n + 1)..MaxVms
      BY <1>4, <2>3
    <3> QED
      BY <1>7, <1>8, <2>3, <3>1
  <2>5. ~ (f < n)
    <3> SUFFICES ASSUME f < n PROVE FALSE
      OBVIOUS
    <3>1. n \in VmIds /\ n # f /\ n > f /\ n # 0
      BY <1>4, <2>3 DEF VmIds
    <3>2. born[n] = Unborn
      BY <1>1, <1>f, <3>1, FreshIsLast
    <3> QED
      BY <1>8, <2>3, <3>1, <3>2 DEF Unborn, Born
  <2> QED
    BY <1>4, <2>2, <2>3, <2>4, <2>5
<1>10. Mains \subseteq Mains' /\ f \in Mains'
  BY <1>7, <1>8 DEF Mains
<1>11. Authors(store)' = Authors(store) /\ Authors(store) \subseteq Mains'
  BY <1>1, <1>2, <1>10 DEF CopyInv, Authors
<1>12. \A t \in Threads : stacks[t] = <<>> /\ DOMAIN stacks[t] = {}
  BY <1>2, QuietMeans DEF Quiet
\* The main VM, unless the transaction has ended.
<1>13. VM(f, conf, mem) \in Vms
  BY <1>5 DEF VM, Vms
<1>14. ~ ends => /\ stacks' \in [Threads -> Seq(Vms)] /\ outcome' = <<>>
                 /\ DOMAIN stacks'[0] = {1} /\ stacks'[0][1] = VM(f, conf, mem)
                 /\ \A t \in Threads : t # 0 => stacks'[t] = <<>>
  <2> SUFFICES ASSUME ~ ends
               PROVE  /\ stacks' \in [Threads -> Seq(Vms)] /\ outcome' = <<>>
                      /\ DOMAIN stacks'[0] = {1} /\ stacks'[0][1] = VM(f, conf, mem)
                      /\ \A t \in Threads : t # 0 => stacks'[t] = <<>>
    OBVIOUS
  <2> DEFINE v == VM(f, conf, mem)
  <2>0. v \in Vms
    BY <1>13
  <2>1. stacks' = [stacks EXCEPT ![0] = <<v>>] /\ outcome' = outcome /\ stacks \in [Threads -> Seq(Vms)]
    BY <1>1, <1>3 DEF TypeOK
  <2> HIDE DEF v
  <2>2. <<v>> \in Seq(Vms) /\ DOMAIN <<v>> = {1} /\ <<v>>[1] = v
    BY <2>0
  <2>3. stacks' \in [Threads -> Seq(Vms)] /\ stacks'[0] = <<v>> /\ \A t \in Threads : t # 0 => stacks'[t] = stacks[t]
    BY <2>1, <2>2, Bounds
  <2> QED
    BY <1>2, <1>12, <2>1, <2>2, <2>3 DEF v
<1>15. ends => /\ init /\ outcome' \in Seq(Results) /\ Len(outcome') <= 1
               /\ outcome'[1].mem = coded /\ outcome'[1].open = TRUE /\ stacks' = stacks
  <2> SUFFICES ASSUME ends
               PROVE  /\ init /\ outcome' \in Seq(Results) /\ Len(outcome') <= 1
                      /\ outcome'[1].mem = coded /\ outcome'[1].open = TRUE /\ stacks' = stacks
    OBVIOUS
  <2>1. init /\ outcome' = <<FullResult(FALSE, coded, TRUE)>> /\ stacks' = stacks
    BY <1>3
  <2> QED
    BY <1>5, <2>1, ResultIs, Zenon
<1> HIDE DEF ends
<1>16. TypeOK'
  <2>1. tx' \in [n : 0..MaxTx, sender : Senders \cup {"none"}, init : BOOLEAN,
                 role : {"none", "leader", "validator", "sync"}, calls : 0..MaxCalls]
    BY <1>1, <1>2, Bounds DEF TypeOK
  <2>2. locks' \subseteq Slots
    BY <1>2, <1>5 DEF LockedSlotsForSender, Mem
  <2>3. posted' \in [VmIds -> [any : BOOLEAN, value : Nat]]
    BY <1>2 DEF NonePosted
  <2>4. born' \in [VmIds -> [kind : Kinds, addr : {Self, "other"}, hidden : BOOLEAN]]
    BY <1>1, <1>2 DEF TypeOK, Born, Kinds
  <2>5. outcome' \in Seq(Results) /\ Len(outcome') <= 1 /\ stacks' \in [Threads -> Seq(Vms)]
    <3>1. CASE ends
      BY <1>1, <1>15, <3>1, Zenon DEF TypeOK
    <3>2. CASE ~ ends
      BY <1>14, <3>2
    <3> QED
      BY <3>1, <3>2
  <2>6. store' \in Mem /\ opened' \in BOOLEAN
    BY <1>1, <1>2 DEF TypeOK
  <2> QED
    BY <2>1, <2>2, <2>3, <2>4, <2>5, <2>6 DEF TypeOK
<1>17. BornInv'
  <2>1. ASSUME NEW i \in VmIds
        PROVE  /\ born'[i].kind = "main" => ~ born'[i].hidden
               /\ born'[i] = Unborn => posted'[i] = [any |-> FALSE, value |-> 0]
               /\ born'[i].hidden => ~ posted'[i].any
               /\ posted'[i].value <= Balance
    <3>1. posted'[i] = [any |-> FALSE, value |-> 0]
      BY <1>2 DEF NonePosted
    <3>2. born'[i].kind = "main" => ~ born'[i].hidden
      BY <1>1, <1>7, <1>8 DEF BornInv
    <3> QED
      BY <3>1, <3>2, Bounds
  <2> QED
    BY <1>8, <2>1 DEF BornInv
<1>18. ASSUME NEW t \in Threads, NEW i \in DOMAIN stacks'[t] PROVE LiveVm(t, i)' /\ CopyOfVm(t, i)'
  <2>1. ~ ends
    BY <1>12, <1>15
  <2>2. t = 0 /\ i = 1 /\ \A u \in Threads : \A j \in DOMAIN stacks'[u] : u = 0 /\ j = 1
    BY <1>14, <2>1
  <2>3. /\ stacks'[0][1] = VM(f, conf, mem) /\ VM(f, conf, mem).id = f
        /\ VM(f, conf, mem).mem = mem /\ VM(f, conf, mem).spent = 0
    BY <1>14, <2>1 DEF VM
  <2>4. posted'[f].value = 0
    BY <1>2 DEF NonePosted
  <2>5. LiveVm(t, i)'
    BY <1>7, <1>8, <2>2, <2>3, <2>4 DEF LiveVm
  <2>6. \A a \in Authors(mem) : born'[a] # Unborn /\ ~ born'[a].hidden
    <3>1. \A a \in Authors(mem) : a \in VmIds /\ born'[a].kind = "main"
      BY <1>5, <1>10, <1>11, AuthorsAreVms DEF Mains
    <3> QED
      BY <1>17, <3>1 DEF BornInv, Unborn, Born
  <2>7. CopyOfVm(t, i)'
    BY <1>5, <1>9, <1>11, <2>2, <2>3, <2>6 DEF CopyOfVm, Authors
  <2> QED
    BY <2>5, <2>7
<1>19. CopyInv'
  <2>1. outcome' # <<>> => Authors(outcome[1].mem)' \subseteq Mains'
    <3>1. CASE ends
      BY <1>5, <1>10, <1>11, <1>15, <3>1 DEF Authors
    <3>2. CASE ~ ends
      BY <1>14, <3>2
    <3> QED
      BY <3>1, <3>2
  <2> QED
    BY <1>11, <1>18, <2>1 DEF CopyInv
<1>20. MetaInv'
  <2>1. tx'.role # "none" /\ tx'.init = init /\ tx'.sender = sender
    BY <1>2
  <2>2. locks' = LockedSlotsForSender(sender)' /\ (init <=> store'.code = 0)
    BY <1>2 DEF LockedSlotsForSender
  <2>3. stacks'[0] # <<>> => stacks'[0][1].mem = mem
    <3>1. CASE ends
      BY <1>12, <1>15, <3>1, Bounds
    <3>2. CASE ~ ends
      BY <1>14, <3>2 DEF VM
    <3> QED
      BY <3>1, <3>2
  <2>4. stacks'[0] # <<>> => Kept(stacks[0][1].mem, stacks[0][1].meta)'
    BY <1>2, <1>6, <2>1, <2>3 DEF Kept
  <2>5. outcome' # <<>> => outcome'[1].mem = coded /\ outcome'[1].open = TRUE /\ init
    BY <1>14, <1>15
  <2>6. outcome' # <<>> => Kept(outcome[1].mem, outcome[1].open)'
    BY <1>4, <1>5, <2>1, <2>5 DEF Kept
  <2>7. /\ store'.code = 0 => store' = Vacant
        /\ store'.code # 0 /\ ~ opened' => Metadata \subseteq store'.locked /\ store'.upgraders = {}
    BY <1>1, <1>2 DEF MetaInv
  <2> QED
    BY <2>1, <2>2, <2>4, <2>6, <2>7 DEF MetaInv
<1> QED
  BY <1>16, <1>17, <1>19, <1>20 DEF ContractInv

-----------------------------------------------------------------------------
\* The invariant holds of a contract that is not deployed yet.
LEMMA InitHolds == Init => ContractInv
<1> SUFFICES ASSUME Init PROVE ContractInv
  OBVIOUS
<1>1. /\ store = Vacant /\ tx = NoTx /\ locks = {} /\ outcome = <<>> /\ opened = FALSE
      /\ stacks = [t \in Threads |-> <<>>] /\ posted = NonePosted /\ born = [i \in VmIds |-> Unborn]
  BY DEF Init
<1>2. \A t \in Threads : stacks[t] = <<>> /\ DOMAIN stacks[t] = {}
  BY <1>1
<1>3. TypeOK
  <2>1. tx \in [n : 0..MaxTx, sender : Senders \cup {"none"}, init : BOOLEAN,
                role : {"none", "leader", "validator", "sync"}, calls : 0..MaxCalls]
    BY <1>1, Bounds DEF NoTx
  <2>2. stacks \in [Threads -> Seq(Vms)]
    BY <1>1
  <2>3. posted \in [VmIds -> [any : BOOLEAN, value : Nat]]
    BY <1>1 DEF NonePosted
  <2>4. born \in [VmIds -> [kind : Kinds, addr : {Self, "other"}, hidden : BOOLEAN]]
    BY <1>1 DEF Unborn, Born, Kinds
  <2>5. outcome \in Seq(Results) /\ Len(outcome) <= 1
    BY <1>1
  <2> QED
    BY <1>1, <2>1, <2>2, <2>3, <2>4, <2>5, VacantType DEF TypeOK
<1>4. BornInv
  BY <1>1, Bounds DEF BornInv, NonePosted, Unborn, Born
<1>5. CopyInv
  BY <1>1, <1>2, VacantType DEF CopyInv
<1>6. MetaInv
  BY <1>1, <1>2, Bounds DEF MetaInv, Quiet, NoTx, Vacant
<1> QED
  BY <1>3, <1>4, <1>5, <1>6 DEF ContractInv

\* Every step keeps the invariant.
LEMMA StepHolds == ContractInv /\ [Next]_vars => ContractInv'
<1> SUFFICES ASSUME ContractInv, [Next]_vars PROVE ContractInv'
  OBVIOUS
<1>0. CASE UNCHANGED vars
  <2>1. UNCHANGED <<store, tx, locks, stacks, outcome, posted, born, opened>>
    BY <1>0 DEF vars
  <2>2. TypeOK' /\ BornInv'
    BY <2>1 DEF ContractInv, TypeOK, BornInv
  <2>3. Newest' = Newest
    BY <2>1, NewestSame
  <2>4. CopyInv'
    <3>1. Mains' = Mains /\ CopyInv
      BY <2>1 DEF ContractInv, Mains
    <3>2. ASSUME NEW t \in Threads, NEW i \in DOMAIN stacks[t] PROVE LiveVm(t, i)' /\ CopyOfVm(t, i)'
      <4>1. LiveVm(t, i) /\ CopyOfVm(t, i)
        BY <3>1 DEF CopyInv
      <4>2. LiveVm(t, i)'
        BY <2>1, <4>1 DEF LiveVm
      <4>3. CopyOfVm(t, i)'
        BY <2>1, <2>3, <4>1 DEF CopyOfVm, Authors, IdsUpTo
      <4> QED
        BY <4>2, <4>3
    <3> QED
      BY <2>1, <3>1, <3>2 DEF CopyInv, Authors
  <2>5. MetaInv'
    BY <2>1 DEF ContractInv, MetaInv, Quiet, LockedSlotsForSender, Kept
  <2> QED
    BY <2>2, <2>4, <2>5 DEF ContractInv
<1>1. CASE \E sender \in Senders, init \in BOOLEAN, role \in {"leader", "validator", "sync"},
              perms \in Permissions, loads \in BOOLEAN : StartTx(sender, init, role, MainConf(perms), loads)
  <2>1. \A perms : MainConf(perms) \in Confs
    BY DEF MainConf, Conf, Confs
  <2> QED
    BY <1>1, <2>1, StartStep
<1>2. CASE \E t \in Threads, slot \in Slots :
              Alive(t) /\ \E v \in Contents(slot, Running(t)) : StorageWrite(t, slot, v)
  BY <1>2, WriteStep
<1>3. CASE \E t \in Threads, v \in 0..Balance : EthSend(t, v) \/ PostMessage(t, v) \/ DeployContract(t, v)
  BY <1>3, PostStep DEF EthSend, PostMessage, DeployContract
<1>4. CASE \E t \in Threads, addr \in {Self, "other"} : CallContract(t, addr)
  BY <1>4, CallStep
<1>5. CASE \E t \in Threads, allow \in BOOLEAN : Sandbox(t, allow)
  BY <1>5, SandboxStep
<1>6. CASE \E t, free \in Threads : RunNondet(t, free)
  BY <1>0, <1>6, NondetStep
<1>7. CASE \E t \in Threads, ok \in BOOLEAN : Finish(t, ok)
  BY <1>7, FinishStep
<1>8. CASE \E keep \in BOOLEAN : Commit(keep)
  BY <1>8, CommitStep
<1> QED
  BY <1>0, <1>1, <1>2, <1>3, <1>4, <1>5, <1>6, <1>7, <1>8 DEF Next

-----------------------------------------------------------------------------
\* The inductive invariant holds however many transactions a contract lives
\* through and whatever VMs they run (lib.rs run_with_impl, genlayer_sdk.rs).
THEOREM ContractInductive == Spec => []ContractInv
  BY InitHolds, StepHolds, PTL DEF Spec

\* No VM below a non-deterministic block sends a message or leaves a write in
\* any copy of the storage, its sandboxes included (genlayer_sdk.rs
\* run_nondet, sandbox): such a VM is hidden, hidden VMs are not
\* deterministic, and only those that are write or send.
THEOREM NondetIsTraceless == Spec => []NondetLeavesNoTrace
<1>1. ContractInv => NondetLeavesNoTrace
  <2> SUFFICES ASSUME ContractInv PROVE NondetLeavesNoTrace
    OBVIOUS
  <2>1. \A i \in VmIds : born[i].hidden => ~ posted[i].any
    BY DEF ContractInv, BornInv
  <2>2. \A t \in Threads : \A i \in DOMAIN stacks[t] : \A a \in Authors(stacks[t][i].mem) : ~ born[a].hidden
    BY DEF ContractInv, CopyInv, CopyOfVm
  <2> QED
    BY <2>1, <2>2 DEF NondetLeavesNoTrace
<1> QED
  BY <1>1, ContractInductive, PTL

\* A VM sees only the committed state, the writes of the VMs it runs in and
\* of the transaction's main VM, and only main VMs write what is committed
\* (lib.rs run_with_impl, genlayer_sdk.rs sandbox, call_contract).
THEOREM WritesAreConfined == Spec => []WritesStayInside
<1>1. ContractInv => WritesStayInside
  <2> SUFFICES ASSUME ContractInv PROVE WritesStayInside
    OBVIOUS
  <2>1. \A a \in Authors(store) : born[a].kind = "main"
    BY DEF ContractInv, CopyInv, Mains
  <2>2. ASSUME NEW t \in Threads, NEW i \in DOMAIN stacks[t], NEW a \in Authors(stacks[t][i].mem)
        PROVE  a \in Authors(store) \cup IdsUpTo(t, i) \cup {b \in VmIds : born[b].kind = "main" /\ b >= Newest}
    <3>1. a \in Authors(store) \cup IdsUpTo(t, i) \cup {Newest}
      BY DEF ContractInv, CopyInv, CopyOfVm
    <3>2. a \in VmIds /\ a # 0 /\ a \in Int
      <4>1. stacks[t][i].mem \in Mem
        BY FrameIs DEF ContractInv
      <4> QED
        BY <4>1, AuthorsAreVms, Bounds DEF VmIds
    <3>3. a = Newest => born[a].kind = "main" /\ a >= Newest
      BY <3>2, NewestIs
    <3> QED
      BY <3>1, <3>2, <3>3
  <2> QED
    BY <2>1, <2>2 DEF WritesStayInside
<1> QED
  BY <1>1, ContractInductive, PTL

\* No VM sends more than the contract holds, for every balance and number of
\* messages (genlayer_sdk.rs messages_decremented).
THEOREM SpendsItsBalanceAtMost == Spec => []EachVmWithinBalance
<1>1. ContractInv => EachVmWithinBalance
  BY DEF ContractInv, BornInv, EachVmWithinBalance
<1> QED
  BY <1>1, ContractInductive, PTL

\* What a step may do to the committed metadata.
GuardedStep ==
  store.code # 0 =>
    /\ ~ opened => \A s \in Metadata : store'[s] = store[s]
    /\ tx.sender \notin store.upgraders => \A s \in store.locked : store'[s] = store[s]

\* No step changes guarded metadata: only Commit writes to the store, and the
\* result it stores has kept what Kept says.
LEMMA StepIsGuarded == ContractInv /\ [Next]_vars => [GuardedStep]_vars
<1> SUFFICES ASSUME ContractInv, Next PROVE GuardedStep
  OBVIOUS
<1>1. store' = store => GuardedStep
  BY DEF GuardedStep
<1>2. ASSUME NEW keep \in BOOLEAN, Commit(keep) PROVE GuardedStep
  <2>1. outcome # <<>> /\ (store' = IF keep THEN outcome[1].mem ELSE store)
    BY <1>2 DEF Commit
  <2>2. CASE ~ keep
    BY <1>1, <2>1, <2>2
  <2>3. CASE keep
    <3>1. store' = outcome[1].mem
      BY <2>1, <2>3
    <3>2. /\ store.code # 0 => \A s \in LockedSlotsForSender(tx.sender) : store'[s] = store[s]
          /\ store.code # 0 /\ ~ opened => \A s \in Metadata : store'[s] = store[s]
      BY <2>1, <3>1, ResultKeeps
    <3> QED
      BY <3>2 DEF GuardedStep, LockedSlotsForSender
  <2> QED
    BY <2>2, <2>3
<1>3. (\E keep \in BOOLEAN : Commit(keep)) \/ store' = store
  BY DEF Next, StartTx, StorageWrite, EthSend, PostMessage, DeployContract, Post, CallContract, Sandbox,
         RunNondet, Spawn, Finish, vars
<1> QED
  BY <1>1, <1>2, <1>3

\* Metadata of a contract whose constructor left the default locks alone never
\* changes after deployment, and a locked slot changes only for an upgrader
\* (host/mod.rs get_locked_slots_for_sender, root.py lock_default).
THEOREM MetadataIsGuarded == Spec => MetadataGuarded
  BY ContractInductive, StepIsGuarded, PTL DEF MetadataGuarded, GuardedStep, Spec
=============================================================================
