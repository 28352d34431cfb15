------------------------------ MODULE Contract ------------------------------
(***************************************************************************)
(* The life of one contract: its deployment and later transactions, the    *)
(* virtual machines each of them runs, and the effects those may have.     *)
(*                                                                         *)
(* executor/src/lib.rs starts the main VM, wasi/genlayer_sdk.rs carries    *)
(* out the SDK calls: storage_write, the three messages with a value, and  *)
(* the sub-VMs of CallContract, Sandbox and RunNondet.  The caller of a    *)
(* sub-VM waits for it, except a validator's non-deterministic VM, which   *)
(* runs beside its caller.  Each thread of execution is a stack of VMs.    *)
(*                                                                         *)
(* What is stored in a slot is the number of the VM that wrote it, except  *)
(* for the two lists the executor itself reads.  The root slot has no      *)
(* contents of its own and is left out.                                    *)
(***************************************************************************)
EXTENDS Integers, Sequences, Functions

CONSTANTS Senders,      \* accounts that send transactions
          Permissions,  \* what the host may let a main VM do
          Balance,      \* what the contract holds
          MaxTx,        \* bound: transactions
          MaxVms,       \* bound: VMs over all transactions
          MaxCalls      \* bound: writes and messages of a transaction

ASSUME ContractAssumption == {Balance, MaxTx, MaxVms, MaxCalls} \subseteq Nat

VARIABLES store,        \* the contract's slots as committed
          tx,           \* the transaction at work
          locks,        \* supervisor.locked_slots
          stacks,       \* per thread: its VMs, the running one last
          outcome,      \* FullResult of the transaction, once there is one
          posted,       \* host: whether each VM sent messages, and their value
          born,         \* what the VM of each number is
          opened        \* history: default locks given up, or never taken

vars == <<store, tx, locks, stacks, outcome, posted, born, opened>>

Self     == "self"
Metadata == {"code", "locked", "upgraders"}
Slots    == Metadata \cup {"data"}
Vacant   == [code |-> 0, locked |-> {}, upgraders |-> {}, data |-> 0]

VmIds   == 1..MaxVms
Threads == 0..MaxVms        \* 0 runs run_with_impl, the others validator tasks
NoTx    == [n |-> 0, sender |-> "none", init |-> FALSE, role |-> "none", calls |-> 0]

(* base::Config without the permission to read, which has no effect.       *)
Conf(det, write, send, call, spawn) ==
    [det |-> det, write |-> write, send |-> send, call |-> call, spawn |-> spawn]

(* The letters of permissions that run_with_impl looks for.                *)
MainConf(perms) == Conf(TRUE, "w" \in perms, "s" \in perms, "c" \in perms, "n" \in perms)

VM(id, conf, mem) == [id |-> id, conf |-> conf, mem |-> mem, spent |-> 0, meta |-> FALSE]

Born(kind, addr, hidden) == [kind |-> kind, addr |-> addr, hidden |-> hidden]
Unborn == Born("none", Self, FALSE)

NonePosted == [i \in VmIds |-> [any |-> FALSE, value |-> 0]]

Init == /\ store = Vacant /\ tx = NoTx /\ locks = {} /\ outcome = <<>>
        /\ stacks = [t \in Threads |-> <<>>]
        /\ posted = NonePosted
        /\ born = [i \in VmIds |-> Unborn]
        /\ opened = FALSE

Fresh == CHOOSE i \in 1..(MaxVms + 1) :
           /\ i \in VmIds => born[i] = Unborn
           /\ \A j \in 1..(i - 1) : born[j] # Unborn
Quiet == \A t \in Threads : stacks[t] = <<>>

-----------------------------------------------------------------------------
(* A transaction begins.                                                   *)

(* get_locked_slots_for_sender                                             *)
LockedSlotsForSender(sender) == IF sender \in store.upgraders THEN {} ELSE store.locked

\* Mutant: the list of upgraders itself is not locked
LockAllButUpgraders(mem) == [mem EXCEPT !.locked = @ \cup {"code", "locked"}]

(* Root.lock_default, before the constructor runs.                         *)
LockDefault(mem) == [mem EXCEPT !.locked = @ \cup Metadata]

(* The storage of the main VM, whether it ended well, and whether a        *)
(* deployment left the metadata of the contract open.                      *)
FullResult(ok, mem, open) == [ok |-> ok, mem |-> mem, open |-> open]

(* run_with_impl: write_code for a deployment, then the runner loads the   *)
(* contract and takes the default locks, which a VM without permission to  *)
(* write does not survive.  A call that does not resolve is a main VM that *)
(* ends at once.                                                           *)
StartTx(sender, init, role, conf, loads) ==
    /\ Quiet /\ outcome = <<>> /\ tx.role = "none" /\ tx.n < MaxTx /\ Fresh \in VmIds
    /\ init = (store.code = 0)
    /\ tx' = [n |-> tx.n + 1, sender |-> sender, init |-> init, role |-> role, calls |-> 0]
    /\ locks' = LockedSlotsForSender(sender)
    /\ LET coded == [store EXCEPT !.code = Fresh]
           mem == IF init THEN LockDefault(coded) ELSE store
       IN  IF init /\ ~ (loads /\ conf.write)
           THEN outcome' = <<FullResult(FALSE, coded, TRUE)>> /\ UNCHANGED stacks
           ELSE stacks' = [stacks EXCEPT ![0] = <<VM(Fresh, conf, mem)>>] /\ UNCHANGED outcome
    /\ born' = [born EXCEPT ![Fresh] = Born("main", Self, FALSE)]
    /\ posted' = NonePosted
    /\ UNCHANGED <<store, opened>>

-----------------------------------------------------------------------------
(* What the running VM of a thread may do.                                 *)

Running(t) == stacks[t][Len(stacks[t])]
Update(t, vm) == stacks' = [stacks EXCEPT ![t] = SubSeq(@, 1, Len(@) - 1) \o <<vm>>]
Alive(t) == stacks[t] # <<>>
Called == tx.calls < MaxCalls /\ tx' = [tx EXCEPT !.calls = @ + 1]

(* storage_write                                                           *)
StorageWrite(t, slot, value) ==
    LET vm == Running(t) IN
    /\ Called /\ Alive(t) /\ vm.conf.det /\ vm.conf.write /\ slot \notin locks
    /\ Update(t, [vm EXCEPT !.mem = [@ EXCEPT ![slot] = value],
                            !.meta = @ \/ slot \in Metadata])
    /\ UNCHANGED <<store, locks, outcome, posted, born, opened>>

(* Lists are truncated or, the locked slots, extended; of the upgraders    *)
(* at most one is ever named.                                              *)
Contents(slot, vm) ==
    CASE slot = "locked"    -> {{}, vm.mem.locked \cup {"data"}}
      [] slot = "upgraders" -> {{s} : s \in Senders}
      [] slot \in {"code", "data"} -> {vm.id}

\* Mutant: what the VM has sent already is not counted
AffordableAlone(vm, value) == value = 0 \/ value <= Balance

(* value + messages_decremented > my_balance is refused.                   *)
Affordable(vm, value) == value = 0 \/ value + vm.spent <= Balance

Post(t, value) ==
    LET vm == Running(t) IN
    /\ Called /\ Alive(t) /\ vm.conf.det /\ vm.conf.send /\ Affordable(vm, value)
    /\ posted' = [posted EXCEPT ![vm.id] = [any |-> TRUE, value |-> @.value + value]]
    /\ Update(t, [vm EXCEPT !.spent = @ + value])
    /\ UNCHANGED <<store, locks, outcome, born, opened>>

EthSend(t, value)        == Post(t, value)
PostMessage(t, value)    == Post(t, value)
DeployContract(t, value) == Post(t, value)

Spawn(t, vm, what) ==
    /\ Fresh \in VmIds
    /\ stacks' = [stacks EXCEPT ![t] = @ \o <<vm>>]
    /\ born' = [born EXCEPT ![Fresh] = what]
    /\ UNCHANGED <<store, tx, locks, outcome, posted, opened>>

HiddenIn(vm) == born[vm.id].hidden

(* CallContract; the callee, this contract too, reads what is committed.   *)
CallContract(t, addr) ==
    LET vm == Running(t) IN
    /\ Alive(t) /\ vm.conf.det /\ vm.conf.call
    /\ Spawn(t, VM(Fresh, [vm.conf EXCEPT !.write = FALSE], IF addr = Self THEN store ELSE Vacant),
             Born("call", addr, HiddenIn(vm)))

(* Sandbox, on a copy of the caller's storage.                             *)
Sandbox(t, allow) ==
    LET vm == Running(t) IN
    /\ Alive(t)
    /\ Spawn(t, VM(Fresh, Conf(vm.conf.det, vm.conf.write /\ allow, vm.conf.send /\ allow, FALSE, FALSE), vm.mem),
             Born("sandbox", born[vm.id].addr, HiddenIn(vm)))

\* Mutant: a non-deterministic VM keeps its caller's permissions
NondetKeeps(conf) == [conf EXCEPT !.spawn = FALSE]

NondetConf(conf) == Conf(FALSE, FALSE, FALSE, FALSE, FALSE)

(* run_nondet: a leader waits for the block, a validator has it run beside *)
(* the caller with the leader's result, sync mode only replays the result. *)
RunNondet(t, free) ==
    LET vm == Running(t)
        new == VM(Fresh, NondetConf(vm.conf), vm.mem)
    IN  /\ Alive(t) /\ vm.conf.spawn
        /\ \/ tx.role = "leader" /\ free = t
              /\ Spawn(t, new, Born("nondet", born[vm.id].addr, TRUE))
           \/ /\ tx.role = "validator" /\ free # 0 /\ stacks[free] = <<>>
              /\ \A u \in 1..(free - 1) : stacks[u] # <<>>
              /\ Spawn(free, new, Born("nondet", born[vm.id].addr, TRUE))
           \/ tx.role = "sync" /\ free = t /\ UNCHANGED vars

\* Mutant: a sandbox works on its caller's storage
FinishSharing(t, caller, vm) ==
    IF born[vm.id].kind = "sandbox" THEN [caller EXCEPT !.mem = vm.mem] ELSE caller

(* Nothing of a sub-VM but its answer comes back to the caller.            *)
Resumed(t, caller, vm) == caller

(* A VM ends: its return, an error of the contract or of the VM.           *)
Finish(t, ok) ==
    LET vm == Running(t)
        below == SubSeq(stacks[t], 1, Len(stacks[t]) - 1)
    IN  /\ Alive(t)
        /\ stacks' = [stacks EXCEPT ![t] =
             IF below = <<>> THEN <<>>
             ELSE [below EXCEPT ![Len(below)] = Resumed(t, @, vm)]]
        /\ outcome' = IF t = 0 /\ below = <<>>
                      THEN <<FullResult(ok, vm.mem, vm.meta /\ (tx.init \/ tx.sender \in store.upgraders))>>
                      ELSE outcome
        /\ UNCHANGED <<store, tx, locks, posted, born, opened>>

(* Once every VM has ended the host has the result.  It holds the storage  *)
(* changes (make_delta) of a failed main VM too; what the host does with   *)
(* those is its own affair.                                                *)
Commit(keep) ==
    /\ Quiet /\ outcome # <<>> /\ (outcome[1].ok => keep)
    /\ store' = IF keep THEN outcome[1].mem ELSE store
    /\ opened' = (opened \/ (keep /\ outcome[1].open))
    /\ outcome' = <<>>
    /\ tx' = [tx EXCEPT !.role = "none"]
    /\ UNCHANGED <<locks, stacks, posted, born>>

Next ==
    \/ \E sender \in Senders, init \in BOOLEAN, role \in {"leader", "validator", "sync"},
          perms \in Permissions, loads \in BOOLEAN : StartTx(sender, init, role, MainConf(perms), loads)
    \/ \E t \in Threads, slot \in Slots : Alive(t) /\ \E v \in Contents(slot, Running(t)) : StorageWrite(t, slot, v)
    \/ \E t \in Threads, v \in 0..Balance : EthSend(t, v) \/ PostMessage(t, v) \/ DeployContract(t, v)
    \/ \E t \in Threads, addr \in {Self, "other"} : CallContract(t, addr)
    \/ \E t \in Threads, allow \in BOOLEAN : Sandbox(t, allow)
    \/ \E t, free \in Threads : RunNondet(t, free)
    \/ \E t \in Threads, ok \in BOOLEAN : Finish(t, ok)
    \/ \E keep \in BOOLEAN : Commit(keep)

Spec == Init /\ [][Next]_vars

-----------------------------------------------------------------------------
(* Properties.                                                             *)

Newest == CHOOSE i \in 0..MaxVms : (i = 0 \/ born[i].kind = "main") /\ \A j \in (i + 1)..MaxVms : born[j].kind # "main"
Authors(mem) == {mem.code, mem.data} \ {0}
IdsUpTo(t, i) == {stacks[t][j].id : j \in 1..i}

(* Whatever runs below a non-deterministic block, sandboxes it starts      *)
(* included, sends no message and writes to no copy of the storage: all    *)
(* nodes reach the same state though their blocks differ (genlayer_sdk.rs  *)
(* run_nondet, sandbox).                                                   *)
NondetLeavesNoTrace ==
    LET Hidden == {i \in VmIds : born[i].hidden} IN
    /\ \A i \in Hidden : ~ posted[i].any
    /\ \A t \in Threads : \A i \in DOMAIN stacks[t] : Authors(stacks[t][i].mem) \cap Hidden = {}

(* A VM sees the committed state, the writes of its transaction's main VM  *)
(* and of the VMs it runs in; what a sandbox wrote is gone when it ends,   *)
(* and never reaches the committed state (lib.rs run_with_impl,            *)
(* genlayer_sdk.rs sandbox, call_contract).                                *)
WritesStayInside ==
    /\ \A a \in Authors(store) : born[a].kind = "main"
    /\ \A t \in Threads : \A i \in DOMAIN stacks[t] :
         Authors(stacks[t][i].mem) \subseteq
            Authors(store) \cup IdsUpTo(t, i) \cup {a \in VmIds : born[a].kind = "main" /\ a >= Newest}

(* No VM sends more than the contract holds, over all of its messages      *)
(* (messages_decremented).                                                 *)
EachVmWithinBalance == \A i \in VmIds : posted[i].value <= Balance

(* After deployment the metadata of a contract whose constructor left its  *)
(* default locks alone never changes, and a locked slot of any contract    *)
(* changes only for a sender among its upgraders (host/mod.rs              *)
(* get_locked_slots_for_sender, root.py lock_default).                     *)
MetadataGuarded ==
    [][ store.code # 0 =>
          /\ ~ opened => \A s \in Metadata : store'[s] = store[s]
          /\ tx.sender \notin store.upgraders => \A s \in store.locked : store'[s] = store[s] ]_vars

(* 03-wasi_genlayer_sdk.rst asks for sufficient balance for every message  *)
(* and counts what the current transaction consumed.                       *)
SpendsWithinBalance ==
    \A addr \in {Self, "other"} :
        FoldFunctionOnSet(+, 0, [i \in VmIds |-> posted[i].value], {i \in VmIds : born[i].addr = addr}) <= Balance

-----------------------------------------------------------------------------
(* The inductive invariant behind the properties.                          *)

Mem   == [code : 0..MaxVms, locked : SUBSET Slots, upgraders : SUBSET Senders, data : 0..MaxVms]
Confs == [det : BOOLEAN, write : BOOLEAN, send : BOOLEAN, call : BOOLEAN, spawn : BOOLEAN]
Vms   == [id : VmIds, conf : Confs, mem : Mem, spent : Nat, meta : BOOLEAN]
Results == [ok : BOOLEAN, mem : Mem, open : BOOLEAN]
Kinds == {"none", "main", "call", "sandbox", "nondet"}

TypeOK ==
    /\ store \in Mem /\ locks \subseteq Slots /\ opened \in BOOLEAN
    /\ tx \in [n : 0..MaxTx, sender : Senders \cup {"none"}, init : BOOLEAN,
              role : {"none", "leader", "validator", "sync"}, calls : 0..MaxCalls]
    /\ stacks \in [Threads -> Seq(Vms)]
    /\ outcome \in Seq(Results) /\ Len(outcome) <= 1
    /\ posted \in [VmIds -> [any : BOOLEAN, value : Nat]]
    /\ born \in [VmIds -> [kind : Kinds, addr : {Self, "other"}, hidden : BOOLEAN]]

Mains == {a \in VmIds : born[a].kind = "main"}

(* Numbers are given out in order, and what a VM sent stays on its number. *)
BornInv ==
    /\ \A i, j \in VmIds : i < j /\ born[j] # Unborn => born[i] # Unborn
    /\ \A i \in VmIds : /\ born[i].kind = "main" => ~ born[i].hidden
                        /\ born[i] = Unborn => posted[i] = [any |-> FALSE, value |-> 0]
                        /\ born[i].hidden => ~ posted[i].any
                        /\ posted[i].value <= Balance

(* A number belongs to one live VM, which has counted what it sent.        *)
LiveVm(t, i) ==
    LET vm == stacks[t][i] IN
    /\ born[vm.id] # Unborn
    /\ posted[vm.id].value = vm.spent
    /\ born[vm.id].hidden => ~ vm.conf.det
    /\ \A u \in Threads : \A j \in DOMAIN stacks[u] : stacks[u][j].id = vm.id => u = t /\ j = i

(* What a copy of the storage may hold: a VM that may start a              *)
(* non-deterministic block has no writes but the main VM's in its copy, so *)
(* none of another VM reaches the thread the block runs on.                *)
CopyOfVm(t, i) ==
    LET vm == stacks[t][i] IN
    /\ \A a \in Authors(vm.mem) : born[a] # Unborn /\ ~ born[a].hidden
    /\ Authors(vm.mem) \subseteq Authors(store) \cup IdsUpTo(t, i) \cup {Newest}
    /\ vm.conf.spawn \/ (t = 0 /\ i = 1) => Authors(vm.mem) \subseteq Authors(store) \cup {Newest}
    /\ vm.conf.spawn /\ vm.conf.write => vm.id = Newest
    /\ t = 0 /\ i = 1 => vm.id = Newest

CopyInv ==
    /\ Authors(store) \subseteq Mains
    /\ outcome # <<>> => Authors(outcome[1].mem) \subseteq Mains
    /\ \A t \in Threads : \A i \in DOMAIN stacks[t] : LiveVm(t, i) /\ CopyOfVm(t, i)

(* What the main VM, and after it the result, keeps of the metadata.       *)
Kept(mem, open) ==
    /\ mem.code # 0
    /\ IF tx.init THEN open \/ (Metadata \subseteq mem.locked /\ mem.upgraders = {})
                  ELSE \A s \in locks : mem[s] = store[s]

MetaInv ==
    /\ tx.role = "none" => Quiet /\ outcome = <<>>
    /\ tx.role # "none" => locks = LockedSlotsForSender(tx.sender) /\ (tx.init <=> store.code = 0)
    /\ store.code = 0 => store = Vacant
    /\ store.code # 0 /\ ~ opened => Metadata \subseteq store.locked /\ store.upgraders = {}
    /\ stacks[0] # <<>> => Kept(stacks[0][1].mem, stacks[0][1].meta)
    /\ outcome # <<>> => Kept(outcome[1].mem, outcome[1].open)

ContractInv == TypeOK /\ BornInv /\ CopyInv /\ MetaInv
=============================================================================
