# TLA+ development of GenVM

GenVM executes "intelligent contracts": programs that may run
non-deterministic blocks (web, LLM) whose results validators have to accept.
An executor in Rust runs the WASM code, a manager starts executors, and a Python
standard library (with protobuf) is what contracts are written against.  This
directory holds TLA+ models of these parts, the TLC configurations that check
them and TLAPS proofs about the executor, the manager and the tools.  Line
numbers in `PROJECT.json` ("map") tie every definition to the source.

## 1. Inventory

| Component | State | Operations | Interacts with | Hard behaviour |
|---|---|---|---|---|
| Validator queue (`rt/supervisor/mod.rs`, `common/src/sync.rs`) | task channel, countdown of tasks, smallest disagreeing call, first error, read/write lock of the workers | submit, receive, skip, run, await | contract VM (submits), `run_with` (awaits), cancellation | two workers, cancellation at any await, a full channel, lost wake-ups |
| Top-level execution (`lib.rs`, `host/mod.rs`) | result of the contract, merged result, host socket | run, merge, notify, consume | queue, host | which of two errors wins, cancellation late in the run, a dying host |
| RAM budget (`rt/memlimiter.rs`) | remaining and least remaining bytes per mode, consumed bytes per handle | consume, release, derived, drop | every VM of the mode | lock-free updates from several threads, u32 wrap-around |
| Descriptors (`wasi/vfs.rs`, `wasi/preview1.rs`) | open descriptors, free list, next number | place_content, path_open, fd_close | RAM budget, SDK results | failures between charging and installing |
| Contract storage (`rt/vm/storage.rs`) | overridden pages, shared page budget | read, write, write_code, make_delta | host storage, sandboxes, events | partial pages, budget exhausted in mid-write, copies sharing a budget |
| SDK calls (`wasi/genlayer_sdk.rs`) | permissions, storage copy, spent value and posted messages of each VM | write, message, sandbox, call, nondet block | storage, host, queue | nested VMs, failures after effects, several transactions |
| Manager (`manager/run.rs`) | executions, permits, waiting requests | start, stop, fetch, gc, set permits | executor processes | process exit against fetch and gc, permits lowered in use |
| Storage library (`py/storage/`) | slots and offsets of arrays, trees, records | get, set, insert, delete, slices | storage | rotations over recycled cells, shifting of indirections, slice edges |
| Vector index (`vecdb.py`) | a tree of nodes over storage arrays | insert, remove, knn | storage library | a removed root promotes a child, ids are reused |
| Calldata, EVM ABI, Keccak | none (the encoder's pending tails) | encode, decode, digest | host, contracts | canonical form, heads and tails, padding |
| Contract interface (`_genlayer_runner.py`, `get_schema.py`, events, `gl/vm.py`, `eq_principle.py`) | none | dispatch, schema, emit, vote | calldata, SDK | two descriptions of one method, errors compared as results |
| Protobuf (`google/protobuf`) | messages with listeners and cached sizes, descriptor pool | set, clear, merge, serialise, parse, add file, find, JSON | contracts | stale caches, half-added files, predicted tags |
| Test runner (`tools/ya-test-runner`) | latches, results | schedule, run, filter, report | executor | tasks in any order, steps that raise |
| Installer (`modules/install`) | files on disk | download, patch, register | file system, network | a crash between any two steps |
| Runner cache, module client, manager's modules, LLM and web modules, logging, build | | | | see section 6 |

Properties that make each correct: the queue gives one right answer and terminates;
the host hears one result after at most one disagreement; memory and pages are
conserved and paid once; descriptors are handed out once; storage behaves as an
array of bytes and the library's structures as values; sub-VMs leave no trace they
may not leave; executions hold no more permits than the operator was told once a
limit is in force, and get those they wait for; encodings are canonical and can be
read back; protobuf's caches are true; the test runner counts every case; an
installation that reports success has what its flags promise (executors are whole if
`bin_check` ran, runners if `runners_download` did with `error_on_missing`).
"hazards" in `PROJECT.json` lists the hard spots at their lines, those without a
property included.

## 2. Modules

| Module | Models | Composes |
|---|---|---|
| `NondetVerdict` | abstract promise of `await_nondet_vms` | |
| `NondetQueue` | the queue, its two workers, `Waiter`, cancellation | refines `NondetVerdict` |
| `NondetQueueProofs` | theorems about `NondetQueue` | extends it |
| `RunWith` | one execution in leader, validator and sync mode with its host | extends `NondetQueue` |
| `MemLimiter` | the budget, one step per atomic operation | |
| `Vfs` | descriptor tables of several VMs of one pool | extends `MemLimiter` |
| `FlatStorage` | abstract storage: an array of bytes per slot | |
| `Storage` | paged overrides, budget, sandboxes, delta | refines `FlatStorage` |
| `Contract` | transactions of one contract and their trees of VMs | |
| `Manager` | permits and executions of the manager | |
| `OrderedMap` | abstract mapping in key order | |
| `TreeMap` | the AVL tree over storage cells | refines `OrderedMap` |
| `PyStorage` | arrays, records and indirections in slots | refines plain values |
| `Slices` | `DynArray` slices | against Python lists |
| `VecDB` | the vector index | |
| `Calldata`, `EvmAbi`, `Sponge` | the codecs and the hash | |
| `Dispatch`, `EqPrinciple` | methods and schema, events, validators' votes | |
| `ProtoWire` | protobuf encoder and decoder | |
| `ProtoMessage` | messages, listeners, presence, cached sizes | |
| `DescriptorPool` | pool and database of descriptors | |
| `FieldMask`, `WellKnown`, `JsonFormat` | well-known types and JSON | |
| `TestRunner`, `TestTools` | the test runner; steps, filters, expressions | |
| `Install`, `MicroYaml` | the installer; the YAML it reads | |
| `RunWithProofs`, `VfsProofs`, `StorageProofs`, `ContractProofs`, `ManagerProofs` | theorems about the module of the same name | extend it |
| `ToolProofs` | theorems about `TestRunner` and `Install` | extends both |
| `Sums` | lemmas on sums over finite sets | used by the proofs |
| `MC*` | instances for TLC; `MCCollections` puts the Python side in one specification, `MCTools` has the inputs of the tools | |

**NondetQueue.** `mainPc` is the contract and, after it, `await_nondet_vms`
(close, give up the own count, look whether the channel is empty, run the
secondary processor, take the write lock).  `workerPc` is the place in
`nondet_vm_processor`; `select!` is a choice between the branches that are
ready, and `parked` is a worker whose `Notify` future has registered, so that
the single permit of `notify_one` is modelled.  Receiving a task, loading
`nondet_call_disagree`, storing the outcome and dropping the token are separate
steps.  `verdict` fixes in advance how each block ends; after cancellation a run
may end as a VM error instead.

**RunWith.** `role` and `hostUp` are the host (external).  The contract's calls
are `SyncCall`, `LeaderCall`, `ValidatorCall` and `LeaderResultFails`;
`ContractEnds` is the end of `run_with_impl`; `Merge` is the merge and the
override after cancellation; then `NotifyDisagreement` and `ConsumeResult`.
`sawCancel` remembers what `is_cancelled()` answered at the merge, which is what
the name of a failure depends on (`FailuresNamed`).

**MemLimiter and Vfs.** `consume` is load, compare_exchange (or retry),
fetch_min, fetch_add; `release` is fetch_add with its assertion, then
fetch_sub.  A VM's call (`call`) charges first and installs its descriptor
afterwards as in the code.  Everything that only takes memory (memory and table
growth, code, archives, mapped files) is `Grow`.

**Storage.** A frame per nested VM holds its pages; a sandbox appends a copy and
its return drops it.  A write goes page by page in the code's order (partial
first, partial last, the rest); `Outcomes` is the set of its ends: complete, out
of pages, host answers with an error code (both VM errors), host unreachable (an
internal error).  Bytes are named by the write they come from, so an offset
error shows up as a wrong byte.  `Read` is checked as a function in every state.
`make_delta` goes through the pages in key order and lengthens the last entry or
begins a new one; an execution that ends in an internal error sends none.

**Contract.** A transaction starts a main VM with permissions; each thread of
execution is a stack of VMs, and a validator's non-deterministic block is a
thread beside its caller.  A slot holds the number of the VM that wrote it,
except the slots of the locks and upgraders, whose contents decide which slots
the next transaction finds locked.  `Resumed` is what the caller of a finished
VM goes on with.  The host stores what an execution reports, also of a failed
one, or drops it: both are possible.

**Manager.** Permits come from a fair semaphore with waiting requests in line.
Requests may die at any await (their client goes away); processes end by
themselves, are killed, and their results are fetched or collected.
`set_permits` gives back what it withheld before, then raises the maximum or
waits in line for what it is to withhold; its history (`told`, `open`, `top`) is
what an operator knows: the limit last answered, whether a lower one was asked
for since, and the limit last raised to.

**Python side.** `TreeMap` keeps cells with left, right and balance, a length and a
free list; a deletion is one action that leaves the path it walked in `seq`, and
each turn of the code's rebalancing loop is another. An insertion takes a cell and
links it (`Link`), then the supplier answers and the node is initialised
(`Initialise`), or something raises and the node stays as it is (`Abandon`).
`PyStorage` keeps slots of words and describes types by layouts; arrays of
indirections show whether two items share a slot. `VecDB` works on points of a line.
The codecs are operators: bytes are numbers, sizes and limits are constants
(`AddrSize`, `Rate`, ...) small enough for every edge to be met. `EqPrinciple` keeps
a value's Python type beside what is in it, since `==` does not tell `True` from
`1`. `ProtoMessage` is a heap of message objects with their listeners; `misled`
holds the parents whose given-up member of a oneof was written to; `DescriptorPool`
has actions for each way of adding a file and operators for each lookup.

**Tools.** `TestRunner` runs the batches of a suite one after the other, a task
per case, and waits on the batch's latch (`waiting`) before it goes on; `Install`
has an action per stage of the script and one per change to the disk (a file is
opened, then closed), with a crash possible between any two and a fresh start
after it.

Definitions commented "Mutant" are mistakes the code could plausibly contain;
substituted for the definition after them they break the property `PROJECT.json`
names. Some properties have several parts, and these mutants break the other
ones: `TopicCut` (events, `InterfaceSound`), `ScalarStorePacked`
(`WireFaithful`), `NormalizeBelow`, `DigitsShort`, `GetOrCreateAnew`,
`ConvertFieldOver` (`WellKnownSound`), `UpdateOneofKeeping`
(`MessagesConsistent`), `OpsFlat`, `PoppedOnce` (`FilesAsWritten`),
`AwaitNothing` (`RunnerSound`).

## 3. Runs

| Run | Result | Shows |
|---|---|---|
| `queue` | passes | token count, no lost task, right verdict, monotone cells, refinement of `NondetVerdict`, the inductive invariant of the proofs; everybody who waits is woken, except a contract blocked in `send` after cancellation |
| `queue_shutdown` | violation | a contract blocked on a full channel survives cancellation |
| `run_with_safety` | passes | which result is reported; what a failure is called, which depends on cancellation at the merge alone; what the host is told, and in which order |
| `run_with_cancelled` | violation | a cancelled execution may report an unvalidated return |
| `vfs_accounting` | passes | budget conserved under all interleavings, exact charges, distinct descriptors |
| `vfs_leak` | violation | a failed `path_open` loses its descriptor |
| `storage_flat` | passes | reads, delta, budget, refinement of `FlatStorage` |
| `contract` | passes | non-deterministic VMs leave nothing behind, what a sandbox or call wrote is gone with it, no VM spends more than the balance, locked metadata changes only by an upgrader |
| `contract_balance` | violation | a contract and its sandbox together spend more than the balance |
| `manager` | passes | executions hold no more permits than `set_permits` last answered until a lower limit is asked for, and never more than the limit last raised to; a request that waits for permits does not wait for ever |
| `collections` | passes | the Python side (below) |
| `abi_inverse` | violation | a static tuple behind bytes in a dynamic tuple is not decoded to what was encoded |

`collections` checks one specification whose behaviours choose a part and then
run it alone:

| Property | Part | States |
|---|---|---|
| `TreeSound`, `ImplementsMap` | `TreeMap` | search tree, AVL balance, every cell used once or free, also while a supplier runs and after it raised, the node in hand left out; a call stores and answers what it should, and the tree implements `OrderedMap` |
| `IndexSound` | `VecDB` | parents and children name each other, nothing freed is reached, and a search misses nothing that is stored at a finite distance |
| `StorageIsValues` | `PyStorage` | storage in slots behaves as nested values: no assignment shows through another item |
| `SlicesLikeList` | `Slices` | reading and deleting a slice does what a list does; of what a list accepts, assigning does so exactly for regular slices (`Regular`: bounds in order and a whole number of steps apart, or backwards one by one) and never touches the items before the slice |
| `CalldataCanonical` | `Calldata` | what is encoded is decoded back and nothing else decodes to it |
| `AbiFaithful` | `EvmAbi` | for codecs without the nesting of `abi_inverse` the encoder writes what the ABI's recursive definition says, and the decoder reads it |
| `DigestOfWholeMessage` | `Sponge` | a digest, also one taken between updates, is that of all bytes so far, however they were cut |
| `InterfaceSound` | `Dispatch` | a call reaches a method exactly when the schema offers it; an event's topics and blob hold its fields |
| `VotesSound` | `EqPrinciple` | whatever the leader sends, a validator agrees only with a result it accepts (`VoteSound`); which honest runs agree (`HonestVote`) |
| `WireFaithful` | `ProtoWire` | two encodings one after the other parse to the merge of their messages; whatever parses is written back so that it parses the same |
| `MessagesConsistent`, `ChangesStayInside` | `ProtoMessage` | cached sizes and presence are true; content is present and its rival in the oneof gone, unless a member that was given up was written to; a call changes only its own tree |
| `PoolSound` | `DescriptorPool` | accepted files stand whatever failed around them: their names are theirs alone and what they use is there; a class knows its message's extensions |
| `WellKnownSound` | `FieldMask`, `WellKnown`, `JsonFormat` | masks, times, structs and JSON mean what they stand for; a printed message parses to itself, but that an unset `Value` comes back as null, and members are taken in turn when two name one field |
| `FilesAsWritten` | `TestTools`, `MicroYaml` | optimised steps run alike; tag filters mean what they say; documents are read as written |
| `RunnerSound` | `TestRunner` | every case counted once, console cases alone; a case that raised without counting down would leave the stage waiting, which TLC reports as a deadlock |
| `InstallSound` | `Install` | whatever crashed before, a run that ends well leaves every wanted executor whole if `bin_check` was on (one that is missing is an error only with `error_on_missing`) and its runners whole if `runners_download` and `error_on_missing` were |

Bounds. Three calls are the least with which a worker holds one block, another
is in the channel and a third decides the order; a capacity of one makes the
channel full (the theorems hold for every capacity). `RunWith` needs two calls
(a disagreement and a block after it). Two VMs contend for the RAM budget, which
is small enough (`Limit` 6) to be exhausted and to wrap; `LastStd` 0 leaves
stdin as the only preopened descriptor, the others are never charged. Closing
stdin is bounded by `MaxStdinCloses`. Pages of two bytes and slots of three
pages have every alignment of a write (inside a page, partial first, middle,
partial last); the code takes two of the three pages of the budget, so that
later writes run out of it part way. One nested sandbox (`MaxDepth` 2) suffices
since a sandbox may not see below its caller; two writes allow one before and
one inside it. One slot is locked. In `Contract` four VMs give a chain of three
and one beside it, three transactions a deployment, an upgrade and a call after
it. In `Manager` one execution takes one permit and the other two, of three, and
`Targets` are below and above that. From the empty map, four keys take every
sequence of `SmallCalls` calls, for cells and free list; from every AVL tree of
at most nine nodes and height four, and the sparsest of height five (where a
deletion rebalances at every level), one call, whose supplier may raise; the
index, the heap, messages and pools take every sequence of the calls their
constants bound, which count the message objects still in use. Messages start
empty, and once more with a member of a oneof cleared and then written to, since
from empty messages the bound would end before anything follows that.
Slices have every bound up to one past either end. Codec inputs are
listed in `MCCodecs`, `MCWellKnown` and `MCCollections`: values at each edge of
their format, and bytes that are no encoding at all. There are four suites of
test cases (console cases among others, a case that stops early, a case without
steps, no case at all) and three executors, one of them superseded, whose
registries share a runner; each of two starts of the script takes any of the 128
sets of flags, so that a complete run may follow one that crashed (the theorem
has any number).

Fairness.  `queue`, `queue_shutdown`: weak fairness of the workers, of
`await_nondet_vms` and of `send`: tokio polls every task that was woken, and a
validator block ends (the host kills it by cancellation otherwise).  The
contract itself is not assumed to end, except that a cancelled one does:
`should_quit` interrupts its WASM code.  `manager`: weak fairness of the
requests' progress and of the collector's loop, which the runtime schedules, and
of deadlines, which pass; strong fairness of the collector's steps that need the
lock of an execution, since that lock serves its waiters in turn.  Processes need
not end by themselves: the collector kills them after their deadline.

Deadlock checking is off where executions end and where a VM that has trapped or
a panicked process takes no more steps; it is on for `collections`, whose
finished parts stutter.

## 4. What was met

Findings (section "findings" of `PROJECT.json`):

- `send()` does not watch the cancellation token, so a full channel blocks an
  execution that was told to stop.
- after cancellation a `Return` is passed on although queued blocks never ran.
- `path_open` leaks the descriptor of a failed open.
- a static tuple inside another tuple is encoded after what its siblings queued:
  in a dynamic tuple, after the tail of the bytes before it.
- the value a contract may send is counted per VM.

Met while modelling, without a run; the models follow the code in each case.

*Executor.*  A block can be skipped because of a later one
(`supervisor/mod.rs:430`, whose message at 431 says "due to disagreement in
previous one"), so the smallest disagreeing call need not be reported:
`ReportedNearMinimum` is what holds, at most one smaller block was not run.
Stdin is released without having been consumed (`vfs.rs:39-43`, `85`), so the
budget is exact only modulo 2^32 and the assertion at `memlimiter.rs:39` can
fail; `LimiterSound` states what remains true.  Storage changes are reported
with failed executions too (`lib.rs:206-226`); whether they are rolled back, as
`03-wasi_genlayer_sdk.rst:275` promises, is the host's decision, and the test
host (`tests/runner/run.py:571`) stores them.  A validator block interrupted by
cancellation counts as a disagreement.  Messages posted by a sub-VM that fails
stay posted, events of sub-VMs are dropped.

A block's or contract's internal error is reported as a timeout once cancellation
was seen at the merge (`lib.rs:253-271`), whatever caused it.

*Manager.*  `GET /permits` answers the maximum, not what is free.  The comment at
`run.rs:118` is right: every call of `set_permits` first gives back what earlier
ones withheld, and those in line may take it.  When the limit
was lowered from four to two, a call with three lets four run until it is answered;
a call that is refused (below 2) or whose client goes away lifts the earlier
limit for good.  `HeldWithinLimit` is what remains: once a call is answered the
executions hold no more than it said until a lower limit is asked for, and they
never hold more than the limit last raised to.

*Python library.*  Positional arguments of an event are bound to its field names
in sorted order (`py/_internal/event.py:75-86`), so `TestEvent(42, 'create')`
declared with `(user_id, action)` is emitted with `action` 42.
`TreeMap.compute_if_absent` stores the new value and then raises `IndexError` for
an absent key (`tree_map.py:320`), where its docstring (308) says it returns it.
An insertion links its cell before it asks for the value (`tree_map.py:342-354`):
a supplier that raises leaves a node with an old key in a tree that was not
rebalanced, and one that itself writes to the map works on such a tree.  The
executor drops the writes of a contract that ends by the exception; the model
shows the tree as it is left (`Abandon`) and does not follow a contract that
catches the exception and writes on, nor a supplier that writes to the map.
Slices are assigned as in a list (`vec.py:15`) only if they are regular:
`a[::2] = [x, y, z]` on five items inserts where a list replaces, since the
length is rounded down (`vec.py:79`), `a[3:1] = [x]` raises after it has moved
items, and a slice that goes backwards by more than one is never assigned rightly;
`insert(len)` raises.
`strict_eq` promises results "of the same type" (`eq_principle.py:24`) and
compares with `==`, for which `True` is `1`.  Only the leader of
`prompt_non_comparative` asserts that its function returned a `str`
(`eq_principle.py:115`): when it returned anything else, the leader fails where
honest validators do not, and they all vote against (`HonestVote`).
The index is called a cover tree, but `_max_level` is never raised
(`vecdb.py:223`), so all nodes hang under one root and there are no covering
bounds to keep; searches visit every node.

*Protobuf.*  `DiscardUnknownFields` and reading an absent key of a scalar map do not
mark a message dirty; `ClearField` of a message in a oneof leaves its listener, so
that writing to the member given up names it in `_oneofs` though it is not there
(`python_message.py:1540-1544`); the next assignment of its rival raises `KeyError`
after it was stored (1474), and later both members may be present.  `IsInitialized`
skips message maps.  `s['k'] = s['k']` empties a struct's member and reading a
missing key inserts one.  JSON: an unset `Value` is printed as `null`, which parses
as `null_value` (`json_format.py:325-328`); a field given under both its names is
not refused, `[]` is accepted as a message, parsing `{}` into an `Any` keeps the old
content, the depth limit does not count inside structs.  A failed conversion leaves
half-built descriptors in the pool; enums and services of the root package added
with `Add` cannot be found (`descriptor_database.py:52-61`); another file under a
known name keeps the old descriptor and replaces its bytes.

*Test runner.*  `should_stop` (`stage/execution.py:113`) is looked at by every case
and set by nothing.

*Installer.*  A crash while an executor is unpacked or patched leaves a file that
is taken for complete later; values of a registry that are neither strings nor
lists are dropped.  `micro_yaml` refuses `a: true`, `a: 5 # x` and `a: []`, reads
`- a: 1` as a string, and lets an empty value swallow the next key.  Properties
that these break are stated for the inputs the installer's own files contain.

## 5. Proofs

Every theorem holds for all values of the constants that satisfy the module's
assumption; the bounds of section 3 (numbers of calls, writes, VMs,
transactions) are constants like the others, so nothing depends on their size.
Each proof has the same shape: the initial states satisfy an inductive
invariant, every action keeps it (a lemma per action, or per action and part of
the invariant), and the properties follow from it.  On the instances of
section 3 TLC finds no violation of any of these invariants either.

**`NondetQueueProofs`** (assumption `QueueAssumption`: capacity positive,
`NoCall` above all calls).

- `TypeCorrect`: types, and `countdown` is the number of live tokens;
- `Inductive`: `Spec => []IndInv`;
- `NothingLeftBehind`, `AcceptedIsAgreed`, `ReportedIsNearMinimum`: the three
  safety properties of the queue;
- `Monotone`: `VerdictMonotone`;
- `Implements`: `Spec => VerdictSpec`, every step is a step or a stutter of
  `NondetVerdict`.

None of the safety properties is inductive.  A worker may leave because the
countdown is zero, which says that the channel is empty only together with
`CountdownCountsTokens` (`ZeroMeansDrained`).  That at most one smaller block is
unaccounted for needs the order of the channel and that a task is in exactly
one place (`OrderInv`): when block d is stored, the only smaller block not yet
finished is in the other worker's hand (`OnlyOtherHandIsSmaller`).
`VerdictInv` ties the cells to the history, `StopInv` says when workers may be
gone.

**`RunWithProofs`** (the same assumption).  `RunInductive`: `RunSpec => [](IndInv /\
RunInv)`.  A step of an execution is a step of the queue or leaves the queue alone,
so `IndInv` comes from the queue's proof and `RunImplementsVerdict` from its
refinement.  `RunInv` adds where the execution is (`PhaseInv`), that the merged
result is the one computed from contract and queue, overridden exactly when
`sawCancel` holds (`MergedInv`), and that every message to the host belongs to
something the execution has done (`LogInv`). `ResultsAreSound` and `HostIsTold`
follow; the names of failures (`FailuresAreNamed`) come from `MergedInv` and from
what the queue knows of errors.  `EveryVoteIsSound` and `HonestVotes` are about
`EqPrinciple`, whose votes are the verdicts of the blocks: what `VotesSound` checks
on samples, for every result a leader may send and all outcomes, by cases on the
principle.  Without `LogInv` a second notification could not be excluded; without
`IndInv` an accepted merge would say nothing about the blocks.

**`VfsProofs`** (`LimiterAssumption`: finitely many VMs, a limit;
`VfsAssumption`: a stdin within the limit).  `AccountsKept`: `Spec => []VfsInv`;
`VfsTypeCorrect`, `LimiterIsSound`, `DescriptorsAreSound` follow.  Charges are
exact only between calls, so the invariant says what a call has been charged
for and has not installed yet (`Pending`), and what a release has given back and
not subtracted yet (`Settled`).  All equations are equalities as long as no
stdin was closed and congruences modulo 2^32 afterwards (`Agree`).  The
low-water mark needs the handles that are about to note it (`LowInv`).

**`StorageProofs`** (`StorageAssumption`: sizes positive, header and code fit in
the slot).  `StorageInductive`: `Spec => []StorageInv`, which is types,
`Nested` (a sandbox has every page of its caller, so that the pages it discards
are those it added) and `PaidExactlyOnce`; `PagesPaidOnce` is part of it.
`ReadsAreExact` rests on a lemma about the range the host is asked for: a page
that is not overridden lies after the known prefix and before the known suffix.
`StorageImplementsFlat` proves the refinement action by action: after any
outcome of a write the pages written are the first ones in the code's order and
hold exactly the write's bytes there, which is what `FlatStorage` lets a write
or a trapped write do.  `DeltaIsExact` first shows that the community module's
fold visits the pages in key order (`LastKey` leaves the largest key for the last
step), then that after each page the entries are maximal runs of neighbouring
pages in order (`AreRuns`): the next page either continues the last run or begins
one beyond it.  So every override is covered by exactly one entry, with its own
bytes, and nothing else is.

**`ContractProofs`** (`ContractAssumption`: balance and bounds are naturals).
`ContractInductive`: `Spec => []ContractInv`.  `BornInv` says that numbers are
given out in order and what was sent stays on its number; `CopyInv` what each
VM's copy of the storage may hold.  Its hard part: a VM that may start a
non-deterministic block has nothing in its copy but committed writes and the
main VM's, otherwise a block on another thread would see writes of a VM it does
not run in.  `MetaInv` says what the main VM and the result keep of the
metadata.  `NondetIsTraceless`, `WritesAreConfined`, `SpendsItsBalanceAtMost` and
the action property `MetadataIsGuarded` follow.

**`ManagerProofs`** (`ManagerAssumption`: finitely many executions, which may
ask for one permit or two).  `PermitsKept`: `Spec => []IndInv`, that is,
conservation of permits together with who may be in line (`LineInv`) and who may
hold permits (`HolderInv`); without them a grant could be given twice, or permits
be given back by an execution that has given them back.  `LimitInv` ties the
maximum to what the operator was told: between an answer and the next lower limit
they are equal, and with what is withheld the maximum is always the limit last
raised to.  `HeldIsWithinLimit` follows, since what is free is not negative.

**`ToolProofs`** (`SuitesAssumption`: suites are sequences of cases;
`InstallAssumption`: the manifest lists versions once each, each with a registry
of runners). `RunnerIsSound` (`RunnerSound`) follows from `RunnerInv`: batches
before the one at hand have ended and later ones have not begun (`InOrder`), the
latch that is waited for is the number of the batch's unfinished cases
(`LatchTrue`), and every ended case is in exactly one of the two counts
(`Tally`). Without `LatchTrue` a wait could end while a case of the batch runs,
and a console case would start beside it. `InstallKeepsPromise` (`InstallSound`)
holds for any number of starts and crashes. The promise is about the end of a
run; `ScriptInv` says what holds on the way there: the wanted versions behind
the one at hand are ready (`DoneIn`), the one at hand is as ready as the stages
behind it make it (`NowIn`), and a stage opens only files of its own version or
runners that are not whole (`WriteIn`). The last is what keeps a later version
from tearing a runner that an earlier one shares.

**`Sums`**.  `BudgetConserved`, `Contents`, `TotalHeld` and `EventsOf` are folds.
The lemmas show that the community module's fold over a finite set is a sum that
can be taken apart at any element, so that a step changes it by what it changes
in one term.  They are proved by the minimal counterexample among the subsets
(the subset order on a finite set is well founded), since induction rules with an
operator as parameter cannot be used.

Only model-checked:

- liveness (`queue`, `manager`): the prover does not handle fairness;
- the rest of the Python side: most modules have recursive operators, whose
  results for every input would need an induction over data that the prover does
  not offer; so do the invariants of `TreeMap` and `VecDB`, which speak of
  reachability in a tree.

## 6. Not modelled

WASM execution itself (wasmtime), reads and seeks of descriptors, the contents
of archives, HTTP and Lua, logging, configuration, code generation; the runner
and compilation caches, the module client, the manager's modules and version
selection (their hazards are listed). Of protobuf: `MessageSet`, floats, closed
enums in oneofs, options, text format, generated code. Of the installer: the
format of executables. `cloudpickle` and other vendored code is third-party. The
map covers about a third of the Python implementation; most of the rest is that
vendored or generated code, and front ends of the SDK calls that keep no state.
The components list of `PROJECT.json` gives the reason for each part.

## 7. Plan

Done, in this order: the queue with its proofs, `RunWith`, `MemLimiter` and
`Vfs`, `Storage`, `Contract`, `Manager`, the Python side.

Proved since: the executor with its storage delta, the manager, the validators'
votes, the test runner and the installer (section 5).

Models to come: `CacheMap` with the runner cache, one stream of the module client
with cancelled calls, the manager's modules.
