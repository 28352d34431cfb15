-------------------------------- MODULE Vfs --------------------------------
(***************************************************************************)
(* The descriptor table of a sub-VM (wasi/vfs.rs) and the calls that fill  *)
(* it and charge it to the VM's handle of the RAM budget: place_content    *)
(* for results of the SDK, path_open, fd_close, and the growth of memory   *)
(* and tables.                                                             *)
(***************************************************************************)
EXTENDS MemLimiter, Sequences

CONSTANTS FdCost,     \* MemoryLimiterConsts::FdAllocation
          Sizes,      \* sizes a content, a mapped file or a growth may have
          StdinLen,   \* length of the encoded message given as stdin
          LastStd,    \* last descriptor a VM starts with (3 in the code)
          MaxFd,      \* bound on descriptor numbers
          MaxStdinCloses  \* bound on the number of VMs that close their stdin

ASSUME VfsAssumption ==
  /\ FdCost \in Nat /\ StdinLen \in 0 .. Limit /\ LastStd \in Nat
  /\ Sizes \subseteq Nat \ {0}
  /\ MaxFd \in Nat /\ LastStd <= MaxFd
  /\ MaxStdinCloses \in Nat

Fds == 0 .. MaxFd

\* A descriptor: the message, the contents of a result, a mapped file, or
\* one of stdout, stderr and the directories.
Kinds == {"closed", "stdin", "content", "mapped", "other"}

Descriptors == [kind : Kinds, len : Nat]

File(k, n) == [kind |-> k, len |-> n]

Closed == File("closed", 0)

\* FileContents.release_memory, as the three places that make one set it.
release_memory(d) == d.kind \in {"stdin", "content"}

Calls == {"none", "grow", "content", "alloc", "fd"}

VARIABLES
  fds,            \* VFS.fds
  free,           \* VFS.free_descriptors
  next,           \* VFS.next_free_descriptor
  call,           \* what the VM's current call is doing
  file,           \* the descriptor it is about to install
  trapped,        \* the call trapped the VM
  grown,          \* history: memory taken by growth and mappings
  stdinCloses     \* history: how many VMs closed their stdin

vfsVars == <<fds, free, next, call, file, trapped, grown, stdinCloses>>
vars == <<limiterVars, vfsVars>>

TypeOK ==
  /\ LimiterTypeOK
  /\ fds \in [VMs -> [Fds -> Descriptors]]
  /\ free \in [VMs -> Seq(Fds)]
  /\ next \in [VMs -> Fds]
  /\ call \in [VMs -> Calls]
  /\ file \in [VMs -> Descriptors]
  /\ trapped \in [VMs -> BOOLEAN]
  /\ grown \in [VMs -> Nat]
  /\ stdinCloses \in 0 .. MaxStdinCloses

\* VFS::new: the message is descriptor 0 and is marked to be released.
StartFds == [fd \in Fds |-> IF fd = 0 THEN File("stdin", StdinLen)
                            ELSE IF fd <= LastStd THEN File("other", 0) ELSE Closed]

Init ==
  /\ LimiterInit
  /\ fds = [v \in VMs |-> StartFds]
  /\ free = [v \in VMs |-> <<>>]
  /\ next = [v \in VMs |-> LastStd]
  /\ call = [v \in VMs |-> "none"]
  /\ file = [v \in VMs |-> Closed]
  /\ trapped = [v \in VMs |-> FALSE]
  /\ grown = [v \in VMs |-> 0]
  /\ stdinCloses = 0

Spawn(v) == Derived(v) /\ UNCHANGED vfsVars

\* The VM and with it its handle and its descriptor table are dropped; the
\* table is made anew for the next VM.
EndVM(v) ==
  /\ call[v] = "none"
  /\ DropLimiter(v)
  /\ fds' = [fds EXCEPT ![v] = StartFds]
  /\ free' = [free EXCEPT ![v] = <<>>]
  /\ next' = [next EXCEPT ![v] = LastStd]
  /\ trapped' = [trapped EXCEPT ![v] = FALSE]
  /\ grown' = [grown EXCEPT ![v] = 0]
  /\ UNCHANGED <<call, file, stdinCloses>>

Ready(v) == call[v] = "none" /\ ~trapped[v]

\* The guest makes calls once its code has been read, charged and loaded.
GuestRuns(v) == Ready(v) /\ pc[v] = "idle" /\ grown[v] > 0

Enter(v, c) == call' = [call EXCEPT ![v] = c]

-----------------------------------------------------------------------------
\* memory_growing, table_growing, read_code, archives and file mappings.
Grow(v, n) ==
  /\ Ready(v)
  /\ ConsumeLoad(v, n)
  /\ Enter(v, "grow")
  /\ UNCHANGED <<fds, free, next, file, trapped, grown, stdinCloses>>

\* The size is taken first, then alloc_fd.
place_content(v, n) ==
  /\ GuestRuns(v)
  /\ ConsumeLoad(v, n)
  /\ Enter(v, "content")
  /\ file' = [file EXCEPT ![v] = File("content", n)]
  /\ UNCHANGED <<fds, free, next, trapped, grown, stdinCloses>>

\* alloc_fd comes before the path is looked up; mapped files were charged
\* when they were mapped.
path_open(v, n) ==
  /\ GuestRuns(v)
  /\ Enter(v, "alloc")
  /\ file' = [file EXCEPT ![v] = File("mapped", n)]
  /\ UNCHANGED <<limiterVars, fds, free, next, trapped, grown, stdinCloses>>

\* The caller of alloc_fd installs its descriptor.  path_open may fail
\* instead: `return` and `?` leave the function before its inspect_err, so
\* the descriptor it got is neither installed nor freed.
Install(v, fd) ==
  /\ \/ fds' = [fds EXCEPT ![v][fd] = file[v]]
     \/ file[v].kind = "mapped" /\ UNCHANGED fds
  /\ file' = [file EXCEPT ![v] = Closed]

\* Mutant: the descriptor stays on the free list.
alloc_fd_peek(v) ==
  /\ call[v] = "alloc"
  /\ free[v] # <<>>
  /\ Install(v, free[v][Len(free[v])])
  /\ Enter(v, "none")
  /\ UNCHANGED <<limiterVars, free, next, trapped, grown, stdinCloses>>

\* alloc_fd: the last freed descriptor,
alloc_fd_reuse(v) ==
  /\ call[v] = "alloc"
  /\ free[v] # <<>>
  /\ Install(v, free[v][Len(free[v])])
  /\ free' = [free EXCEPT ![v] = SubSeq(@, 1, Len(@) - 1)]
  /\ Enter(v, "none")
  /\ UNCHANGED <<limiterVars, next, trapped, grown, stdinCloses>>

\* or a new one, which has to be paid for.
alloc_fd_new(v) ==
  /\ call[v] = "alloc"
  /\ free[v] = <<>>
  /\ next[v] < MaxFd
  /\ ConsumeLoad(v, FdCost)
  /\ Enter(v, "fd")
  /\ UNCHANGED <<fds, free, next, file, trapped, grown, stdinCloses>>

\* consume returned true.
Granted(v) ==
  /\ ConsumeCounted(v)
  /\ \/ /\ call[v] = "grow"
        /\ grown' = [grown EXCEPT ![v] = @ + delta[v]]
        /\ Enter(v, "none")
        /\ UNCHANGED <<fds, next, file>>
     \/ /\ call[v] = "content"
        /\ Enter(v, "alloc")
        /\ UNCHANGED <<fds, next, file, grown>>
     \/ /\ call[v] = "fd"
        /\ next' = [next EXCEPT ![v] = @ + 1]
        /\ Install(v, next[v] + 1)
        /\ Enter(v, "none")
        /\ UNCHANGED grown
  /\ UNCHANGED <<free, trapped, stdinCloses>>

\* consume returned false: out of memory, except that a memory or a table
\* that exists already just does not grow.
Refused(v) ==
  /\ ConsumeRefused(v)
  /\ Enter(v, "none")
  /\ \/ trapped' = [trapped EXCEPT ![v] = TRUE]
     \/ call[v] = "grow" /\ UNCHANGED trapped
  /\ file' = [file EXCEPT ![v] = Closed]
  /\ UNCHANGED <<fds, free, next, grown, stdinCloses>>

\* fd_close of an open descriptor.
pop_fd(v, fd) ==
  /\ GuestRuns(v)
  /\ fds[v][fd] # Closed
  /\ fds' = [fds EXCEPT ![v][fd] = Closed]
  /\ free' = [free EXCEPT ![v] = Append(@, fd)]
  /\ IF release_memory(fds[v][fd]) THEN ReleaseAdd(v, fds[v][fd].len) ELSE UNCHANGED limiterVars
  /\ stdinCloses' = IF fds[v][fd].kind = "stdin" THEN stdinCloses + 1 ELSE stdinCloses
  /\ stdinCloses' <= MaxStdinCloses
  /\ UNCHANGED <<next, call, file, trapped, grown>>

Next ==
  /\ ~panicked
  /\ \E v \in VMs :
       \/ Spawn(v) \/ EndVM(v)
       \/ \E n \in Sizes : Grow(v, n) \/ place_content(v, n) \/ path_open(v, n)
       \/ alloc_fd_reuse(v) \/ alloc_fd_new(v) \/ Granted(v) \/ Refused(v)
       \/ \E fd \in Fds : pop_fd(v, fd)
       \/ LimiterStep(v) /\ UNCHANGED vfsVars

Spec == Init /\ [][Next]_vars

-----------------------------------------------------------------------------
\* Properties

Elements(s) == {s[i] : i \in 1 .. Len(s)}

OpenFds(v) == {fd \in Fds : fds[v][fd] # Closed}

Resting(v) == pc[v] = "idle" /\ call[v] = "none" /\ ~trapped[v]

\* The sizes of the contents a VM has open, stdin included.
ContentOf(v) == [fd \in Fds |-> IF fds[v][fd].kind \in {"stdin", "content"}
                                THEN fds[v][fd].len ELSE 0]

Contents(v) == FoldFunctionOnSet(+, 0, ContentOf(v), Fds)

\* What the VMs hold and what remains is always the whole budget: no
\* interleaving of load, compare_exchange, fetch_add and fetch_sub, and no
\* drop, loses or invents memory.  Once a VM has closed its stdin, which it
\* was not charged for, this is only so modulo 2^32.
BudgetConserved ==
  /\ Wrap(Total) = Limit
  /\ stdinCloses = 0 => Total = Limit

\* A VM between two calls has been charged for exactly its growth, its
\* descriptors and its open contents; closing and reusing descriptors never
\* drifts.  Its stdin is the exception: it is given back without having been
\* charged.
ChargedForWhatItHolds ==
  ~panicked => \A v \in VMs : Resting(v) =>
    consumed[v] = Wrap(grown[v] + FdCost * (next[v] - LastStd) + Contents(v) - StdinLen)

\* The assertion of release_no_consumed can fail only after a VM has closed
\* its stdin.
OverReleaseNeedsStdin == panicked => stdinCloses > 0

\* A descriptor is handed out once: free descriptors are closed, listed once
\* and were allocated before, and so were the open ones.
DescriptorsDistinct ==
  \A v \in VMs :
    /\ \A i, j \in 1 .. Len(free[v]) : free[v][i] = free[v][j] => i = j
    /\ Elements(free[v]) \cap OpenFds(v) = {}
    /\ \A fd \in Elements(free[v]) \cup OpenFds(v) : fd <= next[v]

\* A descriptor that was allocated is open or can be allocated again: the
\* inspect_err of path_open is there to free the one of a failed open.
NoDescriptorLost ==
  \A v \in VMs : Resting(v) => 0 .. next[v] = OpenFds(v) \cup Elements(free[v])

\* However the handles interleave, no memory is lost or invented, the
\* low-water mark is right, and a release of more than is held comes only
\* from a closed stdin (rt/memlimiter.rs; the parts are above and in
\* MemLimiter).
LimiterSound == BudgetConserved /\ LeastIsLowWater /\ OverReleaseNeedsStdin

\* Descriptors are handed out once, and a VM is charged for what it holds
\* (wasi/vfs.rs alloc_fd, free_fd, pop_fd; the parts are above).
DescriptorsSound == DescriptorsDistinct /\ ChargedForWhatItHolds

-----------------------------------------------------------------------------
\* The inductive invariant behind LimiterSound and DescriptorsSound

\* Equal modulo 2^32, and equal as long as no VM has closed its stdin.
Agree(a, b) == Wrap(a) = Wrap(b) /\ (stdinCloses = 0 => a = b)

\* What a call has been charged for and not installed yet.
Pending(v) == IF call[v] \in {"alloc", "fd"} /\ file[v].kind = "content" THEN file[v].len ELSE 0

\* What consumed_memory comes to once a release in progress is counted.
Settled(v) == consumed[v] - (IF pc[v] = "uncounting" THEN delta[v] ELSE 0)

\* A VM that has not trapped is charged for what it holds at every step of
\* its calls.
Charge(v) == grown[v] + FdCost * (next[v] - LastStd) + Contents(v) + Pending(v) - StdinLen

ChargedThroughout == \A v \in VMs : ~trapped[v] => Agree(Settled(v), Charge(v))

\* Which atomic operation a call can be at, and what it is about to install.
CallOK(v) ==
  /\ pc[v] = "absent" => consumed[v] = 0
  /\ LastStd <= next[v]
  /\ call[v] \in {"grow", "content", "fd"} <=> pc[v] \in {"comparing", "noting", "counting"}
  /\ call[v] = "alloc" => pc[v] = "idle"
  /\ trapped[v] => pc[v] = "idle" /\ call[v] = "none"
  /\ pc[v] \in {"noting", "counting"} => delta[v] <= seen[v]
  /\ call[v] = "content" => file[v].kind = "content" /\ file[v].len = delta[v]
  /\ call[v] = "fd" => delta[v] = FdCost /\ next[v] < MaxFd
  /\ call[v] \in {"alloc", "fd"} => file[v].kind \in {"content", "mapped"}

CallInv == \A v \in VMs : CallOK(v)

\* Nothing takes the place of a stdin that was not closed.
StdinInv == stdinCloses = 0 => \A v \in VMs : fds[v][0] = File("stdin", StdinLen)

\* The low-water mark has been noted, or a handle is about to note it.
LowInv ==
  ~panicked =>
    /\ low <= remaining /\ low <= least
    /\ \A v \in VMs : pc[v] = "noting" => low <= seen[v] - delta[v]
    /\ low = least \/ \E v \in VMs : pc[v] = "noting" /\ low = seen[v] - delta[v]

VfsInv ==
  /\ TypeOK /\ CallInv /\ StdinInv /\ LowInv
  /\ BudgetConserved /\ ChargedThroughout /\ OverReleaseNeedsStdin /\ DescriptorsDistinct
=============================================================================
