----------------------------- MODULE MemLimiter -----------------------------
(***************************************************************************)
(* The RAM budget of one mode (rt/memlimiter.rs): Limiter::new makes the   *)
(* shared cells, every sub-VM gets a derived() handle that counts what it  *)
(* took and gives it back when it is dropped.  VMs of one pool run on      *)
(* several threads (a nested VM of the secondary worker draws from the     *)
(* primary's pool), so every atomic operation is a step of its own.        *)
(***************************************************************************)
EXTENDS Integers, FiniteSetsExt, Functions

CONSTANTS VMs,     \* handles made by derived()
          Limit    \* u32::MAX

ASSUME LimiterAssumption == Limit \in Nat /\ IsFiniteSet(VMs)

VARIABLES
  remaining,   \* remaining_memory
  least,       \* least_remaining_memory
  consumed,    \* consumed_memory of each handle
  pc,          \* the atomic operation each VM executes next
  delta,       \* the argument of its current consume or release
  seen,        \* `remaining`, the local of consume
  panicked,    \* the assertion of release_no_consumed has failed
  low          \* history: the smallest value remaining_memory ever had

limiterVars == <<remaining, least, consumed, pc, delta, seen, panicked, low>>

Amounts == 0 .. Limit

\* u32 arithmetic of fetch_add and fetch_sub.
Wrap(n) == n % (Limit + 1)

LimiterTypeOK ==
  /\ remaining \in Amounts /\ least \in Amounts /\ low \in Amounts
  /\ consumed \in [VMs -> Amounts]
  /\ pc \in [VMs -> {"absent", "idle", "comparing", "noting", "counting", "uncounting"}]
  /\ delta \in [VMs -> Nat]
  /\ seen \in [VMs -> Amounts]
  /\ panicked \in BOOLEAN

LimiterInit ==
  /\ remaining = Limit /\ least = Limit /\ low = Limit
  /\ consumed = [v \in VMs |-> 0]
  /\ pc = [v \in VMs |-> "absent"]
  /\ delta = [v \in VMs |-> 0]
  /\ seen = [v \in VMs |-> 0]
  /\ panicked = FALSE

Step(v, from, to) == pc[v] = from /\ pc' = [pc EXCEPT ![v] = to]

\* The locals of consume and release go out of scope when it returns.
Return(v, from) ==
  /\ Step(v, from, "idle")
  /\ delta' = [delta EXCEPT ![v] = 0]
  /\ seen' = [seen EXCEPT ![v] = 0]

SetRemaining(n) == remaining' = n /\ low' = Min({low, n})

Derived(v) ==
  /\ Step(v, "absent", "idle")
  /\ consumed' = [consumed EXCEPT ![v] = 0]
  /\ UNCHANGED <<remaining, least, delta, seen, panicked, low>>

-----------------------------------------------------------------------------
\* consume: load, compare_exchange until it succeeds or the budget is too
\* small, fetch_min, fetch_add.

ConsumeLoad(v, d) ==
  /\ Step(v, "idle", "comparing")
  /\ delta' = [delta EXCEPT ![v] = d]
  /\ seen' = [seen EXCEPT ![v] = remaining]
  /\ UNCHANGED <<remaining, least, consumed, panicked, low>>

ConsumeRefused(v) ==
  /\ delta[v] > seen[v]
  /\ Return(v, "comparing")
  /\ UNCHANGED <<remaining, least, consumed, panicked, low>>

\* Mutant: a store in place of the compare_exchange.
ConsumeStore(v) ==
  /\ delta[v] <= seen[v]
  /\ Step(v, "comparing", "noting")
  /\ SetRemaining(seen[v] - delta[v])
  /\ UNCHANGED <<least, consumed, delta, seen, panicked>>

ConsumeSwap(v) ==
  /\ delta[v] <= seen[v]
  /\ remaining = seen[v]
  /\ Step(v, "comparing", "noting")
  /\ SetRemaining(seen[v] - delta[v])
  /\ UNCHANGED <<least, consumed, delta, seen, panicked>>

ConsumeRetry(v) ==
  /\ delta[v] <= seen[v]
  /\ remaining # seen[v]
  /\ Step(v, "comparing", "comparing")
  /\ seen' = [seen EXCEPT ![v] = remaining]
  /\ UNCHANGED <<remaining, least, consumed, delta, panicked, low>>

NoteLeast(v) ==
  /\ Step(v, "noting", "counting")
  /\ least' = Min({least, seen[v] - delta[v]})
  /\ UNCHANGED <<remaining, consumed, delta, seen, panicked, low>>

\* The last step of a consume that returns true.
ConsumeCounted(v) ==
  /\ Return(v, "counting")
  /\ consumed' = [consumed EXCEPT ![v] = Wrap(@ + delta[v])]
  /\ UNCHANGED <<remaining, least, panicked, low>>

-----------------------------------------------------------------------------
\* release and drop

\* release_no_consumed: the addition wraps, then the assertion looks at it.
GiveBack(d) ==
  /\ SetRemaining(Wrap(remaining + d))
  /\ panicked' = (remaining + d > Limit)

ReleaseAdd(v, d) ==
  /\ Step(v, "idle", "uncounting")
  /\ GiveBack(d)
  /\ delta' = [delta EXCEPT ![v] = d]
  /\ UNCHANGED <<least, consumed, seen>>

ReleaseCounted(v) ==
  /\ Return(v, "uncounting")
  /\ consumed' = [consumed EXCEPT ![v] = Wrap(@ - delta[v])]
  /\ UNCHANGED <<remaining, least, panicked, low>>

\* Drop of the last clone of a handle.
DropLimiter(v) ==
  /\ Step(v, "idle", "absent")
  /\ GiveBack(consumed[v])
  /\ consumed' = [consumed EXCEPT ![v] = 0]
  /\ UNCHANGED <<least, delta, seen>>

\* The steps inside consume and release that concern nobody else.
LimiterStep(v) == ConsumeSwap(v) \/ ConsumeRetry(v) \/ NoteLeast(v) \/ ReleaseCounted(v)

-----------------------------------------------------------------------------
\* What handle v has taken from the pool and not yet given back.
Held(v) ==
  consumed[v] + (IF pc[v] \in {"noting", "counting"} THEN delta[v] ELSE 0)
              - (IF pc[v] = "uncounting" THEN delta[v] ELSE 0)

HeldBy == [v \in VMs |-> Held(v)]

Total == remaining + FoldFunctionOnSet(+, 0, HeldBy, VMs)

\* least_remaining_memory is the low-water mark of remaining_memory whenever
\* no handle is between its compare_exchange and its fetch_min.
LeastIsLowWater == (~panicked /\ \A v \in VMs : pc[v] # "noting") => least = low
=============================================================================
