------------------------------ MODULE Storage ------------------------------
(***************************************************************************)
(* The storage of a contract during one execution (rt/vm/storage.rs and    *)
(* the SDK calls that use it): a map of overridden pages over the host's   *)
(* storage, a budget of new pages shared by all VMs of the execution and   *)
(* spent by events too, copies for sandboxes, and the delta sent to the    *)
(* host with the result.                                                   *)
(***************************************************************************)
EXTENDS Integers, Sequences, FiniteSets, FiniteSetsExt, SequencesExt

CONSTANTS PageSize,    \* 32 in the code
          NSlots,      \* number of slots
          MaxIndex,    \* bytes of a slot that are used
          PageLimit,   \* SharedData.storage_pages_limit
          Locked,      \* Supervisor.locked_slots
          HeaderSize,  \* bytes of the length before the code (4)
          CodeSize,    \* bytes of the code given with the execution
          MaxWrites,   \* bound on the number of storage_write calls
          MaxDepth     \* bound on nested sandboxes

ASSUME StorageAssumption ==
  /\ PageSize \in Nat \ {0} /\ NSlots \in Nat \ {0} /\ MaxIndex \in Nat \ {0}
  /\ PageLimit \in Nat /\ Locked \subseteq 0 .. NSlots - 1
  /\ HeaderSize \in Nat \ {0} /\ CodeSize \in Nat \ {0}
  /\ HeaderSize + CodeSize <= MaxIndex
  /\ MaxWrites \in Nat /\ MaxDepth \in Nat \ {0}

Slots == 0 .. NSlots - 1

CodeSlot == 0

Indexes == 0 .. MaxIndex - 1

PageIDs == Slots \X (0 .. (MaxIndex - 1) \div PageSize)

VARIABLES
  frames,    \* pages, events and can_write_storage of each VM, outermost first
  budget,    \* the pages left of storage_pages_limit
  writes,    \* number of storage_write calls so far, which names their bytes
  request,   \* history: where the last storage_write wrote
  trapped,   \* whether the innermost VM has failed, and with what kind of error
  discarded, \* history: pages and events paid for by sandboxes that ended
  phase,     \* how far run_with_impl is
  delta      \* FullResult.storage_changes

vars == <<frames, budget, writes, request, trapped, discarded, phase, delta>>

\* The host's storage does not change during an execution.
Host(slot, i) == <<0, slot, i>>

Bytes == Nat \X Nat \X Nat
PageBytes == [1 .. PageSize -> Bytes]

IsFrame(x) ==
  /\ x = [pages |-> x.pages, events |-> x.events, canWrite |-> x.canWrite]
  /\ DOMAIN x.pages \subseteq PageIDs /\ x.pages \in [DOMAIN x.pages -> PageBytes]
  /\ x.events \in Nat /\ x.canWrite \in BOOLEAN

TypeOK ==
  /\ Len(frames) \in 1 .. MaxDepth /\ frames = [f \in 1 .. Len(frames) |-> frames[f]]
  /\ \A f \in 1 .. Len(frames) : IsFrame(frames[f])
  /\ budget \in Nat
  /\ writes \in 0 .. MaxWrites
  /\ trapped \in {"no", "vm", "internal"}
  /\ discarded \in Nat
  /\ phase \in {"start", "loading", "running", "done", "failed"}

Init ==
  /\ \E w \in BOOLEAN : frames = << [pages |-> <<>>, events |-> 0, canWrite |-> w] >>
  /\ budget = PageLimit
  /\ writes = 0
  /\ request = <<>>
  /\ trapped = "no"
  /\ discarded = 0
  /\ phase = "start"
  /\ delta = <<>>

pages == frames[Len(frames)].pages

-----------------------------------------------------------------------------
\* Storage::write

\* copy_from_slice of src into page at offset at.
Splice(page, at, src) ==
  [i \in 1 .. PageSize |-> IF at < i /\ i <= at + Len(src) THEN src[i - at] ELSE page[i]]

\* The page as it is now, from the overrides or from the host.
Existing(pg, id) ==
  IF id \in DOMAIN pg THEN pg[id]
  ELSE [i \in 1 .. PageSize |-> Host(id[1], id[2] * PageSize + i - 1)]

FirstPage(idx) == idx \div PageSize
LastPage(idx, n) == (idx + n - 1) \div PageSize

IsPartialFirst(idx) == idx > FirstPage(idx) * PageSize
IsPartialLast(idx, n) == idx + n < LastPage(idx, n) * PageSize + PageSize

\* The new contents of page p: a page of a single-page write, the partial
\* first or last page, or a whole page of the buffer.
write_page_data(pg, slot, p, idx, buf) ==
  LET n == Len(buf)
      old == Existing(pg, <<slot, p>>)
      tail == (idx + n) % PageSize
  IN  CASE FirstPage(idx) = LastPage(idx, n) -> Splice(old, idx % PageSize, buf)
        [] FirstPage(idx) # LastPage(idx, n) /\ p = FirstPage(idx) /\ IsPartialFirst(idx) ->
             Splice(old, idx % PageSize, SubSeq(buf, 1, PageSize - (idx % PageSize)))
        [] FirstPage(idx) # LastPage(idx, n) /\ p = LastPage(idx, n) /\ IsPartialLast(idx, n) ->
             Splice(old, 0, SubSeq(buf, n - tail + 1, n))
        [] OTHER -> SubSeq(buf, p * PageSize - idx + 1, p * PageSize - idx + PageSize)

\* The order the pages are written in: partial first, partial last, the rest.
WriteOrder(idx, n) ==
  LET first == FirstPage(idx)
      last == LastPage(idx, n)
      head == IF IsPartialFirst(idx) THEN <<first>> ELSE <<>>
      tail == IF IsPartialLast(idx, n) THEN <<last>> ELSE <<>>
      whole == [i \in 1 .. last - first + 1 - Len(head) - Len(tail) |-> first + Len(head) + i - 1]
  IN  IF first = last THEN <<first>> ELSE head \o tail \o whole

\* The first k pages in that order.
Done(slot, order, k) == {<<slot, order[i]>> : i \in 1 .. k}

\* Mutant: every page is charged, also one that is overridden already.
ChargedAlways(pg, slot, order, k) == Done(slot, order, k)

\* write_page consumes one page of the budget for a page not yet overridden.
Charged(pg, slot, order, k) == Done(slot, order, k) \ DOMAIN pg

\* The overrides once the pages in done are written.
Overridden(pg, slot, idx, buf, done) ==
  [id \in DOMAIN pg \cup done |->
     IF id \in done THEN write_page_data(pg, slot, id[2], idx, buf) ELSE pg[id]]

\* How a write may end: after all its pages, or before page k + 1 because the
\* budget is spent (a VM error), the host answers its request for the old page
\* with an error code (a VM error too) or cannot be reached (an internal one).
Outcomes(pg, b, slot, idx, buf) ==
  LET order == WriteOrder(idx, Len(buf))
      Cost(k) == Cardinality(Charged(pg, slot, order, k))
      Fresh(k) == <<slot, order[k]>> \notin DOMAIN pg
      NeedsHost(p) == p * PageSize < idx \/ idx + Len(buf) < (p + 1) * PageSize
      Error(k) == IF k = Len(order) THEN {"no"}
                  ELSE {e \in {"vm", "internal"} :
                          /\ Fresh(k + 1)
                          /\ NeedsHost(order[k + 1]) \/ (e = "vm" /\ Cost(k) = b)}
      Result(k, e) == [pages |-> Overridden(pg, slot, idx, buf, Done(slot, order, k)),
                       budget |-> b - Cost(k), error |-> e]
  IN  UNION {{Result(k, e) : e \in Error(k)} : k \in {k \in 0 .. Len(order) : Cost(k) <= b}}

Buffer(k, n) == [j \in 1 .. n |-> <<k, 0, j>>]

SetPages(pg) == frames' = [frames EXCEPT ![Len(frames)].pages = pg]

-----------------------------------------------------------------------------
\* The execution

\* run_with_impl without code.
StartWithoutCode ==
  /\ phase = "start"
  /\ phase' = "loading"
  /\ UNCHANGED <<frames, budget, writes, request, trapped, discarded, delta>>

\* write_code: the length, then the code right after it.  An error ends the
\* execution before its VM starts.
WriteCode ==
  /\ phase = "start"
  /\ \E o \in Outcomes(pages, budget, CodeSlot, 0, Buffer(1, HeaderSize)) :
       IF o.error = "no"
       THEN \E q \in Outcomes(o.pages, o.budget, CodeSlot, HeaderSize, Buffer(2, CodeSize)) :
              /\ SetPages(q.pages) /\ budget' = q.budget /\ trapped' = q.error
       ELSE SetPages(o.pages) /\ budget' = o.budget /\ trapped' = o.error
  /\ phase' = IF trapped' = "no" THEN "loading" ELSE "failed"
  /\ UNCHANGED <<writes, request, discarded, delta>>

\* spawn and apply_contract_actions; if they fail the delta is empty.
Load ==
  /\ phase = "loading"
  /\ phase' \in {"running", "failed"}
  /\ UNCHANGED <<frames, budget, writes, request, trapped, discarded, delta>>

Running == phase = "running" /\ trapped = "no"

\* storage_write of a VM that may write, inside the slot (a range whose end
\* overflows is refused, and so are locked slots).  An error traps.
StorageWrite(slot, idx, n) ==
  /\ Running
  /\ writes < MaxWrites
  /\ frames[Len(frames)].canWrite
  /\ slot \notin Locked
  /\ \E o \in Outcomes(pages, budget, slot, idx, Buffer(writes + 3, n)) :
       SetPages(o.pages) /\ budget' = o.budget /\ trapped' = o.error
  /\ writes' = writes + 1
  /\ request' = <<slot, idx, n>>
  /\ UNCHANGED <<discarded, phase, delta>>

\* EmitEvent of size words; the event goes to the VM that emits it.
EmitEvent(size) ==
  /\ Running
  /\ IF size <= budget
     THEN /\ budget' = budget - size
          /\ frames' = [frames EXCEPT ![Len(frames)].events = @ + size]
          /\ UNCHANGED trapped
     ELSE trapped' = "vm" /\ UNCHANGED <<budget, frames>>
  /\ UNCHANGED <<writes, request, discarded, phase, delta>>

\* A sandbox runs on a clone of the storage, with no events of its own yet,
\* and writes only if its caller may and lets it (allow_write_ops).
Sandbox(allow) ==
  /\ Running
  /\ Len(frames) < MaxDepth
  /\ frames' = Append(frames, [pages |-> pages, events |-> 0,
                               canWrite |-> frames[Len(frames)].canWrite /\ allow])
  /\ UNCHANGED <<budget, writes, request, trapped, discarded, phase, delta>>

\* Mutant: the sandbox's pages replace the caller's.
SandboxCommits ==
  /\ phase = "running"
  /\ Len(frames) > 1
  /\ frames' = [SubSeq(frames, 1, Len(frames) - 1) EXCEPT ![Len(frames) - 1].pages = pages]
  /\ trapped' = "no"
  /\ UNCHANGED <<budget, writes, request, discarded, phase, delta>>

\* Its result, a VM error too, is data for the caller; clone and events go.
\* An internal error traps the caller as well, unless the execution has been
\* cancelled: then VM::run has made it a timeout.
SandboxReturns ==
  /\ phase = "running"
  /\ Len(frames) > 1
  /\ frames' = SubSeq(frames, 1, Len(frames) - 1)
  /\ trapped' \in {"no"} \cup ({trapped} \ {"vm"})
  /\ discarded' = discarded + frames[Len(frames)].events
                  + Cardinality(DOMAIN pages \ DOMAIN frames[Len(frames) - 1].pages)
  /\ UNCHANGED <<budget, writes, request, phase, delta>>

-----------------------------------------------------------------------------
\* make_delta

Before(a, b) == a[1] < b[1] \/ (a[1] = b[1] /\ a[2] < b[2])

\* Mutant: neighbours are joined across slots.
AppendPageAnySlot(res, pg, id) ==
  IF res # <<>> /\ id[2] # 0 /\ \E s \in Slots : <<s, id[2] - 1>> \in DOMAIN pg
  THEN [res EXCEPT ![Len(res)].data = @ \o pg[id]]
  ELSE Append(res, [id |-> id, data |-> pg[id]])

\* A page whose predecessor is overridden too extends the last entry.
AppendPage(res, pg, id) ==
  IF id[2] # 0 /\ <<id[1], id[2] - 1>> \in DOMAIN pg
  THEN [res EXCEPT ![Len(res)].data = @ \o pg[id]]
  ELSE Append(res, [id |-> id, data |-> pg[id]])

LastKey(ids) == CHOOSE id \in ids : \A o \in ids \ {id} : Before(o, id)

\* The overrides are visited in the order of their keys: the last one's page
\* goes to the result of all the others.
make_delta(pg) ==
  MapThenFoldSet(LAMBDA id, res : AppendPage(res, pg, id), <<>>, LAMBDA id : id, LastKey, DOMAIN pg)

\* The outermost VM has ended, normally or not, and its pages are the delta,
\* except that after an internal error (and no cancellation) there is none.
Finish ==
  /\ phase = "running"
  /\ Len(frames) = 1
  /\ delta' \in {make_delta(pages)} \cup (IF trapped = "internal" THEN {<<>>} ELSE {})
  /\ phase' = "done"
  /\ UNCHANGED <<frames, budget, writes, request, trapped, discarded>>

Next ==
  \/ StartWithoutCode \/ WriteCode \/ Load
  \/ \E slot \in Slots, idx \in Indexes : \E n \in 1 .. MaxIndex - idx : StorageWrite(slot, idx, n)
  \/ \E size \in 1 .. 2 : EmitEvent(size)
  \/ \E allow \in BOOLEAN : Sandbox(allow)
  \/ SandboxReturns \/ Finish

Spec == Init /\ [][Next]_vars

-----------------------------------------------------------------------------
\* Storage::read

\* need_host_read_start and need_host_read_end, after cutting the known
\* prefix and the known suffix.
ReadStart(pg, slot, idx, n) ==
  LET known == {p \in FirstPage(idx) .. LastPage(idx, n) :
                  \A q \in FirstPage(idx) .. p : <<slot, q>> \in DOMAIN pg}
  IN  IF known = {} THEN idx ELSE (Max(known) + 1) * PageSize

\* Mutant: the range ends before the first known page, unknown ones after it or not.
ReadEndEarly(pg, slot, idx, n) ==
  LET known == {p \in FirstPage(idx) .. LastPage(idx, n) : <<slot, p>> \in DOMAIN pg}
  IN  IF known = {} THEN idx + n ELSE Min(known) * PageSize

ReadEnd(pg, slot, idx, n) ==
  LET known == {p \in FirstPage(idx) .. LastPage(idx, n) :
                  \A q \in p .. LastPage(idx, n) : <<slot, q>> \in DOMAIN pg}
  IN  IF known = {} THEN idx + n ELSE Min(known) * PageSize

\* What read puts into the buffer: the host's bytes of one range, then the
\* overrides; a byte that gets neither is uninitialised.
Read(pg, slot, idx, n) ==
  LET from == ReadStart(pg, slot, idx, n)
      to == ReadEnd(pg, slot, idx, n)
      At(i) == LET id == <<slot, i \div PageSize>>
               IN  IF id \in DOMAIN pg THEN pg[id][(i % PageSize) + 1]
                   ELSE IF from <= i /\ i < to THEN Host(slot, i) ELSE <<>>
  IN  [j \in 1 .. n |-> At(idx + j - 1)]

-----------------------------------------------------------------------------
\* Properties

\* The byte a VM should see.
View(pg, slot, i) == Existing(pg, <<slot, i \div PageSize>>)[(i % PageSize) + 1]

\* A read of any range in any state of the overrides returns the bytes of
\* the slot, host reads and overrides combined, and nothing uninitialised.
ReadsReturnView ==
  \A slot \in Slots, idx \in Indexes : \A n \in 1 .. MaxIndex - idx :
    Read(pages, slot, idx, n) = [j \in 1 .. n |-> View(pages, slot, idx + j - 1)]

Start(d) == d.id[2] * PageSize
Covers(d, slot, i) == d.id[1] = slot /\ Start(d) <= i /\ i < Start(d) + Len(d.data)

\* The delta ds applied to the host's storage is the storage as seen through
\* the overrides, and its entries are sorted runs that neither overlap nor touch.
Reproduces(ds, pg) ==
  /\ \A slot \in Slots, i \in Indexes :
       LET hits == {e \in 1 .. Len(ds) : Covers(ds[e], slot, i)}
       IN  /\ Cardinality(hits) <= 1
           /\ \A e \in hits : ds[e].data[i - Start(ds[e]) + 1] = View(pg, slot, i)
           /\ hits = {} => View(pg, slot, i) = Host(slot, i)
  /\ \A e \in 1 .. Len(ds) - 1 :
       \/ ds[e].id[1] < ds[e + 1].id[1]
       \/ /\ ds[e].id[1] = ds[e + 1].id[1]
          /\ Start(ds[e]) + Len(ds[e].data) < Start(ds[e + 1])

\* When the execution has run to an end that is not an internal error, what
\* is sent to the host is exactly what the contract saw, an empty delta only
\* when nothing was overridden; after an internal error it is that or nothing.
DeltaReproducesView ==
  phase = "done" =>
    Reproduces(delta, pages) \/ (delta = <<>> /\ trapped = "internal")

EventsOf(fs) == FoldFunctionOnSet(+, 0, [f \in 1 .. Len(fs) |-> fs[f].events], 1 .. Len(fs))

\* The budget pays for every overridden page once and for every event, in
\* sandboxes and failed writes too, and for nothing else: what the execution
\* sends to the host never exceeds storage_pages_limit.
PaidExactlyOnce ==
  /\ budget >= 0
  /\ PageLimit - budget = Cardinality(DOMAIN pages) + discarded + EventsOf(frames)

MemoryOf(pg) == [p \in Slots \X Indexes |-> View(pg, p[1], p[2])]

\* The paged storage behaves like an array of bytes per slot.
Flat == INSTANCE FlatStorage WITH
  mem <- [f \in 1 .. Len(frames) |-> MemoryOf(frames[f].pages)],
  trapped <- trapped # "no"

FlatSpec == Flat!Spec

-----------------------------------------------------------------------------
\* The inductive invariant behind the properties: a sandbox has every page of
\* its caller, and nothing is written before the execution has started.
Nested == \A f \in 1 .. Len(frames) - 1 : DOMAIN frames[f].pages \subseteq DOMAIN frames[f + 1].pages

StorageInv == TypeOK /\ Nested /\ PaidExactlyOnce /\ (phase = "start" => writes = 0)
=============================================================================
