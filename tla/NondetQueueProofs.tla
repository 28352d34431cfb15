-------------------------- MODULE NondetQueueProofs --------------------------
(***************************************************************************)
(* Proofs about the queue of validator blocks, for every number of calls   *)
(* and every channel capacity.                                             *)
(***************************************************************************)
EXTENDS NondetQueue, TLAPS

\* The part of IndInv that types need: a decrement never underflows because
\* the counter counts the live tokens.
BaseInv == TypeOK /\ CountdownCountsTokens /\ ControlInv

\* The initial state: supervisor started, primary worker polling.
LEMMA BaseInit == Init => BaseInv
<1> SUFFICES ASSUME Init PROVE BaseInv
  OBVIOUS
<1> USE QueueAssumption DEF Init, Calls, Workers
<1>1. TypeOK
  <2>1. workerPc \in [Workers -> WorkerPcs] /\ task \in [Workers -> Calls \cup {NoCall}]
    BY DEF WorkerPcs
  <2>2. fate \in [Calls -> Fates]
    BY DEF Fates
  <2>3. result \in Results
    BY DEF Results, Pending
  <2>4. chan \in Seq(Calls) /\ Len(chan) <= Capacity
    OBVIOUS
  <2>5. /\ nextCall \in 0 .. MaxCalls
        /\ disagree \in Calls \cup {NoCall}
        /\ error \in Calls \cup {NoCall}
    OBVIOUS
  <2>6. /\ verdict \in [Calls -> Outcomes]
        /\ mainPc \in MainPcs
        /\ reachedZero \in BOOLEAN
        /\ cancelled \in BOOLEAN
        /\ countdown \in Nat
    BY DEF MainPcs
  <2> QED
    BY <2>1, <2>2, <2>3, <2>4, <2>5, <2>6, Zenon DEF TypeOK
<1>2. CountdownCountsTokens
  BY DEF CountdownCountsTokens, Count, Holds
<1>3. ControlInv
  BY DEF ControlInv, Holds
<1> QED
  BY <1>1, <1>2, <1>3 DEF BaseInv

\* Every step of the contract and of await_nondet_vms keeps the types, the
\* token count and the control shape.
LEMMA BaseMain ==
  BaseInv /\ (Cancel \/ CallInline \/ Submit \/ Send \/ Close \/ AwaitStep) => BaseInv'
<1> SUFFICES ASSUME BaseInv,
                    Cancel \/ CallInline \/ Submit \/ Send \/ Close \/ AwaitStep
             PROVE  BaseInv'
  OBVIOUS
<1> USE QueueAssumption
    DEF BaseInv, TypeOK, CountdownCountsTokens, ControlInv, Count, Holds, Calls, Workers,
        MainPcs, WorkerPcs, mainVars, verdictVars
<1>1. CASE Cancel
  BY <1>1 DEF Cancel
<1>2. CASE CallInline
  BY <1>2 DEF CallInline
<1>3. CASE Submit
  BY <1>3 DEF Submit, Increment, Fates
<1>4. CASE Send
  <2>1. nextCall - 1 \in Calls
    BY <1>4 DEF Send
  <2>2. chan' \in Seq(Calls) /\ Len(chan') = Len(chan) + 1
    BY <1>4, <2>1 DEF Send
  <2> QED
    BY <1>4, <2>2 DEF Send
<1>5. CASE Close
  BY <1>5 DEF Close
<1>6. CASE DropOwnCount
  <2>1. countdown \in Nat /\ countdown >= 1
    BY <1>6 DEF DropOwnCount
  <2>2. countdown' = countdown - 1
    BY <1>6 DEF DropOwnCount, Decrement
  <2>3. reachedZero' \in BOOLEAN /\ (reachedZero' => countdown' = 0)
    BY <1>6, <2>1 DEF DropOwnCount, Decrement
  <2>4. TypeOK'
    BY <1>6, <2>1, <2>2, <2>3 DEF DropOwnCount
  <2>5. CountdownCountsTokens'
    <3>1. /\ chan' = chan /\ workerPc' = workerPc
          /\ mainPc = "closed" /\ mainPc' = "checking"
      BY <1>6 DEF DropOwnCount
    <3>2. Len(chan) \in Nat /\ Count(Holds("primary")) \in Nat /\ Count(Holds("secondary")) \in Nat
      OBVIOUS
    <3>3. Count(mainPc \in {"running", "sending", "closed"}) = 1 /\ Count(mainPc = "sending") = 0
      BY <3>1
    <3>4. /\ Count(mainPc' \in {"running", "sending", "closed"}) = 0 /\ Count(mainPc' = "sending") = 0
          /\ Count(Holds("primary"))' = Count(Holds("primary"))
          /\ Count(Holds("secondary"))' = Count(Holds("secondary"))
      BY <3>1
    <3> HIDE DEF Count, Holds, TypeOK, ControlInv
    <3> QED
      BY <3>1, <3>2, <3>3, <3>4, <2>2
  <2>6. ControlInv'
    BY <1>6, <2>1, <2>2, <2>3 DEF DropOwnCount
  <2> QED
    BY <2>4, <2>5, <2>6
<1>7. CASE CheckEmpty
  BY <1>7 DEF CheckEmpty
<1>8. CASE SecondaryReturned
  BY <1>8 DEF SecondaryReturned
<1>9. CASE Collect
  BY <1>9 DEF Collect, Results
<1> QED
  BY <1>1, <1>2, <1>3, <1>4, <1>5, <1>6, <1>7, <1>8, <1>9 DEF AwaitStep

\* Every step of a worker keeps them too.
LEMMA BaseWorker == ASSUME NEW w \in Workers, BaseInv, WorkerStep(w) PROVE BaseInv'
<1> USE QueueAssumption
    DEF BaseInv, TypeOK, CountdownCountsTokens, ControlInv, Count, Holds, Calls, Workers,
        MainPcs, WorkerPcs, mainVars, verdictVars, GoTo, Selecting
<1>1. CASE Park(w)
  BY <1>1 DEF Park
<1>2. CASE StopCancelled(w)
  BY <1>2 DEF StopCancelled
<1>3. CASE StopCountdown(w)
  BY <1>3 DEF StopCountdown
<1>4. CASE StopDrained(w)
  BY <1>4 DEF StopDrained
<1>5. CASE Receive(w)
  <2>1. /\ Head(chan) \in Calls
        /\ chan' \in Seq(Calls)
        /\ Len(chan') = Len(chan) - 1
        /\ Len(chan) > 0
    BY <1>5 DEF Receive
  <2> QED
    BY <1>5, <2>1 DEF Receive
<1>6. CASE Skip(w)
  BY <1>6 DEF Skip, Decrement, Fates
<1>7. CASE StartRun(w)
  BY <1>7 DEF StartRun
<1>8. CASE FinishRun(w)
  BY <1>8, ZenonT(40) DEF FinishRun, fetch_min, Fates
<1>9. CASE Release(w)
  BY <1>9 DEF Release, Decrement
<1> QED
  BY <1>1, <1>2, <1>3, <1>4, <1>5, <1>6, <1>7, <1>8, <1>9 DEF WorkerStep

\* Types, token conservation and control shape hold in every reachable state.
THEOREM TypeCorrect == Spec => [](TypeOK /\ CountdownCountsTokens)
<1>1. BaseInv /\ UNCHANGED vars => BaseInv'
  BY DEF BaseInv, TypeOK, CountdownCountsTokens, ControlInv, Count, Holds, vars
<1>2. BaseInv /\ [Next]_vars => BaseInv'
  BY <1>1, BaseMain, BaseWorker DEF Next
<1>3. BaseInv => TypeOK /\ CountdownCountsTokens
  BY DEF BaseInv
<1> QED
  BY BaseInit, <1>2, <1>3, PTL DEF Spec

-----------------------------------------------------------------------------
\* Order of the tasks.

\* Steps that move no task and no call number keep the order.
LEMMA OrderFrame ==
  ASSUME OrderInv,
         UNCHANGED <<chan, nextCall, fate, task>>,
         mainPc' = "sending" <=> mainPc = "sending",
         \A w \in Workers : workerPc'[w] \in {"received", "validating"}
                              <=> workerPc[w] \in {"received", "validating"}
  PROVE  OrderInv'
  BY DEF OrderInv, InChan, Sending, InHand, Workers

\* Steps that settle the task a worker holds (skip it or finish its run).
LEMMA OrderSettle ==
  ASSUME BaseInv, OrderInv, NEW w \in Workers, NEW f \in Fates \ {"unsubmitted", "queued"},
         UNCHANGED <<chan, nextCall, task, mainPc>>,
         workerPc[w] \in {"received", "validating"},
         fate' = [fate EXCEPT ![task[w]] = f],
         NEW pc \in WorkerPcs \ {"received", "validating"},
         workerPc' = [workerPc EXCEPT ![w] = pc]
  PROVE  OrderInv'
<1>1. /\ fate \in [Calls -> Fates] /\ workerPc \in [Workers -> WorkerPcs]
      /\ task[w] \in Calls /\ fate[task[w]] = "queued"
  BY DEF BaseInv, TypeOK, ControlInv, Holds, OrderInv, InHand
<1>2. \A c \in Calls : (InChan(c)' <=> InChan(c)) /\ (Sending(c)' <=> Sending(c))
  BY DEF InChan, Sending
<1>3. \A v \in Workers, c \in Calls : InHand(v, c)' <=> (v # w /\ InHand(v, c))
  BY <1>1 DEF InHand
<1>4. \A c \in Calls : fate'[c] = IF c = task[w] THEN f ELSE fate[c]
  BY <1>1
<1>5. InHand(w, task[w])
  BY DEF InHand
<1>6. \A v \in Workers : v # w => ~InHand(v, task[w])
  BY <1>1, <1>5 DEF OrderInv, Workers
<1> HIDE DEF InChan, Sending, InHand
<1>7. /\ \A i \in 1 .. Len(chan') : chan'[i] < nextCall'
      /\ \A i, j \in 1 .. Len(chan') : i < j => chan'[i] < chan'[j]
  BY DEF OrderInv
<1>8. \A c \in Calls : fate'[c] # "unsubmitted" => c < nextCall'
  BY <1>1, <1>4 DEF OrderInv
<1>9. \A c \in Calls : fate'[c] = "queued" <=>
         InChan(c)' \/ Sending(c)' \/ \E v \in Workers : InHand(v, c)'
  <2> SUFFICES ASSUME NEW c \in Calls
               PROVE  fate'[c] = "queued" <=>
                        InChan(c)' \/ Sending(c)' \/ \E v \in Workers : InHand(v, c)'
    OBVIOUS
  <2>1. CASE c = task[w]
    <3>1. ~InChan(c) /\ ~Sending(c)
      BY <1>1, <1>5, <2>1 DEF OrderInv
    <3> QED
      BY <1>2, <1>3, <1>4, <1>6, <2>1, <3>1
  <2>2. CASE c # task[w]
    <3>1. ~InHand(w, c)
      BY <2>2 DEF InHand
    <3> QED
      BY <1>2, <1>3, <1>4, <2>2, <3>1 DEF OrderInv
  <2> QED
    BY <2>1, <2>2
<1>10. /\ \A c \in Calls : Sending(c)' => ~InChan(c)'
       /\ \A v \in Workers, c \in Calls : InHand(v, c)' => ~InChan(c)' /\ ~Sending(c)'
  BY <1>2, <1>3 DEF OrderInv
<1>11. \A c \in Calls : ~(InHand("primary", c)' /\ InHand("secondary", c)')
  BY <1>3 DEF OrderInv, Workers
<1>12. \A c \in Calls : (fate'[c] # "unsubmitted" /\ ~InChan(c)' /\ ~Sending(c)')
          => \A i \in 1 .. Len(chan') : c < chan'[i]
  BY <1>1, <1>2, <1>4 DEF OrderInv
<1> QED
  BY <1>7, <1>8, <1>9, <1>10, <1>11, <1>12 DEF OrderInv

\* Every step keeps the order.
LEMMA OrderMain ==
  BaseInv /\ OrderInv /\ (Cancel \/ CallInline \/ Submit \/ Send \/ Close \/ AwaitStep) => OrderInv'
<1> SUFFICES ASSUME BaseInv, OrderInv,
                    Cancel \/ CallInline \/ Submit \/ Send \/ Close \/ AwaitStep
             PROVE  OrderInv'
  OBVIOUS
<1>1. CASE Cancel \/ Close \/ DropOwnCount \/ SecondaryReturned \/ Collect
  <2>1. /\ UNCHANGED <<chan, nextCall, fate, task, workerPc>>
        /\ mainPc' = "sending" <=> mainPc = "sending"
    BY <1>1 DEF Cancel, Close, DropOwnCount, SecondaryReturned, Collect, mainVars, verdictVars
  <2> QED
    BY <2>1, OrderFrame
<1>2. CASE CheckEmpty
  <2>1. workerPc \in [Workers -> WorkerPcs] /\ workerPc["secondary"] = "idle"
    BY <1>2 DEF CheckEmpty, BaseInv, TypeOK, ControlInv
  <2>2. /\ UNCHANGED <<chan, nextCall, fate, task>>
        /\ mainPc' = "sending" <=> mainPc = "sending"
    BY <1>2 DEF CheckEmpty, verdictVars
  <2>3. \A w \in Workers : workerPc'[w] \in {"received", "validating"}
                              <=> workerPc[w] \in {"received", "validating"}
    BY <1>2, <2>1 DEF CheckEmpty, Workers
  <2> QED
    BY <2>2, <2>3, OrderFrame
<1>3. CASE CallInline
  <2>1. /\ nextCall \in Nat /\ nextCall' = nextCall + 1
        /\ UNCHANGED <<chan, fate, task, workerPc, mainPc>> /\ mainPc = "running"
        /\ chan \in Seq(Calls)
    BY <1>3, QueueAssumption DEF CallInline, verdictVars, BaseInv, TypeOK
  <2>2. \A i \in 1 .. Len(chan) : chan[i] \in Nat
    BY <2>1, QueueAssumption DEF Calls
  <2> QED
    BY <2>1, <2>2 DEF OrderInv, InChan, Sending, InHand, Calls
<1>4. CASE Submit
  <2>1. /\ nextCall \in Calls /\ nextCall' = nextCall + 1
        /\ UNCHANGED <<chan, task, workerPc>> /\ mainPc = "running" /\ mainPc' = "sending"
        /\ fate \in [Calls -> Fates]
        /\ fate' = [fate EXCEPT ![nextCall] = "queued"]
        /\ chan \in Seq(Calls)
    BY <1>4, QueueAssumption DEF Submit, BaseInv, TypeOK, Calls
  <2>2. \A i \in 1 .. Len(chan) : chan[i] \in Nat
    BY <2>1, QueueAssumption DEF Calls
  <2>3. \A c \in Calls : (InChan(c)' <=> InChan(c)) /\ (Sending(c)' <=> c = nextCall) /\ ~Sending(c)
    BY <2>1, QueueAssumption DEF InChan, Sending, Calls
  <2>4. \A v \in Workers, c \in Calls : InHand(v, c)' <=> InHand(v, c)
    BY <2>1 DEF InHand
  <2>5. ~InChan(nextCall) /\ fate[nextCall] = "unsubmitted"
    BY <2>1, <2>2, QueueAssumption DEF InChan, OrderInv, Calls
  <2>6. \A v \in Workers : ~InHand(v, nextCall)
    BY <2>1, <2>5 DEF OrderInv
  <2>7. \A c \in Calls : fate'[c] = IF c = nextCall THEN "queued" ELSE fate[c]
    BY <2>1
  <2>8. \A c \in Calls : c \in Nat
    BY QueueAssumption DEF Calls
  <2> HIDE DEF InChan, Sending, InHand
  <2>9. /\ \A i \in 1 .. Len(chan') : chan'[i] < nextCall'
        /\ \A i, j \in 1 .. Len(chan') : i < j => chan'[i] < chan'[j]
    BY <2>1, <2>2, <2>8 DEF OrderInv
  <2>10. \A c \in Calls : fate'[c] # "unsubmitted" => c < nextCall'
    BY <2>1, <2>7, <2>8 DEF OrderInv
  <2>11. \A c \in Calls : fate'[c] = "queued" <=>
            InChan(c)' \/ Sending(c)' \/ \E v \in Workers : InHand(v, c)'
    BY <2>1, <2>3, <2>4, <2>5, <2>6, <2>7 DEF OrderInv
  <2>12. /\ \A c \in Calls : Sending(c)' => ~InChan(c)'
         /\ \A v \in Workers, c \in Calls : InHand(v, c)' => ~InChan(c)' /\ ~Sending(c)'
    BY <2>3, <2>4, <2>5, <2>6 DEF OrderInv
  <2>13. \A c \in Calls : ~(InHand("primary", c)' /\ InHand("secondary", c)')
    BY <2>4 DEF OrderInv, Workers
  <2>14. \A c \in Calls : (fate'[c] # "unsubmitted" /\ ~InChan(c)' /\ ~Sending(c)')
            => \A i \in 1 .. Len(chan') : c < chan'[i]
    BY <2>1, <2>3, <2>7 DEF OrderInv
  <2> QED
    BY <2>9, <2>10, <2>11, <2>12, <2>13, <2>14 DEF OrderInv
<1>5. CASE Send
  <2>1. /\ nextCall - 1 \in Calls /\ nextCall \in Nat
        /\ UNCHANGED <<nextCall, fate, task, workerPc>> /\ mainPc = "sending" /\ mainPc' = "running"
        /\ chan \in Seq(Calls)
        /\ chan' = Append(chan, nextCall - 1)
    BY <1>5, QueueAssumption DEF Send, BaseInv, TypeOK, ControlInv, Calls, verdictVars
  <2>2. /\ Len(chan') = Len(chan) + 1 /\ Len(chan) \in Nat
        /\ \A i \in 1 .. Len(chan) : chan'[i] = chan[i]
        /\ chan'[Len(chan) + 1] = nextCall - 1
        /\ \A i \in 1 .. Len(chan) : chan[i] \in Nat
    BY <2>1, QueueAssumption DEF Calls
  <2>3. \A c \in Calls : InChan(c)' <=> (InChan(c) \/ c = nextCall - 1)
    BY <2>2 DEF InChan
  <2>4. \A c \in Calls : ~Sending(c)' /\ (Sending(c) <=> c = nextCall - 1)
    BY <2>1 DEF Sending
  <2>5. \A v \in Workers, c \in Calls : InHand(v, c)' <=> InHand(v, c)
    BY <2>1 DEF InHand
  <2>6. \A c \in Calls : c \in Nat
    BY QueueAssumption DEF Calls
  <2>7. \A i \in 1 .. Len(chan) : chan[i] < nextCall - 1
    BY <2>1, <2>2, <2>4 DEF OrderInv, InChan
  <2>8. \A i \in 1 .. Len(chan') : i \in 1 .. Len(chan) \/ i = Len(chan) + 1
    BY <2>2
  <2> HIDE DEF InChan, Sending, InHand
  <2>9. /\ \A i \in 1 .. Len(chan') : chan'[i] < nextCall'
        /\ \A i, j \in 1 .. Len(chan') : i < j => chan'[i] < chan'[j]
    BY <2>1, <2>2, <2>7, <2>8 DEF OrderInv
  <2>10. \A c \in Calls : fate'[c] # "unsubmitted" => c < nextCall'
    BY <2>1 DEF OrderInv
  <2>11. \A c \in Calls : (fate[c] # "unsubmitted" /\ ~InChan(c) /\ c # nextCall - 1)
           => \A i \in 1 .. Len(chan') : c < chan'[i]
    BY <2>1, <2>2, <2>4, <2>6, <2>8, <2>10 DEF OrderInv
  <2>12. \A c \in Calls : fate'[c] = "queued" <=>
            InChan(c)' \/ Sending(c)' \/ \E v \in Workers : InHand(v, c)'
    BY <2>1, <2>3, <2>4, <2>5 DEF OrderInv
  <2>13. /\ \A c \in Calls : Sending(c)' => ~InChan(c)'
         /\ \A v \in Workers, c \in Calls : InHand(v, c)' => ~InChan(c)' /\ ~Sending(c)'
    BY <2>3, <2>4, <2>5 DEF OrderInv
  <2>14. \A c \in Calls : ~(InHand("primary", c)' /\ InHand("secondary", c)')
    BY <2>5 DEF OrderInv, Workers
  <2>15. \A c \in Calls : (fate'[c] # "unsubmitted" /\ ~InChan(c)' /\ ~Sending(c)')
            => \A i \in 1 .. Len(chan') : c < chan'[i]
    BY <2>1, <2>3, <2>11
  <2> QED
    BY <2>9, <2>10, <2>12, <2>13, <2>14, <2>15 DEF OrderInv
<1> QED
  BY <1>1, <1>2, <1>3, <1>4, <1>5 DEF AwaitStep

\* A worker's step keeps the order of the channel.
LEMMA OrderWorker ==
  ASSUME NEW w \in Workers, BaseInv, OrderInv, WorkerStep(w) PROVE OrderInv'
<1>0. workerPc \in [Workers -> WorkerPcs] /\ fate \in [Calls -> Fates] /\ task \in [Workers -> Calls \cup {NoCall}]
  BY DEF BaseInv, TypeOK
<1>1. CASE Park(w) \/ StopCancelled(w) \/ StopCountdown(w) \/ StopDrained(w) \/ StartRun(w) \/ Release(w)
  <2>1. UNCHANGED <<chan, nextCall, fate, task, mainPc>>
    BY <1>1 DEF Park, StopCancelled, StopCountdown, StopDrained, StartRun, Release, mainVars, verdictVars
  <2>2. \A v \in Workers : workerPc'[v] \in {"received", "validating"}
                              <=> workerPc[v] \in {"received", "validating"}
    BY <1>0, <1>1 DEF Park, StopCancelled, StopCountdown, StopDrained, StartRun, Release, GoTo, Selecting
  <2> QED
    BY <2>1, <2>2, OrderFrame
<1>2. CASE Skip(w)
  <2>1. /\ "skipped" \in Fates \ {"unsubmitted", "queued"}
        /\ "polling" \in WorkerPcs \ {"received", "validating"}
    BY DEF Fates, WorkerPcs
  <2> QED
    BY <1>2, <2>1, OrderSettle DEF Skip, GoTo, mainVars
<1>3. CASE FinishRun(w)
  <2>1. \E f \in Fates \ {"unsubmitted", "queued"} : fate' = [fate EXCEPT ![task[w]] = f]
    BY <1>3 DEF FinishRun, Fates
  <2> QED
    BY <1>3, <2>1, OrderSettle DEF FinishRun, GoTo, mainVars, WorkerPcs
<1>4. CASE Receive(w)
  <2>1. /\ UNCHANGED <<nextCall, fate, mainPc>>
        /\ workerPc[w] \in {"polling", "parked"}
        /\ workerPc' = [workerPc EXCEPT ![w] = "received"]
        /\ task' = [task EXCEPT ![w] = Head(chan)]
        /\ chan \in Seq(Calls) /\ chan # <<>> /\ chan' = Tail(chan)
    BY <1>4 DEF Receive, GoTo, Selecting, mainVars, verdictVars, BaseInv, TypeOK
  <2>2. /\ Len(chan) \in Nat \ {0} /\ Len(chan') = Len(chan) - 1
        /\ \A i \in 1 .. Len(chan') : chan'[i] = chan[i + 1] /\ i + 1 \in 1 .. Len(chan)
        /\ Head(chan) = chan[1] /\ 1 \in 1 .. Len(chan) /\ chan[1] \in Calls
        /\ \A i \in 1 .. Len(chan) : i = 1 \/ (i - 1 \in 1 .. Len(chan') /\ chan[i] = chan'[i - 1])
    BY <2>1
  <2>3. \A i \in 1 .. Len(chan') : chan[1] < chan'[i]
    BY <2>2 DEF OrderInv
  <2>4. \A c \in Calls : InChan(c) <=> (c = chan[1] \/ InChan(c)')
    BY <2>2 DEF InChan
  <2>5. \A c \in Calls : c = chan[1] => ~InChan(c)'
    BY <2>2, <2>3, QueueAssumption DEF Calls, InChan
  <2>6. \A c \in Calls : Sending(c)' <=> Sending(c)
    BY <2>1 DEF Sending
  <2>7. \A v \in Workers, c \in Calls : InHand(v, c)' <=> (InHand(v, c) \/ (v = w /\ c = chan[1]))
    BY <1>0, <2>1, <2>2 DEF InHand
  <2>8. InChan(chan[1])
    BY <2>2 DEF InChan
  <2>9. \A v \in Workers : ~InHand(v, chan[1])
    BY <2>2, <2>8 DEF OrderInv
  <2>10. \A c \in Calls : ~InHand(w, c)
    BY <2>1 DEF InHand
  <2>11. ~Sending(chan[1])
    BY <2>2, <2>8 DEF OrderInv
  <2> HIDE DEF InChan, Sending, InHand
  <2>12. /\ \A i \in 1 .. Len(chan') : chan'[i] < nextCall'
         /\ \A i, j \in 1 .. Len(chan') : i < j => chan'[i] < chan'[j]
    BY <2>1, <2>2 DEF OrderInv
  <2>13. \A c \in Calls : fate'[c] = "queued" <=>
            InChan(c)' \/ Sending(c)' \/ \E v \in Workers : InHand(v, c)'
    BY <2>1, <2>2, <2>4, <2>6, <2>7 DEF OrderInv
  <2>14. \A c \in Calls : (fate[c] # "unsubmitted" /\ ~InChan(c)' /\ ~Sending(c)')
            => \A i \in 1 .. Len(chan') : c < chan'[i]
    BY <2>2, <2>3, <2>4, <2>6 DEF OrderInv
  <2>15. \A c \in Calls : ~(InHand("primary", c)' /\ InHand("secondary", c)')
    BY <2>2, <2>7, <2>9, <2>10 DEF OrderInv, Workers
  <2>16. /\ \A c \in Calls : Sending(c)' => ~InChan(c)'
         /\ \A v \in Workers, c \in Calls : InHand(v, c)' => ~InChan(c)' /\ ~Sending(c)'
    BY <2>2, <2>4, <2>5, <2>6, <2>7, <2>11 DEF OrderInv
  <2> QED
    BY <2>1, <2>12, <2>13, <2>14, <2>15, <2>16 DEF OrderInv
<1> QED
  BY <1>1, <1>2, <1>3, <1>4 DEF WorkerStep

-----------------------------------------------------------------------------
\* The verdict cells.

\* Steps that touch neither the cells nor the fates keep them consistent.
LEMMA VerdictFrame ==
  ASSUME VerdictInv,
         UNCHANGED <<verdict, disagree, error, fate>>,
         mainPc' # "done" => mainPc # "done",
         cancelled => cancelled'
  PROVE  VerdictInv'
  BY DEF VerdictInv

\* When a run rejects block task[w], the only smaller block that can still be
\* waiting is the one the other worker holds: tasks leave the channel in order.
LEMMA OnlyOtherHandIsSmaller ==
  ASSUME BaseInv, OrderInv, NEW w \in Workers, InHand(w, task[w]), task[w] \in Calls,
         NEW c \in Calls, fate[c] = "queued", c < task[w]
  PROVE  \E v \in Workers : v # w /\ InHand(v, c)
<1>1. c \in Nat /\ task[w] \in Nat /\ nextCall \in Nat /\ task[w] < nextCall
  BY QueueAssumption DEF Calls, BaseInv, TypeOK, OrderInv
<1>2. fate[task[w]] # "unsubmitted" /\ ~InChan(task[w]) /\ ~Sending(task[w])
  BY DEF OrderInv
<1>3. \A i \in 1 .. Len(chan) : task[w] < chan[i]
  BY <1>2 DEF OrderInv
<1>4. ~InChan(c)
  BY <1>1, <1>3 DEF InChan
<1>5. ~Sending(c)
  BY <1>1 DEF Sending
<1>6. ~InHand(w, c)
  BY <1>1 DEF InHand
<1> QED
  BY <1>4, <1>5, <1>6 DEF OrderInv

\* The steps of the contract and of await_nondet_vms.
LEMMA VerdictMain ==
  ASSUME BaseInv, OrderInv, VerdictInv,
         Cancel \/ CallInline \/ Submit \/ Send \/ Close \/ AwaitStep
  PROVE  VerdictInv'
<1>1. CASE Cancel \/ CallInline \/ Send \/ Close \/ DropOwnCount \/ CheckEmpty \/ SecondaryReturned
  <2>1. /\ UNCHANGED <<verdict, disagree, error, fate>>
        /\ mainPc' # "done" => mainPc # "done"
        /\ cancelled => cancelled'
    BY <1>1 DEF Cancel, CallInline, Send, Close, DropOwnCount, CheckEmpty, SecondaryReturned,
                mainVars, verdictVars
  <2> QED
    BY <2>1, VerdictFrame
<1>2. CASE Submit
  <2>1. /\ UNCHANGED <<verdict, disagree, error, cancelled>>
        /\ nextCall \in Calls /\ mainPc = "running"
        /\ fate \in [Calls -> Fates] /\ fate' = [fate EXCEPT ![nextCall] = "queued"]
        /\ disagree \in Calls \cup {NoCall} /\ error \in Calls \cup {NoCall}
    BY <1>2, QueueAssumption DEF Submit, BaseInv, TypeOK, Calls
  <2>2. fate[nextCall] = "unsubmitted"
    BY <2>1, QueueAssumption DEF OrderInv, Calls
  <2>3. \A c \in Calls : fate'[c] = IF c = nextCall THEN "queued" ELSE fate[c]
    BY <2>1
  <2>4. disagree # NoCall => disagree \in Calls /\ disagree < nextCall
    BY <2>1 DEF OrderInv, VerdictInv
  <2>5. \A c, d \in Calls : c < d => ~(d < c)
    BY QueueAssumption DEF Calls
  <2> QED
    BY <2>1, <2>2, <2>3, <2>4, <2>5 DEF VerdictInv
<1>3. CASE Collect
  BY <1>3 DEF Collect, VerdictInv
<1> QED
  BY <1>1, <1>2, <1>3 DEF AwaitStep

\* The steps of the workers.
LEMMA VerdictWorker ==
  ASSUME NEW w \in Workers, BaseInv, OrderInv, VerdictInv, WorkerStep(w)
  PROVE  VerdictInv'
<1>1. CASE \/ Park(w) \/ StopCancelled(w) \/ StopCountdown(w) \/ StopDrained(w)
           \/ Receive(w) \/ StartRun(w) \/ Release(w)
  <2>1. UNCHANGED <<verdict, disagree, error, fate, mainPc, cancelled>>
    BY <1>1 DEF Park, StopCancelled, StopCountdown, StopDrained, Receive, StartRun, Release,
                mainVars, verdictVars
  <2> QED
    BY <2>1, VerdictFrame
<1> SUFFICES ASSUME Skip(w) \/ FinishRun(w) PROVE VerdictInv'
  BY <1>1 DEF WorkerStep
<1> DEFINE t == task[w]
<1>2. /\ UNCHANGED <<verdict, mainPc, cancelled>>
      /\ fate \in [Calls -> Fates] /\ t \in Calls
      /\ disagree \in Calls \cup {NoCall} /\ error \in Calls \cup {NoCall}
      /\ InHand(w, t)
  BY DEF Skip, FinishRun, BaseInv, TypeOK, ControlInv, Holds, InHand, mainVars
<1>3. fate[t] = "queued"
  BY <1>2 DEF OrderInv
<1>4. /\ \A c \in Calls : c \in Nat /\ c < NoCall
      /\ NoCall \in Nat
  BY QueueAssumption DEF Calls
<1>5. disagree # NoCall => disagree \in Calls /\ disagree # t
  BY <1>2, <1>3 DEF VerdictInv
<1>6. error # NoCall => error \in Calls /\ error # t
  BY <1>2, <1>3 DEF VerdictInv
<1>7. CASE Skip(w)
  <2>1. /\ UNCHANGED <<disagree, error>> /\ disagree # NoCall
        /\ \A c \in Calls : fate'[c] = IF c = t THEN "skipped" ELSE fate[c]
    BY <1>2, <1>7 DEF Skip
  <2> HIDE DEF t
  <2> QED
    BY <1>2, <1>3, <1>5, <1>6, <2>1 DEF VerdictInv
<1>8. CASE FinishRun(w)
  <2>1. PICK r \in RunEnds(t) :
          \/ /\ r = "agree" /\ fate' = [fate EXCEPT ![t] = "agree"] /\ UNCHANGED <<disagree, error>>
          \/ /\ r \in {"disagree", "other"} /\ fate' = [fate EXCEPT ![t] = "disagree"]
             /\ disagree' = fetch_min(disagree, t) /\ UNCHANGED error
          \/ /\ r = "err" /\ fate' = [fate EXCEPT ![t] = "error"]
             /\ error' = t /\ UNCHANGED disagree
    BY <1>8 DEF FinishRun
  <2>2. r = verdict[t] \/ (r = "other" /\ cancelled)
    BY DEF RunEnds
  <2> HIDE DEF t
  <2>3. CASE r = "agree"
    <3>1. /\ UNCHANGED <<disagree, error>> /\ verdict[t] = "agree"
          /\ \A c \in Calls : fate'[c] = IF c = t THEN "agree" ELSE fate[c]
      BY <1>2, <2>1, <2>2, <2>3
    <3> QED
      BY <1>2, <1>3, <1>5, <1>6, <3>1 DEF VerdictInv
  <2>4. CASE r = "err"
    <3>1. /\ UNCHANGED disagree /\ error' = t /\ verdict[t] = "err"
          /\ \A c \in Calls : fate'[c] = IF c = t THEN "error" ELSE fate[c]
      BY <1>2, <2>1, <2>2, <2>4
    <3> QED
      BY <1>2, <1>3, <1>4, <1>5, <3>1 DEF VerdictInv
  <2>5. CASE r \in {"disagree", "other"}
    <3>1. /\ UNCHANGED error /\ disagree' = fetch_min(disagree, t)
          /\ (cancelled \/ verdict[t] \in {"disagree", "other"})
          /\ \A c \in Calls : fate'[c] = IF c = t THEN "disagree" ELSE fate[c]
      BY <1>2, <2>1, <2>2, <2>5
    <3>2. /\ disagree' \in Calls /\ disagree' <= t /\ disagree' <= disagree
          /\ disagree' = t \/ disagree' = disagree
      BY <1>2, <1>4, <3>1 DEF fetch_min
    <3>3. fate'[disagree'] = "disagree"
      BY <1>5, <3>1, <3>2, <1>4 DEF VerdictInv
    <3>4. error' # NoCall => fate'[error'] = "error"
      BY <1>6, <3>1 DEF VerdictInv
    <3>5. \A c \in Calls : fate'[c] = "disagree" => disagree' <= c
      BY <1>2, <1>4, <3>1, <3>2 DEF VerdictInv
    <3>6. \A c \in Calls :
            /\ fate'[c] = "skipped" => disagree' # NoCall
            /\ (fate'[c] = "error" /\ mainPc' # "done") => error' # NoCall
            /\ fate'[c] = "agree" => verdict'[c] = "agree"
            /\ fate'[c] = "error" => verdict'[c] = "err"
            /\ (fate'[c] = "disagree" /\ ~cancelled') => verdict'[c] \in {"disagree", "other"}
      BY <1>2, <1>4, <3>1, <3>2 DEF VerdictInv
    <3>7. ASSUME NEW c \in Calls, NEW d \in Calls, c < disagree', d < disagree',
                 fate'[c] \in {"queued", "skipped"}, fate'[d] \in {"queued", "skipped"}
          PROVE  c = d
      <4>1. /\ c # t /\ d # t /\ c < t /\ d < t
            /\ fate[c] \in {"queued", "skipped"} /\ fate[d] \in {"queued", "skipped"}
        BY <1>2, <1>4, <3>1, <3>2, <3>7
      <4>2. CASE disagree # NoCall
        BY <1>4, <1>5, <3>2, <3>7, <4>1, <4>2 DEF VerdictInv
      <4>3. CASE disagree = NoCall
        <5>1. fate[c] = "queued" /\ fate[d] = "queued"
          BY <4>1, <4>3 DEF VerdictInv
        <5>2. /\ \E v \in Workers : v # w /\ InHand(v, c)
              /\ \E v \in Workers : v # w /\ InHand(v, d)
          BY <1>2, <4>1, <5>1, OnlyOtherHandIsSmaller DEF t
        <5> QED
          BY <5>2 DEF InHand, Workers
      <4> QED
        BY <4>2, <4>3
    <3> QED
      BY <3>2, <3>3, <3>4, <3>5, <3>6, <3>7 DEF VerdictInv
  <2> QED
    BY <2>1, <2>3, <2>4, <2>5
<1> QED
  BY <1>7, <1>8

-----------------------------------------------------------------------------
\* How the workers stop and what await_nondet_vms returns.

\* Waiter's counter is zero only after close(), with nothing left to take:
\* this is what makes the countdown a sound stop signal for both workers.
LEMMA ZeroMeansDrained ==
  ASSUME BaseInv, countdown = 0
  PROVE  closed /\ chan = <<>>
<1>1. chan \in Seq(Calls) /\ Len(chan) \in Nat
  BY DEF BaseInv, TypeOK
<1>2. /\ Count(mainPc \in {"running", "sending", "closed"}) \in Nat
      /\ Count(mainPc = "sending") \in Nat
      /\ Count(Holds("primary")) \in Nat /\ Count(Holds("secondary")) \in Nat
  BY DEF Count
<1>3. Count(mainPc \in {"running", "sending", "closed"}) = 0 /\ Len(chan) = 0
  <2> HIDE DEF Count, Holds
  <2> QED
    BY <1>1, <1>2 DEF BaseInv, CountdownCountsTokens
<1>4. chan = <<>>
  BY <1>1, <1>3
<1>5. closed
  BY <1>3 DEF closed, Count
<1> QED
  BY <1>4, <1>5

\* The steps of the contract and of await_nondet_vms.
LEMMA StopMain ==
  ASSUME BaseInv, VerdictInv, StopInv,
         Cancel \/ CallInline \/ Submit \/ Send \/ Close \/ AwaitStep
  PROVE  StopInv'
<1>1. CASE Cancel
  <2>1. UNCHANGED <<mainPc, chan, workerPc, disagree, fate, result>> /\ cancelled'
    BY <1>1 DEF Cancel, mainVars, verdictVars
  <2> QED
    BY <2>1 DEF StopInv, closed, ReadGuards
<1>2. CASE CallInline \/ Submit \/ Send
  <2>1. /\ UNCHANGED <<workerPc, cancelled, result>>
        /\ mainPc \in {"running", "sending"} /\ mainPc' \in {"running", "sending"}
    BY <1>2 DEF CallInline, Submit, Send
  <2>2. \A w \in Workers : workerPc[w] = "gone" => cancelled
    BY <2>1 DEF StopInv, closed
  <2> QED
    BY <2>1, <2>2 DEF StopInv
<1>3. CASE Close \/ DropOwnCount \/ SecondaryReturned
  <2>1. /\ UNCHANGED <<chan, workerPc, cancelled, result>>
        /\ mainPc # "done" /\ mainPc' \in {"closed", "checking", "locking"}
    BY <1>3 DEF Close, DropOwnCount, SecondaryReturned
  <2> QED
    BY <2>1 DEF StopInv, closed
<1>4. CASE CheckEmpty
  <2>1. /\ UNCHANGED <<chan, cancelled, result>> /\ mainPc = "checking"
        /\ mainPc' \in {"draining", "locking"}
        /\ \/ UNCHANGED workerPc
           \/ workerPc' = [workerPc EXCEPT !["secondary"] = "polling"]
        /\ workerPc \in [Workers -> WorkerPcs]
    BY <1>4 DEF CheckEmpty, BaseInv, TypeOK
  <2>2. /\ \A w \in Workers : workerPc'[w] = "gone" => workerPc[w] = "gone"
        /\ workerPc'["primary"] = workerPc["primary"]
    BY <2>1 DEF Workers
  <2> QED
    BY <2>1, <2>2 DEF StopInv, closed
<1>5. CASE Collect
  <2>1. /\ UNCHANGED <<chan, workerPc, cancelled, disagree, fate>>
        /\ mainPc = "locking" /\ mainPc' = "done" /\ ReadGuards = {}
        /\ result' = IF error # NoCall THEN [tag |-> "err", call |-> error]
                                       ELSE [tag |-> "ok", call |-> disagree]
        /\ error \in Calls \cup {NoCall}
    BY <1>5 DEF Collect, BaseInv, TypeOK
  <2>2. ReadGuards' = {}
    BY <2>1 DEF ReadGuards
  <2>3. \/ /\ result' = [tag |-> "ok", call |-> disagree']
           /\ \A c \in Calls : fate'[c] # "error"
        \/ /\ result'.tag = "err"
           /\ result'.call \in Calls
           /\ fate'[result'.call] = "error"
    BY <2>1 DEF VerdictInv
  <2> QED
    BY <2>1, <2>2, <2>3 DEF StopInv, closed
<1> QED
  BY <1>1, <1>2, <1>3, <1>4, <1>5 DEF AwaitStep

\* The steps of the workers; none is possible once await_nondet_vms has the
\* write lock.
LEMMA StopWorker ==
  ASSUME NEW w \in Workers, BaseInv, StopInv, WorkerStep(w)
  PROVE  StopInv'
<1> USE DEF Selecting, GoTo
<1>1. UNCHANGED <<mainPc, cancelled, result>> /\ workerPc \in [Workers -> WorkerPcs]
  BY DEF WorkerStep, Park, StopCancelled, StopCountdown, StopDrained, Receive, Skip, StartRun,
         FinishRun, Release, mainVars, BaseInv, TypeOK
<1>2. workerPc[w] \notin {"idle", "gone"}
  BY DEF WorkerStep, Park, StopCancelled, StopCountdown, StopDrained, Receive, Skip, StartRun,
         FinishRun, Release
<1>3. mainPc # "done"
  BY <1>2 DEF StopInv, ReadGuards
<1>4. PICK pc \in WorkerPcs \ {"idle"} : workerPc' = [workerPc EXCEPT ![w] = pc]
  BY DEF WorkerStep, Park, StopCancelled, StopCountdown, StopDrained, Receive, Skip, StartRun,
         FinishRun, Release, WorkerPcs
<1>5. chan = <<>> => chan' = <<>>
  BY DEF WorkerStep, Park, StopCancelled, StopCountdown, StopDrained, Receive, Skip, StartRun,
         FinishRun, Release
<1>6. (workerPc'[w] = "gone" /\ ~cancelled) => closed /\ chan = <<>>
  <2>1. CASE StopCountdown(w)
    BY <2>1, ZeroMeansDrained DEF StopCountdown, BaseInv, ControlInv
  <2>2. CASE StopDrained(w) \/ StopCancelled(w)
    BY <2>2 DEF StopDrained, StopCancelled
  <2>3. CASE Park(w) \/ Receive(w) \/ Skip(w) \/ StartRun(w) \/ FinishRun(w) \/ Release(w)
    BY <1>1, <2>3 DEF Park, Receive, Skip, StartRun, FinishRun, Release
  <2> QED
    BY <2>1, <2>2, <2>3 DEF WorkerStep
<1>7. \A v \in Workers : (workerPc'[v] = "gone" /\ ~cancelled') => closed' /\ chan' = <<>>
  BY <1>1, <1>4, <1>5, <1>6 DEF StopInv, closed
<1>8. workerPc'["primary"] # "idle"
  BY <1>1, <1>4 DEF StopInv
<1> QED
  BY <1>1, <1>3, <1>7, <1>8 DEF StopInv

-----------------------------------------------------------------------------
\* The theorems.

\* The inductive invariant holds in every reachable state of the queue, for
\* every number of calls and every capacity of the channel.
THEOREM Inductive == Spec => []IndInv
<1>1. Init => IndInv
  <2> SUFFICES ASSUME Init PROVE IndInv
    OBVIOUS
  <2>1. BaseInv
    BY BaseInit
  <2>2. OrderInv
    BY QueueAssumption DEF Init, OrderInv, InChan, Sending, InHand, Workers, Calls
  <2>3. VerdictInv
    BY DEF Init, VerdictInv
  <2>4. StopInv
    BY DEF Init, StopInv, Workers
  <2> QED
    BY <2>1, <2>2, <2>3, <2>4 DEF IndInv, BaseInv
<1>2. IndInv /\ [Next]_vars => IndInv'
  <2> SUFFICES ASSUME IndInv, [Next]_vars PROVE IndInv'
    OBVIOUS
  <2>0. BaseInv /\ OrderInv /\ VerdictInv /\ StopInv
    BY DEF IndInv, BaseInv
  <2>1. CASE Cancel \/ CallInline \/ Submit \/ Send \/ Close \/ AwaitStep
    BY <2>0, <2>1, BaseMain, OrderMain, VerdictMain, StopMain DEF IndInv, BaseInv
  <2>2. ASSUME NEW w \in Workers, WorkerStep(w) PROVE IndInv'
    BY <2>0, <2>2, BaseWorker, OrderWorker, VerdictWorker, StopWorker DEF IndInv, BaseInv
  <2>3. CASE UNCHANGED vars
    BY <2>3 DEF IndInv, vars, TypeOK, CountdownCountsTokens, ControlInv, OrderInv, VerdictInv,
                StopInv, Count, Holds, InChan, Sending, InHand, closed, ReadGuards
  <2> QED
    BY <2>1, <2>2, <2>3 DEF Next
<1> QED
  BY <1>1, <1>2, PTL DEF Spec

\* What is known when await_nondet_vms takes the verdict: a task that is
\* still queued is above every settled one, and there is none at all unless
\* the execution was cancelled.
LEMMA AtCollect ==
  ASSUME IndInv, closed, ReadGuards = {}
  PROVE  /\ \A c, d \in Calls : (fate[c] = "queued" /\ fate[d] \notin {"unsubmitted", "queued"}) => d < c
         /\ ~cancelled => \A c \in Calls : fate[c] # "queued"
<1>1. \A w \in Workers : workerPc[w] \in {"idle", "gone"}
  BY DEF ReadGuards
<1>2. \A w \in Workers, c \in Calls : ~InHand(w, c)
  BY <1>1 DEF InHand
<1>3. \A c \in Calls : ~Sending(c)
  BY DEF Sending, closed
<1>4. \A c \in Calls : fate[c] = "queued" <=> InChan(c)
  BY <1>2, <1>3 DEF IndInv, OrderInv
<1>5. \A c, d \in Calls : (InChan(c) /\ fate[d] # "unsubmitted" /\ ~InChan(d)) => d < c
  BY <1>3 DEF IndInv, OrderInv, InChan
<1>6. ~cancelled => chan = <<>>
  BY <1>1 DEF IndInv, StopInv, Workers
<1>7. chan = <<>> => \A c \in Calls : ~InChan(c)
  BY DEF InChan
<1> QED
  BY <1>4, <1>5, <1>6, <1>7

\* The safety properties follow from the invariant.
LEMMA SafetyParts ==
  ASSUME IndInv
  PROVE  NoTaskLeftBehind /\ AcceptedOnlyIfAllAgree /\ ReportedNearMinimum
<1> USE DEF IndInv
<1>0. /\ \A c \in Calls : c \in Nat /\ c < NoCall
      /\ NoCall \in Nat /\ NoCall \notin Calls
      /\ fate \in [Calls -> Fates] /\ disagree \in Calls \cup {NoCall}
  BY QueueAssumption DEF Calls, TypeOK
<1>1. mainPc = "done" => closed /\ ReadGuards = {}
  BY DEF StopInv, closed
<1>2. NoTaskLeftBehind
  BY <1>1, AtCollect DEF NoTaskLeftBehind
<1>3. ASSUME result.tag = "ok"
      PROVE  /\ mainPc = "done" /\ result.call = disagree
             /\ \A c \in Calls : fate[c] # "error"
  BY <1>3 DEF StopInv, Pending
<1>4. AcceptedOnlyIfAllAgree
  <2> SUFFICES ASSUME result = [tag |-> "ok", call |-> NoCall], ~cancelled,
                      NEW c \in Submitted
               PROVE  verdict[c] = "agree"
    BY DEF AcceptedOnlyIfAllAgree
  <2>1. mainPc = "done" /\ disagree = NoCall /\ c \in Calls /\ fate[c] \notin {"unsubmitted", "error"}
    BY <1>3 DEF Submitted
  <2>2. fate[c] # "queued"
    BY <1>2, <2>1 DEF NoTaskLeftBehind
  <2>3. fate[c] \notin {"disagree", "skipped"}
    BY <1>0, <2>1 DEF VerdictInv
  <2>4. fate[c] = "agree"
    BY <1>0, <2>1, <2>2, <2>3 DEF Fates
  <2> QED
    BY <2>1, <2>4 DEF VerdictInv
<1>5. ReportedNearMinimum
  <2> SUFFICES ASSUME result.tag = "ok", result.call # NoCall
               PROVE  /\ fate[result.call] = "disagree"
                      /\ \A c \in Submitted : c < result.call => fate[c] \in {"agree", "skipped"}
                      /\ \A c, d \in Calls :
                           (c < result.call /\ d < result.call
                            /\ fate[c] = "skipped" /\ fate[d] = "skipped") => c = d
    BY DEF ReportedNearMinimum
  <2>1. /\ mainPc = "done" /\ result.call = disagree /\ disagree # NoCall /\ disagree \in Calls
        /\ \A c \in Calls : fate[c] # "error"
    BY <1>0, <1>3
  <2>2. fate[disagree] = "disagree"
    BY <2>1 DEF VerdictInv
  <2>3. ASSUME NEW c \in Submitted, c < disagree PROVE fate[c] \in {"agree", "skipped"}
    <3>1. c \in Calls /\ fate[c] \notin {"unsubmitted", "error"}
      BY <2>1 DEF Submitted
    <3>2. fate[c] # "disagree"
      BY <1>0, <2>1, <2>3, <3>1 DEF VerdictInv
    <3>3. fate[c] # "queued"
      BY <1>0, <1>1, <2>1, <2>2, <2>3, <3>1, AtCollect
    <3> QED
      BY <1>0, <3>1, <3>2, <3>3 DEF Fates
  <2>4. \A c, d \in Calls : (c < disagree /\ d < disagree
                             /\ fate[c] = "skipped" /\ fate[d] = "skipped") => c = d
    BY <2>1 DEF VerdictInv
  <2> QED
    BY <2>1, <2>2, <2>3, <2>4
<1> QED
  BY <1>2, <1>4, <1>5

\* Unless cancelled, await_nondet_vms returns only when every task was run or
\* skipped, however its two workers raced for them.
THEOREM NothingLeftBehind == Spec => []NoTaskLeftBehind
  BY Inductive, SafetyParts, PTL

\* A leader's result is accepted only when every submitted block agreed.
THEOREM AcceptedIsAgreed == Spec => []AcceptedOnlyIfAllAgree
  BY Inductive, SafetyParts, PTL

\* The disagreement reported is the smallest one but for at most one block a
\* worker was overtaken on, cancelled or not.
THEOREM ReportedIsNearMinimum == Spec => []ReportedNearMinimum
  BY Inductive, SafetyParts, PTL

\* The verdict cell only goes down and no error is lost before it is taken.
THEOREM Monotone == Spec => VerdictMonotone
<1>1. IndInv /\ [Next]_vars =>
        [ /\ disagree' <= disagree
          /\ (error # NoCall /\ error' = NoCall) => mainPc = "locking" ]_vars
  <2> SUFFICES ASSUME IndInv, Next
               PROVE  /\ disagree' <= disagree
                      /\ (error # NoCall /\ error' = NoCall) => mainPc = "locking"
    OBVIOUS
  <2>0. /\ disagree \in Nat /\ NoCall \in Nat /\ NoCall \notin Calls
        /\ \A c \in Calls : c \in Nat
    BY QueueAssumption DEF IndInv, TypeOK, Calls
  <2>1. CASE Cancel \/ CallInline \/ Submit \/ Send \/ Close \/ AwaitStep
    <3>1. UNCHANGED disagree /\ (UNCHANGED error \/ mainPc = "locking")
      BY <2>1 DEF Cancel, CallInline, Submit, Send, Close, AwaitStep, DropOwnCount, CheckEmpty,
                  SecondaryReturned, Collect, verdictVars
    <3> QED
      BY <2>0, <3>1
  <2>2. ASSUME NEW w \in Workers, WorkerStep(w)
        PROVE  /\ disagree' <= disagree
               /\ (error # NoCall /\ error' = NoCall) => mainPc = "locking"
    <3>1. CASE FinishRun(w)
      <4>1. task[w] \in Calls
        BY <3>1 DEF FinishRun, IndInv, ControlInv, Holds
      <4> QED
        BY <2>0, <3>1, <4>1 DEF FinishRun, fetch_min
    <3>2. CASE ~FinishRun(w)
      <4>1. UNCHANGED <<disagree, error>>
        BY <2>2, <3>2 DEF WorkerStep, Park, StopCancelled, StopCountdown, StopDrained, Receive,
                          Skip, StartRun, Release, verdictVars
      <4> QED
        BY <2>0, <4>1
    <3> QED
      BY <3>1, <3>2
  <2> QED
    BY <2>1, <2>2 DEF Next
<1> QED
  BY Inductive, <1>1, PTL DEF Spec, VerdictMonotone

-----------------------------------------------------------------------------
\* The queue implements NondetVerdict.

\* Taking the verdict is the abstract answer.
LEMMA CollectAnswers ==
  ASSUME IndInv, Collect
  PROVE  Verdict!Answer
<1> USE DEF IndInv
<1>0. /\ \A c \in Calls : c \in Nat /\ c < NoCall
      /\ NoCall \in Nat /\ NoCall \notin Calls
      /\ fate \in [Calls -> Fates] /\ disagree \in Calls \cup {NoCall}
      /\ error \in Calls \cup {NoCall}
  BY QueueAssumption DEF Calls, TypeOK
<1>1. /\ UNCHANGED <<verdict, fate, cancelled, disagree>>
      /\ mainPc = "locking" /\ ReadGuards = {} /\ closed
      /\ result' = IF error # NoCall THEN [tag |-> "err", call |-> error]
                                     ELSE [tag |-> "ok", call |-> disagree]
  BY DEF Collect, closed
<1>2. result = Pending /\ Verdict!Pending = Pending
  BY <1>1 DEF StopInv, Pending, Verdict!Pending
<1>3. UNCHANGED Submitted
  BY <1>1 DEF Submitted
<1>4. Verdict!Calls = Calls
  BY DEF Calls, Verdict!Calls
<1>5. ~cancelled => \A c \in Calls : fate[c] # "queued"
  BY <1>1, AtCollect
<1>6. CASE error # NoCall
  <2>1. error \in Calls /\ fate[error] = "error" /\ verdict[error] = "err"
    BY <1>0, <1>6 DEF VerdictInv
  <2>2. Verdict!Fail(error)
    BY <1>1, <1>6, <2>1 DEF Verdict!Fail, Submitted
  <2> QED
    BY <1>1, <1>2, <1>3, <1>4, <2>1, <2>2 DEF Verdict!Answer
<1>7. CASE error = NoCall
  <2>1. \A c \in Calls : fate[c] # "error"
    BY <1>1, <1>7 DEF VerdictInv
  <2>2. result' = [tag |-> "ok", call |-> disagree]
    BY <1>1, <1>7
  <2>3. disagree # NoCall => disagree \in Submitted /\ fate[disagree] = "disagree"
    BY <1>0 DEF VerdictInv, Submitted
  <2>4. CASE cancelled
    <3>1. Verdict!AnswerAnything
      BY <2>2, <2>3, <2>4 DEF Verdict!AnswerAnything
    <3> QED
      BY <1>1, <1>2, <1>3, <3>1 DEF Verdict!Answer
  <2>5. CASE ~cancelled /\ disagree = NoCall
    <3>1. \A c \in Calls : fate[c] # "unsubmitted" => fate[c] = "agree"
      BY <1>0, <1>5, <2>1, <2>5 DEF VerdictInv, Fates
    <3>2. Verdict!Accept
      BY <1>4, <2>2, <2>5, <3>1 DEF Verdict!Accept, Verdict!Faulty, VerdictInv, Submitted
    <3> QED
      BY <1>1, <1>2, <1>3, <3>2 DEF Verdict!Answer
  <2>6. CASE ~cancelled /\ disagree # NoCall
    <3>1. disagree \in Calls /\ verdict[disagree] \in {"disagree", "other"}
      BY <1>0, <2>3, <2>6 DEF VerdictInv
    <3>2. \A c \in Calls : (c < disagree /\ Verdict!Faulty(c)) => fate[c] = "skipped"
      <4> SUFFICES ASSUME NEW c \in Calls, c < disagree, Verdict!Faulty(c)
                   PROVE  fate[c] = "skipped"
        OBVIOUS
      <4>1. fate[c] # "unsubmitted" /\ verdict[c] # "agree"
        BY DEF Verdict!Faulty, Submitted
      <4>2. fate[c] # "agree"
        BY <4>1 DEF VerdictInv
      <4>3. fate[c] # "disagree"
        BY <1>0, <3>1 DEF VerdictInv
      <4> QED
        BY <1>0, <1>5, <2>1, <2>6, <4>1, <4>2, <4>3 DEF Fates
    <3>3. \A c, d \in Calls : (/\ c < disagree /\ d < disagree
                               /\ fate[c] = "skipped" /\ fate[d] = "skipped") => c = d
      BY <2>6 DEF VerdictInv
    <3>4. Verdict!Reject(disagree)
      BY <1>4, <2>2, <2>3, <2>6, <3>1, <3>2, <3>3 DEF Verdict!Reject, Verdict!Rejected
    <3> QED
      BY <1>1, <1>2, <1>3, <1>4, <3>1, <3>4 DEF Verdict!Answer
  <2> QED
    BY <2>4, <2>5, <2>6
<1> QED
  BY <1>6, <1>7

\* Every step of the queue is a step of the abstract specification or leaves
\* its variables alone.
LEMMA StepRefines ==
  ASSUME IndInv, [Next]_vars
  PROVE  [Verdict!Next]_Verdict!vars
<1> USE DEF IndInv
<1>0. fate \in [Calls -> Fates]
  BY DEF TypeOK
<1>1. CASE UNCHANGED vars
  BY <1>1 DEF vars, Verdict!vars, Submitted
<1>2. CASE Cancel
  <2>1. Verdict!Cancel
    BY <1>2 DEF Cancel, Verdict!Cancel, mainVars, verdictVars, Submitted
  <2> QED
    BY <2>1 DEF Verdict!Next
<1>3. CASE Submit
  <2>1. /\ nextCall \in Calls /\ fate' = [fate EXCEPT ![nextCall] = "queued"]
        /\ UNCHANGED <<verdict, cancelled, result>> /\ mainPc = "running"
    BY <1>3, QueueAssumption DEF Submit, TypeOK, Calls
  <2>2. \A c \in Calls : fate'[c] = IF c = nextCall THEN "queued" ELSE fate[c]
    BY <1>0, <2>1
  <2>3. Submitted' = Submitted \cup {nextCall}
    BY <2>1, <2>2 DEF Submitted
  <2>4. \A d \in Submitted : d < nextCall
    BY DEF Submitted, OrderInv
  <2>5. result = Verdict!Pending
    BY <2>1 DEF StopInv, Pending, Verdict!Pending
  <2>6. Verdict!Submit(nextCall)
    BY <2>1, <2>3, <2>4, <2>5 DEF Verdict!Submit
  <2> QED
    BY <2>1, <2>6 DEF Verdict!Next, Verdict!Calls, Calls
<1>4. CASE Collect
  BY <1>4, CollectAnswers DEF Verdict!Next
<1>5. CASE CallInline \/ Send \/ Close \/ DropOwnCount \/ CheckEmpty \/ SecondaryReturned
  BY <1>5 DEF CallInline, Send, Close, DropOwnCount, CheckEmpty, SecondaryReturned, verdictVars,
              Verdict!vars, Submitted
<1>6. ASSUME NEW w \in Workers, WorkerStep(w) PROVE UNCHANGED Verdict!vars
  <2>1. UNCHANGED <<verdict, cancelled, result>>
    BY <1>6 DEF WorkerStep, Park, StopCancelled, StopCountdown, StopDrained, Receive, Skip,
                StartRun, FinishRun, Release, mainVars
  <2>2. CASE Skip(w) \/ FinishRun(w)
    <3>1. task[w] \in Calls /\ fate[task[w]] = "queued"
      BY <2>2 DEF Skip, FinishRun, ControlInv, Holds, OrderInv, InHand
    <3>2. \E f \in Fates \ {"unsubmitted"} : fate' = [fate EXCEPT ![task[w]] = f]
      BY <2>2 DEF Skip, FinishRun, Fates
    <3>3. \A c \in Calls : fate'[c] = "unsubmitted" <=> fate[c] = "unsubmitted"
      BY <1>0, <3>1, <3>2
    <3>4. Submitted' = Submitted
      BY <3>3 DEF Submitted
    <3> QED
      BY <2>1, <3>4 DEF Verdict!vars
  <2>3. CASE ~(Skip(w) \/ FinishRun(w))
    <3>1. UNCHANGED fate
      BY <1>6, <2>3 DEF WorkerStep, Park, StopCancelled, StopCountdown, StopDrained, Receive,
                        StartRun, Release, verdictVars
    <3> QED
      BY <2>1, <3>1 DEF Verdict!vars, Submitted
  <2> QED
    BY <2>2, <2>3
<1> QED
  BY <1>1, <1>2, <1>3, <1>4, <1>5, <1>6 DEF Next, AwaitStep

\* The queue with its two workers, countdown and cancellation implements the
\* promise of await_nondet_vms.
THEOREM Implements == Spec => VerdictSpec
<1>1. Init => Verdict!Init
  BY DEF Init, Verdict!Init, Submitted, Pending, Verdict!Pending, Verdict!Calls, Calls,
         Verdict!Outcomes, Outcomes
<1> QED
  BY <1>1, Inductive, StepRefines, PTL DEF Spec, VerdictSpec, Verdict!Spec
=============================================================================
