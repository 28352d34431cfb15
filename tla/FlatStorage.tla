---------------------------- MODULE FlatStorage ----------------------------
(***************************************************************************)
(* What the storage of a contract promises a VM: an array of bytes per     *)
(* slot.  A write puts its bytes in place and touches no other; one that   *)
(* traps the VM may leave any of its pages unwritten.  A sandbox works on  *)
(* a copy that disappears with it; its failure may be its caller's too.    *)
(***************************************************************************)
EXTENDS Naturals, Sequences

CONSTANTS Slots, PageSize, MaxIndex, CodeSlot, HeaderSize, CodeSize

VARIABLES mem,      \* the bytes each VM sees, outermost VM first
          writes,   \* number of writes so far, which names their bytes (1 and 2
                    \* are the names of the code's)
          request,  \* the last write: where and how many bytes
          trapped   \* the innermost VM has trapped

vars == <<mem, writes, request, trapped>>

Places == Slots \X (0 .. MaxIndex - 1)

Host(slot, i) == <<0, slot, i>>

Top == mem[Len(mem)]

Init ==
  /\ mem = << [p \in Places |-> Host(p[1], p[2])] >>
  /\ writes = 0
  /\ request = <<>>
  /\ trapped = FALSE

\* Byte j of write number k.
Byte(k, j) == <<k, 0, j>>

\* The memory after write k of n bytes at idx reached the pages in Q.
Written(m, k, slot, idx, n, Q) ==
  [p \in Places |->
     IF p[1] = slot /\ idx <= p[2] /\ p[2] < idx + n /\ (p[2] \div PageSize) \in Q
     THEN Byte(k, p[2] - idx + 1) ELSE m[p]]

PagesOf(idx, n) == idx \div PageSize .. (idx + n - 1) \div PageSize

Replace(m) == mem' = [mem EXCEPT ![Len(mem)] = m]

Write(slot, idx, n) ==
  /\ request' = <<slot, idx, n>>
  /\ ~trapped
  /\ writes' = writes + 1
  /\ \/ /\ Replace(Written(Top, writes + 3, slot, idx, n, PagesOf(idx, n)))
        /\ UNCHANGED trapped
     \/ /\ \E Q \in SUBSET PagesOf(idx, n) :
             Replace(Written(Top, writes + 3, slot, idx, n, Q))
        /\ trapped' = TRUE

\* The code is written before anything else, its length in front of it.
Deploy ==
  /\ writes = 0
  /\ UNCHANGED <<writes, request>>
  /\ \E Q \in SUBSET PagesOf(0, HeaderSize), R \in SUBSET PagesOf(HeaderSize, CodeSize) :
       /\ trapped' = (Q # PagesOf(0, HeaderSize) \/ R # PagesOf(HeaderSize, CodeSize))
       /\ Replace(Written(Written(Top, 1, CodeSlot, 0, HeaderSize, Q),
                          2, CodeSlot, HeaderSize, CodeSize, R))

Trap == ~trapped /\ trapped' = TRUE /\ UNCHANGED <<mem, writes, request>>

SandboxEnter == ~trapped /\ mem' = Append(mem, Top) /\ UNCHANGED <<writes, request, trapped>>

SandboxLeave ==
  /\ Len(mem) > 1
  /\ mem' = SubSeq(mem, 1, Len(mem) - 1)
  /\ trapped' \in {FALSE, trapped}
  /\ UNCHANGED <<writes, request>>

Next ==
  \/ Deploy \/ Trap \/ SandboxEnter \/ SandboxLeave
  \/ \E slot \in Slots, idx \in 0 .. MaxIndex - 1 :
       \E n \in 1 .. MaxIndex - idx : Write(slot, idx, n)

Spec == Init /\ [][Next]_vars
=============================================================================
