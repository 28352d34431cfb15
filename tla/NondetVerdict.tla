---------------------------- MODULE NondetVerdict ----------------------------
(***************************************************************************)
(* What await_nondet_vms promises to run_with, without queue, workers or   *)
(* countdown: after the contract has finished, one answer about the        *)
(* validator blocks it submitted.  The answer is                           *)
(*   - Ok(None), only when every submitted block agrees;                   *)
(*   - Ok(Some(m)), only when block m does not agree and all the blocks    *)
(*     below it agree, except for at most one;                             *)
(*   - Err, only when the run of some submitted block ended in an error.   *)
(* A cancelled execution promises nothing but an answer of the right form. *)
(***************************************************************************)
EXTENDS Naturals

CONSTANTS MaxCalls,   \* number of run_nondet calls the contract may make
          NoCall      \* u32::MAX: "no call", above every call number

Calls == 0 .. MaxCalls - 1

\* How the run of a validator block ends: calldata true ([16]), calldata
\* false ([8]), any other RunOk, or an internal error.
Outcomes == {"agree", "disagree", "other", "err"}

Rejected == {"disagree", "other"}

VARIABLES verdict,    \* how the run of each block ends when nobody interrupts it
          submitted,  \* the blocks handed to the queue
          cancelled,  \* the cancellation token has fired
          answer      \* what await_nondet_vms returned

vars == <<verdict, submitted, cancelled, answer>>

Answers == [tag : {"pending", "ok", "err"}, call : Calls \cup {NoCall}]

Pending == [tag |-> "pending", call |-> NoCall]

Init ==
  /\ verdict \in [Calls -> Outcomes]
  /\ submitted = {}
  /\ cancelled = FALSE
  /\ answer = Pending

Submit(c) ==
  /\ answer = Pending
  /\ \A d \in submitted : d < c
  /\ submitted' = submitted \cup {c}
  /\ UNCHANGED <<verdict, cancelled, answer>>

Cancel ==
  /\ cancelled' = TRUE
  /\ UNCHANGED <<verdict, submitted, answer>>

\* Block c does not agree.
Faulty(c) == c \in submitted /\ verdict[c] # "agree"

\* Ok(None): the leader's results stand.
Accept ==
  /\ ~ \E c \in Calls : Faulty(c)
  /\ answer' = [tag |-> "ok", call |-> NoCall]

\* Ok(Some(m)): m is rejected, and it is the smallest faulty block but for
\* at most one.
Reject(m) ==
  /\ m \in submitted
  /\ verdict[m] \in Rejected
  /\ \A c, d \in Calls : (c < m /\ d < m /\ Faulty(c) /\ Faulty(d)) => c = d
  /\ answer' = [tag |-> "ok", call |-> m]

Fail(e) ==
  /\ e \in submitted
  /\ verdict[e] = "err"
  /\ answer' = [tag |-> "err", call |-> e]

AnswerAnything ==
  /\ cancelled
  /\ \/ \E m \in submitted \cup {NoCall} : answer' = [tag |-> "ok", call |-> m]
     \/ \E e \in submitted : answer' = [tag |-> "err", call |-> e]

Answer ==
  /\ answer = Pending
  /\ \/ Accept
     \/ \E c \in Calls : Reject(c) \/ Fail(c)
     \/ AnswerAnything
  /\ UNCHANGED <<verdict, submitted, cancelled>>

Next == Cancel \/ Answer \/ \E c \in Calls : Submit(c)

Spec == Init /\ [][Next]_vars
=============================================================================
