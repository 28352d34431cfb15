---------------------------- MODULE EqPrinciple ----------------------------
(***************************************************************************)
(* How a validator votes on a leader's result: gl.vm.run_nondet_unsafe and *)
(* run_nondet, and the equivalence principles built on them                *)
(* (gl/vm.py, gl/eq_principle.py).                                         *)
(*                                                                         *)
(* The outcome of a function in a VM of its own is a Return with a value,  *)
(* a UserError or a VMError with a message.  An exception other than       *)
(* UserError ends the interpreter: VMError exit_code 1.                    *)
(*                                                                         *)
(* A value is its Python type and what is in it, in a common spelling:     *)
(* True and 1 are both "1".  "bytes" stands for those that are UTF-8; a    *)
(* container behaves as what it holds.                                     *)
(***************************************************************************)
EXTENDS Integers, Sequences

Str(s)       == [t |-> "str", n |-> s]
Return(v)    == [k |-> "return", v |-> v]
UserError(m) == [k |-> "user", v |-> Str(m)]
VMError(m)   == [k |-> "vm", v |-> Str(m)]
Raised       == VMError("exit_code 1")

Said(b) == Return([t |-> "bool", n |-> IF b THEN "1" ELSE "0"])

(* Python's ==: a bool is a number.                                        *)
Equal(a, b) == (a.t = b.t \/ {a.t, b.t} = {"bool", "int"}) /\ a.n = b.n

(* What the payload of a prompt takes where it wants a String.             *)
IsText(v) == v.t \in {"str", "bytes"}

(* A gl_call that runs a prompt answers ok or raises (_decode_nondet); one *)
(* whose payload does not fit is refused, which raises too.                *)
Prompt(fits, llm) == IF fits /\ llm.ok THEN Said(llm.verdict) ELSE Raised

(* The leader: the function itself, for prompt_non_comparative followed by *)
(* an assertion that it returned a str and by a prompt that carries out    *)
(* the task.                                                               *)
LeaderResult(api, fn, llm) ==
    IF api # "non_comparative" \/ fn.k # "return" THEN fn
    ELSE IF fn.v.t = "str" /\ llm.ok THEN Return(Str("done"))
    ELSE Raised

(* spawn_sandbox(fn) == leaders_res, on dataclasses                        *)
SameResult(a, b) == a.k = b.k /\ Equal(a.v, b.v)

(* What validator_fn does in its VM, given the leader's result: fn is the  *)
(* outcome of the validator's own run, llm its prompt, custom the outcome  *)
(* of a function the contract supplies.                                    *)
ValidatorFn(api, leader, fn, llm, custom) ==
    IF api = "strict_eq" THEN Said(SameResult(fn, leader))
    ELSE IF api \in {"run_nondet", "run_nondet_unsafe"} THEN custom
    ELSE IF fn.k # "return" THEN fn
    ELSE IF leader.k # "return" THEN Said(FALSE)
    ELSE Prompt(api = "non_comparative" => IsText(fn.v) /\ IsText(leader.v), llm)

\* Mutant: a leader's error and the validator's are not told apart
SandboxedUntyped(leader, answer) ==
    IF answer.k = "return" THEN answer ELSE Said(leader.v = answer.v)

(* real_validator_fn of run_nondet: the validator's function in a sandbox, *)
(* its errors compared with the leader's.                                  *)
Sandboxed(leader, answer) ==
    IF answer.k # leader.k THEN Said(FALSE)
    ELSE IF answer.k # "return" THEN Said(leader.v = answer.v)
    ELSE IF answer.v.t = "bool" THEN answer ELSE Raised

(* The result of the validator's block; the executor takes Return(True)    *)
(* for agreement and everything else for disagreement.                     *)
Vote(api, leader, fn, llm, custom) ==
    LET answer == ValidatorFn(api, leader, fn, llm, custom) IN
    IF api \in {"strict_eq", "run_nondet_unsafe"} THEN answer ELSE Sandboxed(leader, answer)

Agrees(api, leader, fn, llm, custom) == Vote(api, leader, fn, llm, custom) = Said(TRUE)

-----------------------------------------------------------------------------
PromptApis == {"comparative", "non_comparative"}
Apis       == {"strict_eq", "run_nondet", "run_nondet_unsafe"} \cup PromptApis

Yes == [ok |-> TRUE, verdict |-> TRUE]

(* Whatever result a leader sends, a validator agrees with a failure only  *)
(* if it failed in the same way itself, and with a value only if its       *)
(* prompt, or the function of the contract, said True; strict_eq agrees    *)
(* with the validator's own outcome and, where one is a bool and the other *)
(* an int, with what Python holds equal to it, and with nothing else.  The *)
(* validator's run ended as mine, its prompt as judge (vm.py run_nondet,   *)
(* eq_principle.py).                                                       *)
VoteSound(api, leader, mine, judge, custom) ==
    LET agrees == Agrees(api, leader, mine, judge, custom)
    IN  /\ api = "strict_eq" =>
             (agrees <=> \/ mine = leader
                         \/ /\ leader.k = "return" /\ mine.k = "return"
                            /\ {leader.v.t, mine.v.t} = {"bool", "int"} /\ leader.v.n = mine.v.n)
        /\ agrees /\ api \in PromptApis =>
             IF leader.k = "return" THEN mine.k = "return" /\ judge = Yes ELSE mine = leader
        /\ agrees /\ api = "run_nondet" =>
             IF leader.k = "return" THEN custom = Said(TRUE) ELSE custom = leader

(* Two honest runs of one function with the same outcome: strict_eq always *)
(* agrees, and the prompts agree on every failure; on a value they agree   *)
(* exactly when the validator's prompt says yes and, for                   *)
(* prompt_non_comparative, the value was a str and the leader's own prompt *)
(* was answered.  The leader alone asserts the str.                        *)
HonestVote(api, fn, llm, judge, custom) ==
    LET agrees == Agrees(api, LeaderResult(api, fn, llm), fn, judge, custom)
    IN  /\ api = "strict_eq" => agrees
        /\ api \in PromptApis =>
             (agrees <=> \/ fn.k # "return"
                         \/ judge = Yes /\ (api = "non_comparative" => fn.v.t = "str" /\ llm.ok))
=============================================================================
