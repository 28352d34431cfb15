------------------------------ MODULE Dispatch ------------------------------
(***************************************************************************)
(* How the Python runner picks the method of a contract for a message      *)
(* (_genlayer_runner.py, gl/annotations.py, gl/genvm_contracts.py), what   *)
(* the contract's schema says of its methods (py/get_schema.py), and the   *)
(* events it posts (py/_internal/event.py, gl/events.py).                  *)
(*                                                                         *)
(* A contract class is a function from attribute names to methods, each    *)
(* with the attributes that the decorators set.                            *)
(***************************************************************************)
EXTENDS Integers, Sequences, SequencesExt, FiniteSets, FiniteSetsExt

CONSTANTS Topic,     \* bytes of a topic
          Encode(_)  \* calldata.encode

Init      == "__init__"
Receive   == "__receive__"
Undefined == "__handle_undefined_method__"
Errored   == "__on_errored_message__"
Schema    == "__get_schema__"
GetSchema == "#get-schema"
OnError   == "#error"

(* Names with a leading __ or #, by their role.                            *)
Dunder  == {Init, Receive, Undefined, Errored, Schema}
Hash    == {GetSchema, OnError, "#other"}

(* The decorators.                                                         *)
Method(public, readonly, payable) ==
    [public |-> public, readonly |-> readonly, payable |-> payable, abstract |-> FALSE]

Private      == Method(FALSE, FALSE, FALSE)
PublicView   == Method(TRUE, TRUE, FALSE)
PublicWrite  == Method(TRUE, FALSE, FALSE)
WritePayable == [PublicWrite EXCEPT !.payable = TRUE]     \* self(f), then the attribute

(* gl.Contract, which every contract extends.                              *)
Abstract     == [Private EXCEPT !.abstract = TRUE]
BaseContract == [n \in {Receive, Undefined, Errored} |->
                   IF n = Errored THEN WritePayable ELSE Abstract]

(* The attribute n of a class: its own or the one of gl.Contract.          *)
Attr(cls, n) == IF n \in DOMAIN cls THEN cls[n] ELSE BaseContract[n]

-----------------------------------------------------------------------------
Call(n) == [ok |-> TRUE, meth |-> n]
Fail    == [ok |-> FALSE, meth |-> ""]

\* Mutant: the check of the transferred value is left out
CheckPublicOnly(meth, value) == meth.public /\ ~ meth.abstract

(* check_abstracts finds nothing to complain of.                           *)
CheckAbstracts(meth, value) ==
    /\ meth.public
    /\ ~ meth.abstract
    /\ value > 0 => meth.payable

ResolveUndefined(cls, value) ==
    IF CheckAbstracts(Attr(cls, Undefined), value) THEN Call(Undefined) ELSE Fail

(* resolve_method; a TypeError or ValueError ends the run with exit code 1. *)
Resolve(cls, msg) ==
    CASE msg.init ->
           IF Init \in DOMAIN cls /\ ~ cls[Init].public THEN Call(Init) ELSE Fail
      [] ~ msg.init /\ msg.method = OnError   -> Call(Errored)
      [] ~ msg.init /\ msg.method = GetSchema -> Call(Schema)
      [] ~ msg.init /\ msg.method = ""        ->
           IF CheckAbstracts(Attr(cls, Receive), msg.value) THEN Call(Receive)
           ELSE ResolveUndefined(cls, msg.value)
      [] ~ msg.init /\ msg.method \in (Dunder \cup Hash) \ {OnError, GetSchema} -> Fail
      [] ~ msg.init /\ msg.method \in DOMAIN cls \ Dunder ->
           IF CheckAbstracts(cls[msg.method], msg.value) THEN Call(msg.method) ELSE Fail
      [] OTHER -> ResolveUndefined(cls, msg.value)

(* Importing the contract: __init_subclass__ takes the first Contract      *)
(* class and refuses a second; the runner refuses none.                    *)
Loads(classes) == classes = 1

-----------------------------------------------------------------------------
(* get_schema: a constructor of its own, public methods without __, each   *)
(* with its attributes; payable is told of write methods only.             *)
PublicOf(cls) == {n \in DOMAIN cls \cup DOMAIN BaseContract : Attr(cls, n).public} \ {Errored}

HasSchema(cls) == /\ Init \in DOMAIN cls
                  /\ ~ cls[Init].public
                  /\ PublicOf(cls) \cap Dunder = {}

GetParams(m) == [readonly |-> m.readonly, payable |-> ~ m.readonly /\ m.payable]
GetSchemaOf(cls) == [n \in PublicOf(cls) |-> GetParams(Attr(cls, n))]

-----------------------------------------------------------------------------
(* Events: the class made from the signature of __init__, an instance, and *)
(* what emit posts.  A parameter is its name and kind; names are numbers,  *)
(* in their order.                                                         *)
Param(n, k) == [name |-> n, kind |-> k]
Kinds == {"positional_only", "positional_or_keyword", "var_positional", "keyword_only", "var_keyword"}

(* _do_init: the indexed fields, in the order of their names.              *)
DoInit(params) ==
    LET fields == {params[i].name : i \in {j \in DOMAIN params : params[j].kind = "positional_only"}}
    IN  [ok |-> \A i \in DOMAIN params : params[i].kind \in {"positional_only", "var_keyword"},
         indexed |-> SetToSortSeq(fields, <)]

(* The __init__ a class is given: positional arguments go by the sorted    *)
(* names.  The fields so far, or a TypeError.                              *)
NewEvent(indexed, args, kwargs) ==
    IF Len(args) # Len(indexed) \/ \E i \in DOMAIN indexed : indexed[i] \in DOMAIN kwargs
    THEN [ok |-> FALSE, blob |-> <<>>]
    ELSE [ok |-> TRUE, blob |-> [n \in ToSet(indexed) \cup DOMAIN kwargs |->
                                   IF n \in DOMAIN kwargs THEN kwargs[n]
                                   ELSE args[CHOOSE i \in DOMAIN indexed : indexed[i] = n]]]

\* Mutant: what does not fit in a topic is cut.
TopicCut(octets) ==
    <<"field", [i \in 1..Topic |-> IF i \in DOMAIN octets THEN octets[i] ELSE 0]>>

(* A field is its calldata with zeros after it, or the hash of that.       *)
TopicOf(octets) ==
    IF Len(octets) > Topic THEN <<"hash", octets>> ELSE <<"field", octets \o [i \in 1..(Topic - Len(octets)) |-> 0]>>

(* _emit.                                                                  *)
Emit(signature, indexed, blob) ==
    [topics |-> <<signature>> \o [i \in 1..Len(indexed) |-> TopicOf(Encode(blob[indexed[i]]))], blob |-> blob]
=============================================================================
