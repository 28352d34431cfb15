----------------------------- MODULE WellKnown -----------------------------
(***************************************************************************)
(* The well-known types of protobuf that convert what they hold            *)
(* (internal/well_known_types.py): Timestamp, Duration, Any, and Struct,   *)
(* ListValue and Value as Python containers.                               *)
(*                                                                         *)
(* Digits are of base Digit rather than ten, so that a second has Digit^9  *)
(* nanoseconds, and a day has Day seconds.  Written times are records:     *)
(* their whole seconds, their digits after the point and what follows.     *)
(* A datetime is its clock in microseconds and its offset in seconds.      *)
(***************************************************************************)
EXTENDS Integers, Sequences, SequencesExt, FiniteSets

CONSTANTS Digit, Day, DurationMax,       \* _SECONDS_PER_DAY, _DURATION_SECONDS_MAX
          FirstDay, LastDay              \* of datetime, from the epoch

Kilo   == Digit * Digit * Digit
Micros == Kilo * Kilo          \* per second
Nanos  == Kilo * Kilo * Kilo

Time(s, n) == [seconds |-> s, nanos |-> n]
Some(v)    == [ok |-> TRUE, v |-> v]
Raises     == [ok |-> FALSE]

(* The digits of frac after the point, and the fraction that digits say.   *)
Pow(n) == (<<1, Digit, Digit ^ 2, Kilo, Digit ^ 4, Digit ^ 5, Micros, Digit ^ 7, Digit ^ 8, Nanos>>)[n + 1]
Padded(frac, n)  == [i \in 1..n |-> (frac \div Pow(n - i)) % Digit]
FracOf(digits)   == FoldLeft(LAMBDA a, d : a * Digit + d, 0, digits) * Pow(9 - Len(digits))

\* Mutant: a nanosecond more than a whole microsecond is not printed.
DigitsShort(nanos) ==
    IF nanos % Nanos = 0 THEN <<>>
    ELSE IF nanos % Micros = 0 THEN Padded(nanos \div Micros, 3)
    ELSE Padded(nanos \div Kilo, 6)

(* No digits, or three, six or nine of them.                               *)
Digits(nanos) ==
    IF nanos % Nanos = 0 THEN <<>>
    ELSE IF nanos % Micros = 0 THEN Padded(nanos \div Micros, 3)
    ELSE IF nanos % Kilo = 0 THEN Padded(nanos \div Kilo, 6)
    ELSE Padded(nanos, 9)

(* Truncation, where // and % of Python round down.                        *)
RoundTowardZero(value, divider) ==
    LET result == value \div divider
    IN  IF result < 0 /\ value % divider > 0 THEN result + 1 ELSE result

InDatetime(sec) == sec >= FirstDay * Day /\ sec < (LastDay + 1) * Day

-----------------------------------------------------------------------------
(* Timestamp.                                                              *)
Written(at, digits, zone, off) == [at |-> at, digits |-> digits, zone |-> zone, off |-> off]

TimestampToJson(t) ==
    LET nanos == t.nanos % Nanos
        total == t.seconds + (t.nanos - nanos) \div Nanos
    IN  IF InDatetime(total) THEN Some(Written(total, Digits(nanos), "Z", 0)) ELSE Raises

(* zone is what is found of "Z", "+" or "-" after the time; "none" if the  *)
(* only "-" is the date's, "Z?" if something follows a "Z", "+?" for an    *)
(* offset without colon.                                                   *)
TimestampFromJson(w) ==
    IF \/ w.zone \in {"none", "Z?", "+?"} \/ ~ InDatetime(w.at) \/ Len(w.digits) > 9 THEN Raises
    ELSE Some(Time(CASE w.zone = "Z" -> w.at
                     [] w.zone = "+" -> w.at - w.off
                     [] w.zone = "-" -> w.at + w.off, FracOf(w.digits)))

(* The number of units of a second, and back.                              *)
ToUnits(t, per)   == t.seconds * per + t.nanos \div (Nanos \div per)
FromUnits(n, per) == Time(n \div per, (n % per) * (Nanos \div per))

ToDatetime(t, off) ==
    LET clock == t.seconds * Micros + RoundTowardZero(t.nanos, Kilo)
    IN  IF InDatetime(clock \div Micros) /\ InDatetime(clock \div Micros + off)
        THEN Some([clock |-> clock + off * Micros, off |-> off]) ELSE Raises
FromDatetime(dt) == LET utc == dt.clock - dt.off * Micros
                    IN  Time(utc \div Micros, (dt.clock % Micros) * Kilo)

-----------------------------------------------------------------------------
(* Duration.                                                               *)
DurationValid(d) ==
    /\ d.seconds >= -DurationMax /\ d.seconds <= DurationMax
    /\ d.nanos > -Nanos /\ d.nanos < Nanos
    /\ ~ (d.nanos < 0 /\ d.seconds > 0) /\ ~ (d.nanos > 0 /\ d.seconds < 0)

DurationToJson(d) ==
    LET minus == d.seconds < 0 \/ d.nanos < 0
        nanos == IF minus THEN -d.nanos ELSE d.nanos
        secs  == IF minus THEN -d.seconds ELSE d.seconds
    IN  IF ~ DurationValid(d) THEN Raises
        ELSE Some([minus |-> minus, secs |-> secs + nanos \div Nanos, digits |-> Digits(nanos % Nanos), end |-> "s"])

(* More than nine digits are rounded: half goes to the even neighbour.     *)
RoundHalfEven(n, d) == LET q == n \div d  r == n % d
                       IN  IF 2 * r > d \/ (2 * r = d /\ q % 2 = 1) THEN q + 1 ELSE q
DurationFrac(digits) ==
    IF Len(digits) <= 9 THEN FracOf(digits)
    ELSE RoundHalfEven(FoldLeft(LAMBDA a, d : a * Digit + d, 0, digits), Pow(Len(digits) - 9))
DurationFromJson(w) ==
    LET sign == IF w.minus THEN -1 ELSE 1
        d == Time(sign * w.secs, sign * DurationFrac(w.digits))
    IN  IF w.end = "s" /\ DurationValid(d) THEN Some(d) ELSE Raises

\* Mutant: durations between minus one second and zero keep a positive rest.
NormalizeBelow(seconds, nanos) ==
    IF seconds < -1 /\ nanos > 0 THEN Time(seconds + 1, nanos - Nanos) ELSE Time(seconds, nanos)

(* nanos of a negative duration are negative.                              *)
NormalizeDuration(seconds, nanos) ==
    IF seconds < 0 /\ nanos > 0 THEN Time(seconds + 1, nanos - Nanos) ELSE Time(seconds, nanos)

DurationUnits(d, per)     == d.seconds * per + RoundTowardZero(d.nanos, Nanos \div per)
DurationFromUnits(n, per) == NormalizeDuration(n \div per, (n % per) * (Nanos \div per))

(* A timedelta is normalised: 0 <= seconds < Day, 0 <= microseconds.       *)
ToTimedelta(d) ==
    LET us == d.seconds * Micros + RoundTowardZero(d.nanos, Kilo)
    IN  [days |-> us \div (Day * Micros), seconds |-> (us \div Micros) % Day, microseconds |-> us % Micros]
FromTimedelta(td) == NormalizeDuration(td.seconds + td.days * Day, td.microseconds * Kilo)

-----------------------------------------------------------------------------
(* Any: a type url is the sequence of its characters, a type's name one.   *)
Pack(prefix, T) == IF prefix = <<>> \/ Last(prefix) # "/" THEN prefix \o <<"/", T>> ELSE prefix \o <<T>>
TypeName(url)   == SubSeq(url, SelectLastInSeq(url, LAMBDA c : c = "/") + 1, Len(url))
Is(url, T)      == (\E i \in DOMAIN url : url[i] = "/") /\ TypeName(url) = <<T>>

-----------------------------------------------------------------------------
(* Containers: what is stored of a Python value and what is read back, for *)
(* values nested to any depth.  A Value is what its oneof kind holds, or   *)
(* Unset.  Python values are the same records, with "odd" for a value of   *)
(* any other type.  Reading fields[key] of a message map inserts the key   *)
(* (containers.py), so every call returns its Struct too.                  *)
Val(k, n)  == [kind |-> k, n |-> n, v |-> <<>>]          \* n: the scalar
Holds(k, v) == [kind |-> k, n |-> 0, v |-> v]            \* v: what is inside
Unset      == Val("unset", 0)
Null       == Val("null", 0)
Odd        == Val("odd", 0)
Struct(f)  == Holds("struct", f)
ListOf(s)  == Holds("list", s)
Scalars    == {"null", "bool", "string", "number"}

Done(v)    == [ok |-> TRUE, v |-> v]
Raised(v)  == [ok |-> FALSE, v |-> v]
Field(f, key)    == IF key \in DOMAIN f THEN f[key] ELSE Unset
Put(f, key, val) == [k \in DOMAIN f \cup {key} |-> IF k = key THEN val ELSE f[k]]
KeysOf(f)        == SetToSortSeq(DOMAIN f, <)

(* _GetStructValue: a container is returned as such, unread.               *)
GetStructValue(val) == IF val.kind = "unset" THEN Raised(val) ELSE Done(val)

(* _SetStructValue, update and extend: containers are cleared, then filled *)
(* until a value inside raises.  items() of a Struct reads all its values  *)
(* before the first is set; a list is read as it goes.                     *)
RECURSIVE SetStructValue(_, _), Update(_, _), Extend(_, _)
SetStructValue(old, x) ==
    CASE x.kind \in Scalars -> Done(x)
      [] x.kind = "struct"  -> LET r == Update(<<>>, x.v) IN [r EXCEPT !.v = Struct(@)]
      [] x.kind = "list"    -> LET r == Extend(<<>>, x.v) IN [r EXCEPT !.v = ListOf(@)]
      [] OTHER -> Raised(old)

Update(f, dictionary) ==
    IF \E k \in DOMAIN dictionary : dictionary[k].kind = "unset" THEN Raised(f)
    ELSE FoldLeft(LAMBDA acc, k : IF ~ acc.ok THEN acc
                                  ELSE LET r == SetStructValue(Field(acc.v, k), dictionary[k])
                                       IN  [ok |-> r.ok, v |-> Put(acc.v, k, r.v)],
                  Done(f), KeysOf(dictionary))

Extend(list, elems) ==
    FoldLeft(LAMBDA acc, x : IF ~ acc.ok THEN acc
                             ELSE IF x.kind = "unset" THEN Raised(acc.v)
                             ELSE LET r == SetStructValue(Unset, x) IN [ok |-> r.ok, v |-> Append(acc.v, r.v)],
             Done(list), elems)

-----------------------------------------------------------------------------
(* The calls on a Struct: its fields afterwards and what is returned.      *)
Answer(ok, f, v) == [ok |-> ok, f |-> f, v |-> v]
Touched(f, key)  == Put(f, key, Field(f, key))

GetItem(f, key) == Answer(GetStructValue(Field(f, key)).ok, Touched(f, key), Field(f, key))
SetItem(f, key, x) == LET r == SetStructValue(Field(f, key), x) IN Answer(r.ok, Put(f, key, r.v), Null)
DelItem(f, key) == IF key \in DOMAIN f THEN Answer(TRUE, [k \in DOMAIN f \ {key} |-> f[k]], Null)
                   ELSE Answer(FALSE, f, Null)

\* Mutant: an existing container is replaced by an empty one.
GetOrCreateAnew(f, key, empty) == Answer(TRUE, Put(f, key, empty), empty)

(* get_or_create_list, get_or_create_struct.                               *)
GetOrCreate(f, key, empty) ==
    LET val == IF Field(f, key).kind = empty.kind THEN f[key] ELSE empty
    IN  Answer(TRUE, Put(f, key, val), val)
Items(f) == Answer(\A k \in DOMAIN f : f[k].kind # "unset", f, Null)

(* s[key] = s[key]: the container is a view, cleared before it is read.    *)
SetItself(f, key) ==
    CASE Field(f, key).kind = "unset"   -> Answer(FALSE, Touched(f, key), Null)
      [] Field(f, key).kind \in Scalars -> Answer(TRUE, f, Null)
      [] OTHER -> Answer(TRUE, [f EXCEPT ![key].v = <<>>], Null)

-----------------------------------------------------------------------------
(* The calls on a ListValue; an index counts from either end.              *)
Index(list, i) == IF i < 0 THEN Len(list) + i + 1 ELSE i + 1
InRange(list, i) == Index(list, i) \in DOMAIN list
ListAppend(list, x) == LET r == SetStructValue(Unset, x) IN Answer(r.ok, Append(list, r.v), Null)
ListGet(list, i) == IF InRange(list, i) /\ list[Index(list, i)].kind # "unset"
                    THEN Answer(TRUE, list, list[Index(list, i)]) ELSE Answer(FALSE, list, Null)
ListSet(list, i, x) ==
    IF ~ InRange(list, i) THEN Answer(FALSE, list, Null)
    ELSE LET r == SetStructValue(list[Index(list, i)], x)
         IN  Answer(r.ok, [list EXCEPT ![Index(list, i)] = r.v], Null)
ListDel(list, i) == IF InRange(list, i) THEN Answer(TRUE, RemoveAt(list, Index(list, i)), Null)
                    ELSE Answer(FALSE, list, Null)
AddEmpty(list, empty) == Answer(TRUE, Append(list, empty), empty)

-----------------------------------------------------------------------------
(* A Python value that can be stored.                                      *)
RECURSIVE Plain(_)
Plain(x) == CASE x.kind = "struct" -> \A k \in DOMAIN x.v : Plain(x.v[k])
              [] x.kind = "list"   -> \A i \in DOMAIN x.v : Plain(x.v[i])
              [] OTHER -> x.kind \in Scalars
=============================================================================
