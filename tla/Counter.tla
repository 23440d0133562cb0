------------------------------- MODULE Counter -------------------------------
(***************************************************************************)
(* json.Counter for whole numbers.  Go's int has 64 bits, so a counter     *)
(* that began as an integer is added to like a long one, and is turned     *)
(* into one when it leaves the 32 bits an integer is stored with.          *)
(***************************************************************************)
EXTENDS Integers

CONSTANTS
    MaxInt,     \* math.MaxInt32
    MaxLong     \* math.MaxInt64

ASSUME WidthAssumption == MaxInt \in Nat /\ MaxLong \in Nat /\ MaxInt <= MaxLong

CounterValue == [value : Int, long : BOOLEAN]

FitsInt(v) == v <= MaxInt /\ v >= -MaxInt - 1

\* Addition of two's complement numbers.
Wrapped(v) == ((v + MaxLong + 1) % (2 * (MaxLong + 1))) - (MaxLong + 1)

NewCounter(v) == [value |-> v, long |-> ~FitsInt(v)]

\* Counter.Increase; a counter that has become long stays so.
Increase(counter, v) ==
    LET sum == Wrapped(counter.value + v)
    IN  [value |-> sum, long |-> counter.long \/ ~FitsInt(sum)]
=============================================================================
