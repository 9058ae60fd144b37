---------------------------- MODULE SpreadBridge ----------------------------
(***************************************************************************)
(* The arithmetic of the three sweep bridges                               *)
(* (src/src/refresh_spread_bridge*.asm): which part of the engine's list   *)
(* of companies a normal sweep is narrowed to.  Registers are words of an  *)
(* AddressModulus and wrap around; a list element is an 8 byte pointer.    *)
(***************************************************************************)
EXTENDS Naturals

CONSTANTS
    BucketCount,    \* cmf_refresh_spread_bucket_count: 60, 120, 180 or 1440
    Capacity,       \* 8 byte elements in the address space: 2^61
    MinuteModulus   \* the economy's minute is a DWORD: 2^32

ASSUME BucketCountAssumption == BucketCount \in Nat \ {0}
ASSUME CapacityAssumption == Capacity \in Nat \ {0}
ASSUME MinuteModulusAssumption == MinuteModulus \in Nat \ {0}

AddressModulus == 8 * Capacity
Word == 0 .. AddressModulus - 1
Wrap(x) == x % AddressModulus

Layouts == {"legacy", "v160", "v161"}

(* The registers the engine arrives with: N, the list's first element, the *)
(* loop's cursor and end.  Only v161 looks at begin; elsewhere it is the   *)
(* cursor, or a register the bridge only preserves.                        *)
Bounds == [n: Word, begin: Word, cursor: Word, end: Word]

(* v161 replaces the engine's own test for an empty list, and repeats it.  *)
OriginalEmpty(layout, b) == layout = "v161" /\ b.begin = b.end

(* The guards before the division: shr 61, zero, carry of the addition,    *)
(* and the end the engine holds.                                           *)
RepresentableWithoutCarry(b) ==                                       \* mutant
    /\ b.n < Capacity /\ b.n # 0
    /\ Wrap(b.cursor + 8 * b.n) = b.end
Representable(b) ==
    /\ b.n < Capacity /\ b.n # 0
    /\ b.cursor + 8 * b.n < AddressModulus
    /\ b.cursor + 8 * b.n = b.end

Bucket(minute) == minute % BucketCount
Quotient(n) == n \div BucketCount
Remainder(n) == n % BucketCount
Lesser(x, y) == IF x < y THEN x ELSE y

SliceStartUnshifted(n, bucket) == Wrap(Quotient(n) * bucket)          \* mutant
SliceStart(n, bucket) ==
    Wrap(Wrap(Quotient(n) * bucket) + Lesser(bucket, Remainder(n)))

SliceLengthFloor(n, bucket) == Quotient(n)                            \* mutant
SliceLengthInclusive(n, bucket) ==                                    \* mutant
    Quotient(n) + (IF bucket <= Remainder(n) THEN 1 ELSE 0)
SliceLength(n, bucket) ==
    Quotient(n) + (IF bucket < Remainder(n) THEN 1 ELSE 0)

(* The registers the bridge returns: count is what JRCXZ tests, 0 leads to *)
(* the end of the sweep and anything else into the loop, whose test comes  *)
(* last.                                                                   *)
Narrowed(b, bucket) ==
    LET cursor == Wrap(b.cursor + 8 * SliceStart(b.n, bucket))
        length == SliceLength(b.n, bucket)
    IN  [cursor |-> cursor, end |-> Wrap(cursor + 8 * length), count |-> length]

Bridge(layout, b, minute) ==
    IF OriginalEmpty(layout, b)
    THEN [cursor |-> b.cursor, end |-> b.end, count |-> 0]
    ELSE IF Representable(b)
         THEN Narrowed(b, Bucket(minute))
         ELSE [cursor |-> b.cursor, end |-> b.end, count |-> 1]
=============================================================================
