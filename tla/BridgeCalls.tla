---------------------------- MODULE BridgeCalls ----------------------------
(***************************************************************************)
(* A bridge called minute after minute with any registers, also those no   *)
(* list has: the bridge's guards exist for them and the tests feed them.   *)
(***************************************************************************)
EXTENDS SpreadBridge, FiniteSets

CONSTANT Alignment  \* bound: lists start at multiples of this address

ASSUME AlignmentAssumption == Alignment \in Nat \ {0}

VARIABLES
    called,    \* the bridge's layout
    bounds,    \* the registers it is called with
    now,       \* the economy's minute
    out        \* the registers it returns

callVars == <<called, bounds, now, out>>

Starts == {a \in Word : a % Alignment = 0}

(* The end of the list n elements after the cursor, or an end off by some. *)
EndsFor(n, cursor) ==
    {Wrap(cursor + 8 * n + k) : k \in {0, 1, 8, AddressModulus - 8}} \cup {cursor}

(* The engine tests for an empty list before it reaches the replaced bytes *)
(* of the older layouts.                                                   *)
Reaches(l, b) == l # "v161" => b.cursor # b.end

CallsInit ==
    /\ now = 0 /\ called \in Layouts
    /\ \E n \in Word, cursor \in Starts :
          \E end \in EndsFor(n, cursor) :
             bounds = [n |-> n, begin |-> cursor, cursor |-> cursor, end |-> end]
    /\ Reaches(called, bounds)
    /\ out = Bridge(called, bounds, now)

CallsNext ==
    /\ now' = (now + 1) % MinuteModulus
    /\ out' = Bridge(called, bounds, now')
    /\ UNCHANGED <<called, bounds>>

CallsSpec == CallsInit /\ [][CallsNext]_callVars

-----------------------------------------------------------------------------
(* The elements a loop from cursor to end visits.                          *)
Elements(r) == {a \in Word : r.cursor <= a /\ a < r.end /\ (a - r.cursor) % 8 = 0}

WellFormed(b) == b.cursor <= b.end /\ b.end = b.cursor + 8 * b.n /\ b.n < Capacity

(* Reference: deal n elements to the buckets as one deals cards; a bucket  *)
(* gets as many, and its slice lies after those of the buckets before it.  *)
Dealt(n, bucket) == {k \in 0 .. n - 1 : k % BucketCount = bucket}
DealtBefore(n, bucket) == {k \in 0 .. n - 1 : k % BucketCount < bucket}

(* A well-formed list is narrowed to the slice of this minute's bucket in  *)
(* the balanced contiguous partition: the div, imul, cmovb and inc of the  *)
(* bridge agree with the count of the dealt elements, and no register of   *)
(* them wraps.                                                             *)
NarrowedAsDealt ==
    WellFormed(bounds) =>
        LET bucket == now % BucketCount
        IN  /\ out.cursor = bounds.cursor
                              + 8 * Cardinality(DealtBefore(bounds.n, bucket))
            /\ out.end = out.cursor + 8 * Cardinality(Dealt(bounds.n, bucket))

(* The sweep loop tests its end last.  The bridge never sends it into an   *)
(* empty list or slice, where it would run past the end, and never skips a *)
(* slice that has elements.                                                *)
LoopEntered == WellFormed(bounds) => (out.count = 0 <=> out.cursor = out.end)

(* Whatever the registers hold -- a count of 2^61 or more, a list that     *)
(* wraps around the address space, an end that does not belong to it --    *)
(* the bridge adds nothing to what the original loop would visit.          *)
NothingAdded == /\ Elements(out) \subseteq Elements(bounds)
                /\ ~WellFormed(bounds) => /\ out.cursor = bounds.cursor
                                          /\ out.end = bounds.end

(* The altered loop stays within the engine's list, whatever the registers *)
(* hold.                                                                   *)
StaysInList == LoopEntered /\ NothingAdded
=============================================================================
