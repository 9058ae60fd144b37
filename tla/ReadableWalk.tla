----------------------------- MODULE ReadableWalk -----------------------------
(***************************************************************************)
(* readable(), which both patches call before they look at memory of the   *)
(* game (src/src/cap4_patch.cpp, and once more in refresh_spread.cpp): it  *)
(* walks from region to region, one VirtualQuery per step.                 *)
(***************************************************************************)
EXTENDS Integers

CONSTANT Top   \* UINTPTR_MAX

ASSUME TopAssumption == Top \in Nat

Addresses == 0 .. Top

VARIABLES
    accessible,   \* committed, with a protection that allows to read
    start, bytes, \* the arguments
    p,            \* the address looked at
    failed,       \* history: a VirtualQuery has failed or made no sense
    stage

walkVars == <<accessible, start, bytes, p, failed, stage>>

end == start + bytes

Stretch(a, n) == a .. a + n - 1

WalkTypeOK ==
    /\ accessible \subseteq Addresses
    /\ start \in Addresses /\ bytes \in Addresses
    /\ p \in Addresses /\ failed \in BOOLEAN
    /\ stage \in {"enter", "walk", "yes", "no"}

WalkInit ==
    /\ accessible \in SUBSET Addresses
    /\ start \in Addresses /\ bytes \in Addresses
    /\ p = start /\ failed = FALSE /\ stage = "enter"

Enter ==
    /\ stage = "enter"
    /\ stage' = IF start = 0 \/ bytes > Top - start THEN "no" ELSE "walk"
    /\ UNCHANGED <<accessible, start, bytes, p, failed>>

(* What VirtualQuery may say of the region around p: its bytes from p on   *)
(* are all accessible or all not.                                          *)
Region(base, size) ==
    /\ base \in 0 .. p /\ size \in 0 .. Top + 1 - base
    /\ \/ Stretch(p, base + size - p) \subseteq accessible
       \/ Stretch(p, base + size - p) \cap accessible = {}

(* A region that reaches the top of the address space is refused, as is    *)
(* one that does not hold p.                                               *)
AdvanceTouching(base, size) ==                                        \* mutant
    IF p \notin accessible
    THEN stage' = "no" /\ UNCHANGED <<p, failed>>
    ELSE IF size > Top - base \/ base + size <= p \/ base + size >= end
    THEN stage' = "no" /\ failed' = (size > Top - base) /\ UNCHANGED p
    ELSE p' = base + size /\ UNCHANGED <<failed, stage>>
Advance(base, size) ==
    IF p \notin accessible
    THEN stage' = "no" /\ UNCHANGED <<p, failed>>
    ELSE IF size > Top - base \/ base + size <= p
    THEN stage' = "no" /\ failed' = TRUE /\ UNCHANGED p
    ELSE p' = (IF end < base + size THEN end ELSE base + size) /\ UNCHANGED <<failed, stage>>

Query ==
    /\ stage = "walk" /\ p < end
    /\ \/ stage' = "no" /\ failed' = TRUE /\ UNCHANGED p
       \/ \E base \in 0 .. p : \E size \in 0 .. Top + 1 - base :
             Region(base, size) /\ Advance(base, size)
    /\ UNCHANGED <<accessible, start, bytes>>

Leave ==
    /\ stage = "walk" /\ p >= end
    /\ stage' = "yes"
    /\ UNCHANGED <<accessible, start, bytes, p, failed>>

WalkNext == Enter \/ Query \/ Leave

WalkSpec == WalkInit /\ [][WalkNext]_walkVars

-----------------------------------------------------------------------------
(* Every byte between start and end may be read once readable() says so,   *)
(* however Windows cuts the memory into regions.                           *)
YesMeansReadable == stage = "yes" => start # 0 /\ Stretch(start, bytes) \subseteq accessible

(* A refusal has a reason: bytes that cannot be read, arguments that wrap, *)
(* or an answer of Windows that says nothing.                              *)
NoHasReason ==
    stage = "no" => \/ start = 0 \/ start + bytes > Top \/ failed
                 \/ ~(Stretch(start, bytes) \subseteq accessible)

(* The answer can be relied on, either way.                                *)
AnswerIsRight == YesMeansReadable /\ NoHasReason
=============================================================================
