---------------------------- MODULE RefreshSweep ----------------------------
(***************************************************************************)
(* What the spread does to the companies: the game's normal sweep, once a  *)
(* minute, over the part of the list that the bridge (SpreadBridge) leaves *)
(* it.  The bridge keeps no state of its own: minute and list are all it   *)
(* sees, so a changed list or a lost minute moves every later slice.       *)
(*                                                                         *)
(* The sweep, the clock and the list belong to the game and are modelled   *)
(* from how the bridge uses them.                                          *)
(***************************************************************************)
EXTENDS SpreadBridge, FiniteSets

CONSTANT
    MaxCompanies   \* bound of the list's length

ASSUME MaxCompaniesAssumption == MaxCompanies \in Nat /\ MaxCompanies < Capacity

VARIABLES
    layout,    \* which bridge this build uses
    minute,    \* the economy's minute
    n,         \* the length of the list
    visited,   \* the companies refreshed by the sweep of this minute
    age,       \* sweeps since a company was refreshed, BucketCount for "longer"
    settled    \* sweeps in a row over the same list and without a lost
               \* minute, up to BucketCount

vars == <<layout, minute, n, visited, age, settled>>

Companies == 0 .. n - 1

TypeOK ==
    /\ layout \in Layouts
    /\ minute \in 0 .. MinuteModulus - 1
    /\ n \in 0 .. MaxCompanies
    /\ visited \subseteq Companies
    /\ age \in [Companies -> 0 .. BucketCount]
    /\ settled \in 0 .. BucketCount

Init ==
    /\ layout \in Layouts /\ minute \in 0 .. MinuteModulus - 1
    /\ n = 0 /\ visited = {} /\ age = [i \in Companies |-> BucketCount]
    /\ settled = 0

(* The list as the engine passes it; where it starts changes nothing here  *)
(* (BridgeCalls tries every address).                                      *)
List == [n |-> n, begin |-> 0, cursor |-> 0, end |-> 8 * n]

(* The loop of the game over the elements from cursor to end.              *)
Swept(r) == IF r.count = 0 THEN {}
            ELSE {i \in Companies : r.cursor <= 8 * i /\ 8 * i < r.end}

(* Before the older layouts are reached the engine itself ends an empty    *)
(* sweep.                                                                  *)
SweepOf(m) == IF layout # "v161" /\ n = 0 THEN {} ELSE Swept(Bridge(layout, List, m))

Older(k) == Lesser(k + 1, BucketCount)

NextMinute == (minute + 1) % MinuteModulus

(* A minute passes and is swept.  The minute after the last one a DWORD    *)
(* holds is 0, whose bucket need not follow: a cycle starts over there.    *)
Minute ==
    /\ minute' = NextMinute
    /\ visited' = SweepOf(NextMinute)
    /\ age' = [i \in Companies |-> IF i \in visited' THEN 0 ELSE Older(age[i])]
    /\ settled' = IF NextMinute = 0 THEN 1 ELSE Older(settled)
    /\ UNCHANGED <<layout, n>>

(* Sleep and fast travel move the clock past minutes that are not swept.   *)
Jump ==
    /\ minute' \in (0 .. MinuteModulus - 1) \ {minute}
    /\ settled' = 0
    /\ UNCHANGED <<layout, n, visited, age>>

(* The game rebuilds the list: any company may have moved to any index.    *)
Relist ==
    /\ n' \in 0 .. MaxCompanies
    /\ visited' = {}
    /\ age' = [i \in 0 .. n' - 1 |-> BucketCount]
    /\ settled' = 0
    /\ UNCHANGED <<layout, minute>>

Next == Minute \/ Jump \/ Relist

Spec == Init /\ [][Next]_vars /\ WF_vars(Minute)

-----------------------------------------------------------------------------
(* "Complete-cycle coverage assumes a fixed list and all normal minutes    *)
(* being processed" (src/README.md): under just that, no company waits     *)
(* longer than one cycle.                                                  *)
CompleteCycle == settled = BucketCount => \A i \in Companies : age[i] < BucketCount

(* Nor is it refreshed twice within a cycle: the slices of different       *)
(* minutes have no company in common.                                      *)
OncePerCycle ==
    [][ (Minute /\ NextMinute # 0) =>
           \A i \in visited' : age[i] >= Lesser(settled, BucketCount - 1) ]_vars

(* A settled company has exactly one turn in every cycle.                  *)
ExactlyOncePerCycle == []CompleteCycle /\ OncePerCycle

(* No sweep is heavier than its share of the list rounded up -- also after *)
(* a time jump, a change of the list or an overflow of the minute, when    *)
(* coverage is lost.                                                       *)
BalancedLoad == Cardinality(visited) * BucketCount < n + BucketCount

(* Once the list stays and no more minutes are lost, every company is      *)
(* refreshed for ever again, whatever was disturbed before; a wrap of the  *)
(* minute does not starve anyone.                                          *)
Undisturbed == <>[][Minute]_vars
RefreshedForever ==
    Undisturbed => \A i \in 0 .. MaxCompanies - 1 :
                      <>[](i \in Companies) => []<>(i \in visited)
=============================================================================
