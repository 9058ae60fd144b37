------------------------------ MODULE RelaySearch ------------------------------
(***************************************************************************)
(* Site::prepare and Site::free_allocation of the refresh spread           *)
(* (src/src/refresh_spread.cpp): a page near the target for the relay, one *)
(* VirtualAlloc per step, and the detour that calls it.  HookLifecycle     *)
(* takes a whole prepare as one step.                                      *)
(***************************************************************************)
EXTENDS Integers

CONSTANTS
    Top,           \* UINTPTR_MAX
    Granule,       \* the allocation granularity, 65536
    Page,          \* 4096
    SearchLimit,   \* 0x70000000
    Rel32,         \* 2^31: a CALL reaches -Rel32 .. Rel32 - 1
    CallSize,      \* 5
    Span,          \* of the replaced bytes
    Targets, Game  \* addresses of the target; those of the game's sweep

ASSUME RelayAssumption ==
    /\ Granule \in Nat \ {0} /\ Page \in 1 .. Granule
    /\ Top \in Nat /\ (Top + 1) % Granule = 0
    /\ SearchLimit \in Nat /\ SearchLimit % Granule = 0
    /\ CallSize \in Nat \ {0} /\ Span \in Nat \ {0}
    /\ Rel32 \in Nat /\ SearchLimit + CallSize <= Rel32 + 1
    /\ 2 * Rel32 <= Top + 1
    /\ Targets \subseteq 1 .. Top /\ Game \subseteq 0 .. Top

VARIABLES
    target,
    relay,        \* relay_, 0 if there is none
    d, above,     \* the distance tried, and on which side
    detour,       \* the displacement in detour_, or NoDetour
    ours,         \* history: the pages that VirtualAlloc has given to this site
    refused,      \* history: where it has given none
    pc, prepared

site == <<target, relay, detour>>
vars == <<site, d, above, ours, refused, pc, prepared>>

NoDetour == Top

TypeOK ==
    /\ target \in Targets /\ relay \in 0 .. Top
    /\ d \in 0 .. SearchLimit + Granule /\ above \in BOOLEAN
    /\ detour \in (-Rel32 .. Rel32 - 1) \cup {NoDetour}
    /\ ours \subseteq 1 .. Top /\ refused \subseteq 1 .. Top
    /\ pc \in {"idle", "search", "reach"} /\ prepared \in BOOLEAN

Init ==
    /\ target \in Targets /\ relay = 0
    /\ d = 0 /\ above = FALSE /\ detour = NoDetour
    /\ ours = {} /\ refused = {}
    /\ pc = "idle" /\ prepared = FALSE

Return(a) == pc' = "idle" /\ prepared' = a

anchor == target - (target % Granule)

(* has_allocation.                                                         *)
has_allocation == relay # 0

-----------------------------------------------------------------------------
(* A second prepare, a period that is not supported, a layout that is not  *)
(* one of the three, other bytes at the target, or a target that is not    *)
(* inside the sweep.                                                       *)
Prepare ==
    /\ pc = "idle"
    /\ \/ Return(FALSE) /\ UNCHANGED <<d, above, refused>>
       \/ /\ ~has_allocation
          /\ target <= Top - (Span - 1)
          /\ {target, target + Span - 1} \subseteq Game
          /\ d' = Granule /\ above' = FALSE /\ refused' = {}
          /\ pc' = "search" /\ UNCHANGED prepared
    /\ UNCHANGED <<site, ours>>

(* Below the target first; an address above may wrap.                      *)
Candidate ==
    IF above THEN (anchor + d) % (Top + 1)
    ELSE IF anchor >= d THEN anchor - d ELSE 0

InSearchToTheLimit == d <= SearchLimit                                \* mutant
InSearch == d < SearchLimit

(* The candidate after this one.                                           *)
AdvanceAlternating == above' = ~above /\ d' = d + Granule              \* mutant
Advance == above' = ~above /\ d' = IF above THEN d + Granule ELSE d

Allocate ==
    /\ pc = "search" /\ InSearch
    /\ IF Candidate = 0 \/ Candidate > Top - Page
       THEN UNCHANGED <<relay, ours, refused, pc>>
       ELSE \/ /\ relay' = Candidate /\ ours' = ours \cup {Candidate}
               /\ pc' = "reach" /\ UNCHANGED refused
            \/ /\ refused' = refused \cup {Candidate}
               /\ UNCHANGED <<relay, ours, pc>>
    /\ Advance
    /\ UNCHANGED <<target, detour, prepared>>

Exhausted ==
    /\ pc = "search" /\ ~InSearch
    /\ Return(FALSE)
    /\ UNCHANGED <<site, d, above, ours, refused>>

(* The difference as a signed word.                                        *)
delta == LET w == (relay - (target + CallSize)) % (Top + 1)
         IN  IF 2 * w > Top THEN w - (Top + 1) ELSE w

(* The relay is written and made executable, which may fail; then the      *)
(* detour is made.  A relay that is not used stays for cleanup to free.    *)
Reach ==
    /\ pc = "reach"
    /\ \/ Return(FALSE) /\ UNCHANGED detour     \* VirtualProtect or the flush
       \/ /\ delta \in -Rel32 .. Rel32 - 1
          /\ detour' = delta
          /\ Return(TRUE)
    /\ UNCHANGED <<target, relay, d, above, ours, refused>>

FreeForgetting ==                                                     \* mutant
    /\ pc = "idle" /\ has_allocation
    /\ relay' = 0
    /\ \E done \in BOOLEAN : ours' = IF done THEN ours \ {relay} ELSE ours
    /\ prepared' = TRUE
    /\ UNCHANGED <<target, detour, d, above, refused, pc>>
FreeAllocation ==
    /\ pc = "idle" /\ has_allocation
    /\ \E done \in BOOLEAN :
          /\ relay' = IF done THEN 0 ELSE relay
          /\ ours' = IF done THEN ours \ {relay} ELSE ours
          /\ prepared' = FALSE
    /\ UNCHANGED <<target, detour, d, above, refused, pc>>

Next == Prepare \/ Allocate \/ Exhausted \/ Reach \/ FreeAllocation

Spec == Init /\ [][Next]_vars

-----------------------------------------------------------------------------
(* Every page that Windows has given to the site is the one it knows of,   *)
(* through failed prepares, failed frees and repeated calls.               *)
NoPageLost == ours = {relay} \ {0}

(* A prepared site's detour calls its relay: target, displacement and      *)
(* wrapping addresses together give the page that is held.                 *)
DetourReachesRelay ==
    pc = "idle" /\ prepared =>
        /\ has_allocation
        /\ (target + CallSize + detour) % (Top + 1) = relay

(* The search stays where a CALL reaches, so that the check after it, and  *)
(* with it a page allocated in vain, never happens.                        *)
NeverOutOfReach == pc = "reach" => delta \in -Rel32 .. Rel32 - 1

(* A relay, once there is one, is reached.                                 *)
RelayInReach == DetourReachesRelay /\ NeverOutOfReach

(* Where a page could be: whole granules other than the target's, nearer   *)
(* than the limit on either side of it.                                    *)
Nearby == {a \in 1 .. Top - Page :
             /\ a % Granule = 0 /\ a # anchor
             /\ a - anchor \in -SearchLimit + 1 .. SearchLimit - 1}

(* No relay means that Windows gave no page at any of these places.        *)
ExhaustedMeansNone == pc = "search" /\ ~InSearch => Nearby \subseteq refused
=============================================================================
