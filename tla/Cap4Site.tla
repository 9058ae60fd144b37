------------------------------- MODULE Cap4Site -------------------------------
(***************************************************************************)
(* cap4::Site and cap4::Memory (src/src/cap4_patch.h, cap4_patch.cpp): the *)
(* two ways to write CAP4's two bytes, and the authorization that one of   *)
(* them needs.  PatchTransaction makes the calls; its memory is replaced   *)
(* by CAP4's here, which is WindowsPatchMemory behind two more guards.     *)
(*                                                                         *)
(* The site's operations are called in any order, also where the lifecycle *)
(* controller never would, and the game fetches the two bytes whenever it  *)
(* is not suspended.                                                       *)
(***************************************************************************)
EXTENDS PatchTransaction

VARIABLES
    strategy, \* strategy_; "other" is no member of the enumeration
    odd,      \* the target's address is odd
    quiesced, \* quiesced_
    stopped,  \* suspended_ holds every other thread
    half,     \* the first of the two bytes is stored, the second is not
    torn      \* history: the game has fetched such a pair

owner == <<strategy, odd, quiesced, stopped>>
cap4Vars == <<vars, owner, half, torn>>

Strategies == {"aligned_atomic16", "quiesced_copy2", "other"}

Cap4TypeOK ==
    /\ TypeOK
    /\ strategy \in Strategies /\ odd \in BOOLEAN
    /\ quiesced \in BOOLEAN /\ stopped \in BOOLEAN
    /\ half \in BOOLEAN /\ torn \in BOOLEAN

Cap4Init ==
    /\ Init
    /\ strategy \in Strategies /\ odd \in BOOLEAN
    /\ quiesced = FALSE /\ stopped = FALSE
    /\ half = FALSE /\ torn = FALSE

-----------------------------------------------------------------------------
(* Site::freeze: acquire lets go of what is held before it starts, and     *)
(* holds nothing if it fails.                                              *)
FreezeKeepingQuiesced ==                                              \* mutant
    /\ pc = "idle"
    /\ stopped' \in BOOLEAN
    /\ quiesced' = (quiesced \/ stopped')
    /\ UNCHANGED <<vars, strategy, odd, half, torn>>
Freeze ==
    /\ pc = "idle"
    /\ stopped' \in BOOLEAN
    /\ quiesced' = stopped'
    /\ UNCHANGED <<vars, strategy, odd, half, torn>>

ThawKeepingQuiesced ==                                                \* mutant
    /\ pc = "idle"
    /\ stopped' = FALSE
    /\ UNCHANGED <<vars, strategy, odd, quiesced, half, torn>>
Thaw ==
    /\ pc = "idle"
    /\ quiesced' = FALSE /\ stopped' = FALSE
    /\ UNCHANGED <<vars, strategy, odd, half, torn>>

(* Site::patch and Site::repair_original_auxiliaries.                      *)
Call == \E o \in {"install", "restore", "repair"} : Begin(o) /\ UNCHANGED <<owner, half, torn>>

(* What Memory::writable looks at before it touches the page.              *)
MayOpen == \/ strategy = "quiesced_copy2" /\ quiesced
           \/ strategy = "aligned_atomic16"

OpenPageFirst ==                                                      \* mutant
    /\ pc = "writable"
    /\ target' = [target EXCEPT !.pending = TRUE] /\ page' = "rwx"
    /\ baseline' = IF baseline = "none" THEN page ELSE baseline
    /\ pc' = IF MayOpen THEN "write" ELSE "restore_protection"
    /\ UNCHANGED <<op, rollback, result, wrote, entry, saved, owner, half, torn>>

(* Memory::writable; a refusal is to transact what a failed VirtualProtect *)
(* is.                                                                     *)
OpenPage ==
    /\ IF MayOpen THEN Writable
       ELSE /\ pc = "writable" /\ pc' = "restore_protection"
            /\ UNCHANGED <<op, rollback, result, wrote, entry, target, page, baseline, saved>>
    /\ UNCHANGED <<owner, half, torn>>

(* What Memory::write looks at: the exchange needs an even address.        *)
MayWrite == \/ strategy = "quiesced_copy2" /\ quiesced
            \/ strategy = "aligned_atomic16" /\ ~odd

Refuse == Write /\ target' = target
Replace == Write /\ target'.bytes = Replacement

(* An exchange of an aligned word is one step for every other processor; a *)
(* copy, or an exchange across an odd address, is one byte after the other.*)
InOneStep == strategy = "aligned_atomic16" /\ ~odd

StoreBytes ==
    /\ pc = "write"
    /\ \/ ~MayWrite /\ Refuse /\ UNCHANGED half
       \/ MayWrite /\ InOneStep /\ Replace /\ UNCHANGED half
       \/ MayWrite /\ ~InOneStep /\ ~half /\ half' = TRUE /\ UNCHANGED vars
       \/ MayWrite /\ half /\ Replace /\ half' = FALSE
    /\ UNCHANGED <<owner, torn>>

Rest ==
    /\ ClassifyBefore \/ FlushCache \/ RestorePage \/ ClassifyAfter
    /\ UNCHANGED <<owner, half, torn>>

-----------------------------------------------------------------------------
(* The game executes the target, and another plugin hooks it, while their  *)
(* threads are not suspended; never inside a transaction, as in            *)
(* PatchTransaction: the controller makes none without a freeze.           *)
GameFetches ==
    /\ ~stopped
    /\ torn' = (torn \/ half)
    /\ UNCHANGED <<vars, owner, half>>

Others ==
    /\ ~stopped
    /\ ForeignHook \/ ForeignUnhook
    /\ UNCHANGED <<owner, half, torn>>

Cap4Next == \/ Freeze \/ Thaw \/ Call
            \/ OpenPage \/ StoreBytes \/ Rest
            \/ GameFetches \/ Others

Cap4Spec == Cap4Init /\ [][Cap4Next]_cap4Vars

-----------------------------------------------------------------------------
(* The game never executes one old and one new byte, whatever the order of *)
(* freeze, thaw, patch and repair and whichever of them fail.              *)
NeverTorn == ~torn

(* A transaction asked for without authorization changes no byte and opens *)
(* no page, and does not claim to have done anything: the copying strategy *)
(* is safe by itself, without the controller's order of calls.             *)
UnauthorizedChangesNothing ==
    [][ (strategy = "quiesced_copy2" /\ ~stopped /\ pc # "idle")
          => /\ target'.bytes # target.bytes => saved' # saved
             /\ page' = "rwx" => page = "rwx"
             /\ pc' = "idle" /\ result'.committed
                   => entry.bytes = "original" \/ op = "repair" ]_cap4Vars

(* Each strategy, its refusals included, is a patch transaction: whatever  *)
(* holds of PatchTransaction for every memory holds for CAP4's.            *)
IsPatchTransaction == Spec
=============================================================================
