-------------------------- MODULE PatchTransaction --------------------------
(***************************************************************************)
(* lifecycle::transact and lifecycle::repair_original_auxiliaries          *)
(* (src/src/hook_lifecycle.cpp) over WindowsPatchMemory                    *)
(* (src/src/hook_platform.cpp), one memory call per step.  VirtualQuery,   *)
(* VirtualProtect and FlushInstructionCache may each fail at every call.   *)
(*                                                                         *)
(* The controller calls transact with every other thread suspended, and    *)
(* repair with the game running: the other owner of the target (a second   *)
(* hooking plugin) acts between calls and between the steps of a repair.   *)
(***************************************************************************)
EXTENDS PatchContract

VARIABLES
    pc,        \* the memory call about to be made, or "idle"
    op,        \* "install", "restore" (transact) or "repair"
    rollback,  \* transact is undoing a failed installation
    result,    \* the PatchResult being filled in
    wrote,     \* PatchResult::write_attempted of the change in progress
    target,    \* bytes, what a fetch may see, WindowsPatchMemory::pending_
    page,      \* the protection of the page
    baseline,  \* WindowsPatchMemory::baseline_
    saved,     \* the bytes the other owner replaced, or "none"
    entry      \* the target when the call began

local == <<pc, op, rollback, result, wrote, entry>>
vars == <<local, target, page, baseline, saved>>

(* "rx": as the game loaded it; "rwx": opened by a transaction of ours;    *)
(* "other": what the other owner chose.                                    *)
Protections == {"rx", "rwx", "other"}

TypeOK ==
    /\ pc \in {"idle", "classify", "writable", "write", "flush",
               "restore_protection", "classify_after"}
    /\ op \in {"install", "restore", "repair"}
    /\ rollback \in BOOLEAN /\ wrote \in BOOLEAN
    /\ result \in PatchResult
    /\ target \in Target /\ entry \in Target
    /\ page \in Protections
    /\ baseline \in Protections \cup {"none"}
    /\ saved \in {"none", "original", "detour"}

Init ==
    /\ pc = "idle" /\ op = "restore" /\ rollback = FALSE /\ wrote = FALSE
    /\ result = NoPatch
    /\ target = [bytes |-> "original", fetchable |-> {"original"}, pending |-> FALSE]
    /\ entry = target
    /\ page = "rx" /\ baseline = "none" /\ saved = "none"

Installing == op = "install"
Replacement == IF rollback THEN "original" ELSE Wanted(Installing)

-----------------------------------------------------------------------------
(* PatchMemory::classify, flush and restore_protection, the calls that     *)
(* every path makes.                                                       *)

Classify(answer) == answer \in {target.bytes, "unknown"}

Flush(done) == [target EXCEPT !.fetchable = IF done THEN {target.bytes} ELSE @]

(* Nothing to do unless a page protection of ours is pending; the baseline *)
(* is what the page had before this site first opened it.                  *)
RestoreProtectionForgetful(done) ==                                   \* mutant
    /\ target' = [target EXCEPT !.pending = FALSE]
    /\ page' = IF done /\ target.pending THEN baseline ELSE page
RestoreProtection(done) ==
    IF ~target.pending
    THEN done /\ UNCHANGED <<target, page>>
    ELSE /\ done => baseline # "none"
         /\ target' = [target EXCEPT !.pending = ~done]
         /\ page' = IF done THEN baseline ELSE page

-----------------------------------------------------------------------------
Begin(o) ==
    /\ pc = "idle"
    /\ op' = o /\ pc' = "classify"
    /\ rollback' = FALSE /\ wrote' = FALSE
    /\ result' = NoPatch
    /\ entry' = target
    /\ UNCHANGED <<target, page, baseline, saved>>

ClassifyBefore ==
    /\ pc = "classify"
    /\ \E b \in Bytes :
          /\ Classify(b)
          /\ IF \/ op = "repair" /\ b # "original"
                \/ op # "repair" /\ Refused(Installing, b)
             THEN result' = RefusedResult(b) /\ pc' = "idle"
             ELSE /\ result' = [result EXCEPT !.before = b, !.after = b]
                  /\ pc' = IF ~Installing /\ b = "original"
                           THEN "flush"        \* nothing to write
                           ELSE "writable"
    /\ UNCHANGED <<op, rollback, wrote, entry, target, page, baseline, saved>>

(* WindowsPatchMemory::writable: only the first success sets the baseline. *)

Writable ==
    /\ pc = "writable"
    /\ \/ /\ target' = [target EXCEPT !.pending = TRUE]
          /\ page' = "rwx"
          /\ baseline' = IF baseline = "none" THEN page ELSE baseline
          /\ pc' = "write"
       \/ /\ pc' = "restore_protection"      \* VirtualProtect failed
          /\ UNCHANGED <<target, page, baseline>>
    /\ UNCHANGED <<op, rollback, result, wrote, entry, saved>>

(* A memory may refuse to write: CAP4's does without authorization, while  *)
(* WindowsPatchMemory writes whatever is asked for here.                   *)
Write ==
    /\ pc = "write"
    /\ wrote' = TRUE
    /\ target' \in {target, [target EXCEPT !.bytes = Replacement,
                                          !.fetchable = @ \cup {Replacement}]}
    /\ pc' = "flush"
    /\ UNCHANGED <<op, rollback, result, entry, page, baseline, saved>>

FlushCache ==
    /\ pc = "flush"
    /\ \E done \in BOOLEAN :
          /\ target' = Flush(done)
          /\ result' = [result EXCEPT !.cache_synchronized = done]
    /\ pc' = "restore_protection"
    /\ UNCHANGED <<op, rollback, wrote, entry, page, baseline, saved>>

RestorePage ==
    /\ pc = "restore_protection"
    /\ \E done \in BOOLEAN :
          /\ RestoreProtection(done)
          /\ result' = [result EXCEPT !.protection_restored = done]
    /\ pc' = "classify_after"
    /\ UNCHANGED <<op, rollback, wrote, entry, baseline, saved>>

(* What transact concludes from the last classification: an installation   *)
(* that wrote nothing needs no flush; an installation that failed with the *)
(* detour in place is rolled back; a rollback never counts as committed.   *)
ConcludedFromBytes(r) ==                                              \* mutant
    [r EXCEPT !.cache_synchronized = @ \/ (Installing /\ r.after = "original"),
              !.committed = Committed(r, Wanted(Installing)) /\ ~rollback]
Concluded(r) ==
    LET wanted == Wanted(Installing)
        unwritten == Installing /\ ~wrote /\ ~rollback /\ r.after = "original"
    IN  [r EXCEPT !.cache_synchronized = @ \/ unwritten,
                  !.committed = /\ Committed(r, wanted)
                                /\ ~rollback
                                /\ wrote \/ (r.before = "original" /\ ~Installing)]

ClassifyAfter ==
    /\ pc = "classify_after"
    /\ \E b \in Bytes :
          /\ Classify(b)
          /\ LET r == Concluded([result EXCEPT !.after = b])
                 undo == Installing /\ ~rollback /\ ~r.committed /\ b = "detour"
             IN  /\ result' = IF undo THEN [r EXCEPT !.cache_synchronized = FALSE,
                                                     !.protection_restored = TRUE]
                              ELSE r
                 /\ rollback' = (rollback \/ undo)
                 /\ wrote' = (wrote /\ ~undo)
                 /\ pc' = IF undo THEN "writable" ELSE "idle"
    /\ UNCHANGED <<op, entry, target, page, baseline, saved>>

-----------------------------------------------------------------------------
(* The other owner of the target, outside this repository: it replaces the *)
(* bytes, may leave the page with a protection of its choice, flushes      *)
(* nothing of ours, and later puts back exactly what it replaced.          *)
OthersMayRun == pc = "idle" \/ op = "repair"

ForeignHook ==
    /\ OthersMayRun
    /\ saved = "none"
    /\ saved' = target.bytes
    /\ target' = [target EXCEPT !.bytes = "unknown",
                                !.fetchable = @ \cup {"unknown"}]
    /\ page' \in {page, "other"}
    /\ UNCHANGED <<local, baseline>>

ForeignUnhook ==
    /\ OthersMayRun
    /\ saved # "none"
    /\ target' = [target EXCEPT !.bytes = saved,
                                !.fetchable = (@ \ {"unknown"}) \cup {saved}]
    /\ saved' = "none"
    /\ UNCHANGED <<local, page, baseline>>

Step == \/ ClassifyBefore \/ Writable \/ Write \/ FlushCache
        \/ RestorePage \/ ClassifyAfter

Next ==
    \/ \E o \in {"install", "restore", "repair"} : Begin(o)
    \/ Step
    \/ ForeignHook \/ ForeignUnhook

Spec == Init /\ [][Next]_vars

-----------------------------------------------------------------------------
(* Whatever call of VirtualQuery, VirtualProtect or FlushInstructionCache  *)
(* fails, on the way in or in the rollback, and whatever another owner     *)
(* does meanwhile to a repair, both leave the target and report on it as   *)
(* the contract says: a committed, synchronized or protection-restored     *)
(* report is true of the memory.                                           *)
HonouredContract ==
    [][ (pc # "idle" /\ pc' = "idle") =>
          IF op = "repair" THEN RepairEffect(result', target')
                           ELSE TransactEffect(Installing, entry, result', target') ]_vars

(* Bytes of another owner are never overwritten, by no interleaving of     *)
(* that owner with a repair and by no failure inside a transaction; and a  *)
(* repair writes no bytes at all.                                          *)
ForeignBytesKept ==
    [][ Step => /\ target.bytes = "unknown" => target'.bytes = "unknown"
                /\ op = "repair" => target'.bytes = target.bytes ]_vars

OpenPageIsPending == page = "rwx" => target.pending
BaselineIsNotOurs == baseline # "rwx"

(* A page this site has opened stays accounted for as pending until it has *)
(* its protection back, through failed restorations, rollbacks and         *)
(* repairs, so that a later stop can still close it; and the protection to *)
(* go back to is the one found before the first change, never the writable *)
(* one that a rollback or a retry finds.                                   *)
PageAccounted == OpenPageIsPending /\ BaselineIsNotOurs

(* A comment of repair_original_auxiliaries says of a target that another  *)
(* owner has changed: "Do not touch an intervening owner's bytes or        *)
(* protection."                                                            *)
RepairLeavesForeignPage ==
    [][ (Step /\ op = "repair" /\ target.bytes = "unknown") => page' = page ]_vars
=============================================================================
