--------------------------- MODULE PatchContract ---------------------------
(***************************************************************************)
(* What one patch transaction may do to the target bytes and what it may   *)
(* report about it: the interface between lifecycle::transact and          *)
(* lifecycle::Controller (src/src/hook_lifecycle.h, hook_lifecycle.cpp).   *)
(* PatchTransaction models the calls one by one and is checked against     *)
(* this contract; HookLifecycle takes a transaction as one step, because   *)
(* the controller runs it with every other thread suspended.               *)
(***************************************************************************)
EXTENDS Naturals

(* The three answers of PatchMemory::classify().  "unknown" also stands    *)
(* for a target that VirtualQuery does not show as readable.               *)
Bytes == {"original", "detour", "unknown"}

(* The fields of PatchResult that a caller reads.                          *)
PatchResult == [before: Bytes, after: Bytes, committed: BOOLEAN,
                cache_synchronized: BOOLEAN, protection_restored: BOOLEAN]

(* lifecycle::PatchResult{} : a controller that has patched nothing yet.   *)
NoPatch == [before |-> "unknown", after |-> "unknown", committed |-> FALSE,
            cache_synchronized |-> FALSE, protection_restored |-> TRUE]

(* The patch site: the bytes in memory; every value of them an instruction *)
(* fetch may still see (more than one until the cache is flushed); whether *)
(* this plugin left the page writable (WindowsPatchMemory::pending_).      *)
Target == [bytes: Bytes, fetchable: SUBSET Bytes, pending: BOOLEAN]

Wanted(install) == IF install THEN "detour" ELSE "original"

(* Nothing is inspected or repaired when the owner of the bytes is not     *)
(* known, and an installation starts from the original bytes only.         *)
RefusedToInstallOnly(install, before) ==                              \* mutant
    install /\ before # "original"
Refused(install, before) ==
    before = "unknown" \/ (install /\ before # "original")

RefusedResult(before) ==
    [before |-> before, after |-> before, committed |-> FALSE,
     cache_synchronized |-> FALSE, protection_restored |-> FALSE]

Committed(r, wanted) ==
    r.after = wanted /\ r.cache_synchronized /\ r.protection_restored

(* A transaction that went ahead: it leaves original or detour bytes, and  *)
(* its report never claims more than what holds of the target.             *)
Performed(install, m, r, n) ==
    /\ n.bytes \in {m.bytes, "original", Wanted(install)}
    /\ n.fetchable \subseteq m.fetchable \cup {"original", Wanted(install)}
    /\ n.bytes \in n.fetchable
    /\ n.fetchable = {n.bytes} \/ m.fetchable \subseteq n.fetchable
    /\ r.after \in {n.bytes, "unknown"}
    /\ r.committed => Committed(r, Wanted(install))
    /\ r.cache_synchronized =>
          \/ n.fetchable = {n.bytes}
          \/ n.bytes = m.bytes /\ n.fetchable = m.fetchable /\ install
    /\ r.protection_restored <=> ~n.pending

(* lifecycle::transact(memory, install) from target m to target n with     *)
(* result r.  The classification may fail although the bytes are known.    *)
TransactEffect(install, m, r, n) ==
    /\ r.before \in {m.bytes, "unknown"}
    /\ \/ /\ Refused(install, r.before)
          /\ r = RefusedResult(r.before)
          /\ n = m
       \/ /\ ~Refused(install, r.before)
          /\ Performed(install, m, r, n)

(* lifecycle::repair_original_auxiliaries to target n with result r, while *)
(* other owners of the bytes may act: it stops at bytes that are not the   *)
(* original, and otherwise claims no more, and no less, than it restored.  *)
RepairEffect(r, n) ==
    \/ r.before # "original" /\ r = RefusedResult(r.before)
    \/ /\ r.before = "original" /\ r.after \in {n.bytes, "unknown"}
       /\ r.committed <=> Committed(r, "original")
       /\ r.cache_synchronized => "detour" \notin n.fetchable
       /\ r.protection_restored <=> ~n.pending
============================================================================
