----------------------- MODULE PatchTransaction_proofs -----------------------
(***************************************************************************)
(* Proofs about PatchTransaction, and about Cap4Site, which is one.        *)
(***************************************************************************)
EXTENDS Cap4Site, TLAPS

-----------------------------------------------------------------------------
(* The page: what is open is pending, and the way back is known.           *)
PageInv ==
    /\ OpenPageIsPending
    /\ BaselineIsNotOurs
    /\ target.pending => baseline # "none"

(* The current bytes can be fetched, and foreign ones have an owner.        *)
BytesInv ==
    /\ target.bytes \in target.fetchable
    /\ target.bytes = "unknown" <=> saved # "none"
    /\ "unknown" \in target.fetchable => target.bytes = "unknown"

(* A repair takes the short way: no page opened, no byte written.          *)
RepairInv == op = "repair" => pc \notin {"writable", "write"} /\ ~rollback

(* Before the first look of a transaction nothing has happened.            *)
LookingInv ==
    op # "repair" /\ pc = "classify" => target = entry /\ result = NoPatch /\ ~rollback /\ ~wrote

(* After it, the target is as far from where it began as the contract lets *)
(* it be, and the report so far is true of it.                             *)
UnderWayInv ==
    op # "repair" /\ pc \notin {"idle", "classify"} =>
        /\ result.before = entry.bytes /\ ~Refused(Installing, entry.bytes)
        /\ "unknown" \notin entry.fetchable
        /\ rollback => Installing
        /\ pc \in {"writable", "write"} =>
              IF rollback THEN target.bytes = "detour"
              ELSE target.bytes = entry.bytes /\ target.fetchable = entry.fetchable
        /\ target.bytes \in {entry.bytes, "original", Wanted(Installing)}
        /\ target.fetchable \subseteq entry.fetchable \cup {"original", Wanted(Installing)}
        /\ target.fetchable = {target.bytes} \/ entry.fetchable \subseteq target.fetchable
        /\ pc \in {"writable", "write", "flush"} => ~result.cache_synchronized
        /\ result.cache_synchronized => target.fetchable = {target.bytes}
        /\ Installing /\ ~wrote /\ ~rollback =>
              target.bytes = entry.bytes /\ target.fetchable = entry.fetchable /\ pc # "flush"
        /\ pc = "classify_after" => (result.protection_restored <=> ~target.pending)

IInv == TypeOK /\ PageInv /\ BytesInv /\ RepairInv /\ LookingInv /\ UnderWayInv

-----------------------------------------------------------------------------
USE DEF Bytes, Protections

(* A write is refused, or adds its bytes to what a fetch may see.            *)
LEMMA WriteFields ==
    ASSUME TypeOK, Write
    PROVE  /\ target' \in Target /\ target'.pending = target.pending
           /\ \/ target' = target
              \/ /\ target'.bytes = Replacement
                 /\ target'.fetchable = target.fetchable \cup {Replacement}
<1>1. Replacement \in Bytes /\ target \in Target /\ target.fetchable \cup {Replacement} \in SUBSET Bytes
  BY DEF Replacement, Wanted, TypeOK, Target
<1> HIDE DEF Bytes
<1>0. target' = target \/ target' = [target EXCEPT !.bytes = Replacement, !.fetchable = target.fetchable \cup {Replacement}]
  BY DEF Write
<1>2. CASE target' = target
  BY <1>1, <1>2
<1>3. CASE target' = [target EXCEPT !.bytes = Replacement, !.fetchable = target.fetchable \cup {Replacement}]
  BY <1>3, <1>1 DEF Target
<1> QED
BY <1>0, <1>2, <1>3

(* What transact concludes from a result.                                   *)
LEMMA ConcludedFields ==
    ASSUME NEW r \in PatchResult, TypeOK
    PROVE  /\ Concluded(r) \in PatchResult
           /\ Concluded(r).before = r.before /\ Concluded(r).after = r.after
           /\ Concluded(r).protection_restored = r.protection_restored
           /\ Concluded(r).cache_synchronized <=>
                 \/ r.cache_synchronized
                 \/ Installing /\ ~wrote /\ ~rollback /\ r.after = "original"
           /\ Concluded(r).committed <=>
                /\ r.after = Wanted(Installing) /\ r.cache_synchronized /\ r.protection_restored
                /\ ~rollback /\ (wrote \/ (r.before = "original" /\ ~Installing))
<1> DEFINE u == Installing /\ ~wrote /\ ~rollback /\ r.after = "original"
           c == r.cache_synchronized \/ u
           k == Committed(r, Wanted(Installing)) /\ ~rollback
                  /\ (wrote \/ (r.before = "original" /\ ~Installing))
<1>1. Concluded(r) = [r EXCEPT !.cache_synchronized = c, !.committed = k]
  BY DEF Concluded
<1>2. c \in BOOLEAN /\ k \in BOOLEAN
  <2>1. c \in BOOLEAN
    BY Zenon
  <2>2. k \in BOOLEAN
    BY Zenon
  <2> QED BY <2>1, <2>2
<1>3. k <=> /\ r.after = Wanted(Installing) /\ r.cache_synchronized /\ r.protection_restored
                /\ ~rollback /\ (wrote \/ (r.before = "original" /\ ~Installing))
  BY DEF Committed
<1> HIDE DEF c, k
<1>4. [r EXCEPT !.cache_synchronized = c, !.committed = k] \in PatchResult
  BY <1>2 DEF PatchResult
<1> QED BY <1>1, <1>2, <1>3, <1>4 DEF PatchResult, c

(* What a flush, another owner's hook and its removal make of the target.   *)
LEMMA FlushFields ==
    ASSUME NEW done \in BOOLEAN, TypeOK
    PROVE  /\ Flush(done) \in Target /\ Flush(done).pending = target.pending
           /\ Flush(done).bytes = target.bytes
           /\ Flush(done).fetchable = IF done THEN {target.bytes} ELSE target.fetchable
  BY DEF Flush, TypeOK, Target

LEMMA HookFields ==
    ASSUME TypeOK, ForeignHook
    PROVE  /\ target' \in Target /\ target'.pending = target.pending
           /\ target'.bytes = "unknown" /\ target'.fetchable = target.fetchable \cup {"unknown"}
  BY DEF ForeignHook, TypeOK, Target

LEMMA UnhookFields ==
    ASSUME TypeOK, ForeignUnhook
    PROVE  /\ target' \in Target /\ target'.pending = target.pending
           /\ target'.bytes = saved
           /\ target'.fetchable = (target.fetchable \ {"unknown"}) \cup {saved}
  BY DEF ForeignUnhook, TypeOK, Target
(* The last look, taken apart: the call ends, or an installation is undone. *)
Ends(b) ==
    /\ pc' = "idle" /\ (rollback' <=> rollback) /\ (wrote' <=> wrote)
    /\ result'.cache_synchronized <=>
          \/ result.cache_synchronized
          \/ Installing /\ ~wrote /\ ~rollback /\ b = "original"
    /\ result'.protection_restored <=> result.protection_restored

Undoes(b) ==
    /\ pc' = "writable" /\ rollback' /\ ~wrote' /\ Installing /\ b = "detour"
    /\ ~result'.cache_synchronized /\ result'.protection_restored

LEMMA AfterFields ==
    ASSUME TypeOK, ClassifyAfter
    PROVE  \E b \in {target.bytes, "unknown"} :
             /\ result' \in PatchResult
             /\ result'.before = result.before /\ result'.after = b
             /\ result'.committed =>
                    /\ b = Wanted(Installing) /\ result.cache_synchronized
                    /\ result.protection_restored /\ ~rollback
                    /\ (wrote \/ result.before = "original")
             /\ ~Installing /\ ~rollback /\ result.before = "original" =>
                    (result'.committed <=> /\ b = "original" /\ result.cache_synchronized
                                           /\ result.protection_restored)
             /\ Ends(b) \/ Undoes(b)
<1> PICK b \in Bytes :
          /\ Classify(b)
          /\ LET r == Concluded([result EXCEPT !.after = b])
                 undo == Installing /\ ~rollback /\ ~r.committed /\ b = "detour"
             IN  /\ result' = IF undo THEN [r EXCEPT !.cache_synchronized = FALSE,
                                                     !.protection_restored = TRUE]
                              ELSE r
                 /\ rollback' = (rollback \/ undo)
                 /\ wrote' = (wrote /\ ~undo)
                 /\ pc' = IF undo THEN "writable" ELSE "idle"
  BY DEF ClassifyAfter
<1> DEFINE q == [result EXCEPT !.after = b]
           r == Concluded(q)
           undo == Installing /\ ~rollback /\ ~r.committed /\ b = "detour"
<1>1. q \in PatchResult /\ q.after = b /\ q.before = result.before
      /\ q.cache_synchronized = result.cache_synchronized
      /\ q.protection_restored = result.protection_restored
  BY DEF TypeOK, PatchResult
<1>4. /\ result' = IF undo THEN [r EXCEPT !.cache_synchronized = FALSE,
                                         !.protection_restored = TRUE]
                   ELSE r
      /\ rollback' = (rollback \/ undo)
      /\ wrote' = (wrote /\ ~undo)
      /\ pc' = IF undo THEN "writable" ELSE "idle"
  BY DEF q
<1> HIDE DEF q
<1>2. /\ r \in PatchResult /\ r.before = result.before /\ r.after = b
      /\ r.protection_restored <=> result.protection_restored
      /\ r.cache_synchronized <=>
            \/ result.cache_synchronized
            \/ Installing /\ ~wrote /\ ~rollback /\ b = "original"
      /\ r.committed => /\ b = Wanted(Installing) /\ result.cache_synchronized
                        /\ result.protection_restored /\ ~rollback
                        /\ (wrote \/ result.before = "original")
      /\ ~Installing /\ ~rollback /\ result.before = "original" =>
            (r.committed <=> /\ b = "original" /\ result.cache_synchronized
                             /\ result.protection_restored)
  <2>1. /\ r \in PatchResult /\ r.before = q.before /\ r.after = q.after
        /\ r.protection_restored = q.protection_restored
    BY <1>1, ConcludedFields
  <2>2. r.cache_synchronized <=>
            \/ q.cache_synchronized
            \/ Installing /\ ~wrote /\ ~rollback /\ q.after = "original"
    BY <1>1, ConcludedFields
  <2>3. r.committed => /\ q.after = Wanted(Installing) /\ q.cache_synchronized
                        /\ q.protection_restored /\ ~rollback
                        /\ (wrote \/ q.before = "original")
    BY <1>1, ConcludedFields
  <2>4. ~Installing /\ ~rollback /\ q.before = "original" =>
            (r.committed <=> /\ q.after = "original" /\ q.cache_synchronized
                             /\ q.protection_restored)
    BY <1>1, ConcludedFields DEF Wanted
  <2> HIDE DEF r
  <2> QED BY <1>1, <2>1, <2>2, <2>3, <2>4
<1>5. b \in {target.bytes, "unknown"}
  BY DEF Classify
<1>6. undo => Installing /\ b = "detour"
  OBVIOUS
<1> HIDE DEF r, undo
<1>7. CASE undo
  <2>1. result' = [r EXCEPT !.cache_synchronized = FALSE, !.protection_restored = TRUE]
    BY <1>7, <1>4
  <2>2. /\ result' \in PatchResult /\ result'.before = r.before /\ result'.after = r.after
        /\ result'.committed = r.committed
        /\ ~result'.cache_synchronized /\ result'.protection_restored
    BY <2>1, <1>2 DEF PatchResult
  <2>3. Undoes(b)
    BY <2>2, <1>7, <1>6, <1>4 DEF Undoes
  <2> QED BY <2>2, <2>3, <1>2, <1>5
<1>8. CASE ~undo
  <2>1. result' = r
    BY <1>8, <1>4
  <2>2. Ends(b)
    BY <2>1, <1>2, <1>4, <1>8 DEF Ends
  <2> QED BY <2>1, <2>2, <1>2, <1>5
<1> QED BY <1>7, <1>8

-----------------------------------------------------------------------------
LEMMA InitIInv == Init => IInv
<1> SUFFICES ASSUME Init PROVE IInv
  OBVIOUS
<1>1. TypeOK
  BY DEF Init, TypeOK, NoPatch, PatchResult, Target
<1>2. PageInv /\ BytesInv
  BY DEF Init, PageInv, BytesInv, OpenPageIsPending, BaselineIsNotOurs
<1>3. RepairInv /\ LookingInv /\ UnderWayInv
  BY DEF Init, RepairInv, LookingInv, UnderWayInv
<1> QED BY <1>1, <1>2, <1>3 DEF IInv

(* Each call of the controller, and each memory call it makes, preserves   *)
(* the invariant.                                                          *)
LEMMA BeginInvariant == ASSUME IInv, NEW o \in {"install", "restore", "repair"}, Begin(o) PROVE IInv'
<1> USE DEF IInv, Begin
<1>1. TypeOK'
  BY DEF TypeOK, NoPatch, PatchResult
<1>2. PageInv' /\ BytesInv'
  BY DEF PageInv, BytesInv, OpenPageIsPending, BaselineIsNotOurs
<1>3. RepairInv' /\ LookingInv' /\ UnderWayInv'
  BY DEF RepairInv, LookingInv, UnderWayInv
<1> QED BY <1>1, <1>2, <1>3

LEMMA ClassifyBeforeInvariant == ASSUME IInv, ClassifyBefore PROVE IInv'
<1> USE DEF IInv
<1> PICK b \in Bytes :
          /\ b \in {target.bytes, "unknown"}
          /\ IF \/ op = "repair" /\ b # "original"
                \/ op # "repair" /\ Refused(Installing, b)
             THEN result' = RefusedResult(b) /\ pc' = "idle"
             ELSE /\ result' = [result EXCEPT !.before = b, !.after = b]
                  /\ pc' = IF ~Installing /\ b = "original" THEN "flush" ELSE "writable"
  BY DEF ClassifyBefore, Classify
<1>0. UNCHANGED <<op, rollback, wrote, entry, target, page, baseline, saved>> /\ pc = "classify"
  BY DEF ClassifyBefore
<1>1. result' \in PatchResult
  <2>1. RefusedResult(b) \in PatchResult
    BY DEF RefusedResult, PatchResult
  <2>2. [result EXCEPT !.before = b, !.after = b] \in PatchResult
    BY DEF PatchResult, TypeOK
  <2> QED BY <2>1, <2>2
<1>2. TypeOK'
  BY <1>0, <1>1 DEF TypeOK
<1>3. PageInv' /\ BytesInv'
  BY <1>0 DEF PageInv, BytesInv, OpenPageIsPending, BaselineIsNotOurs
<1>4. RepairInv' /\ LookingInv'
  BY <1>0 DEF RepairInv, LookingInv, Installing
<1>5. UnderWayInv'
  <2> SUFFICES ASSUME op # "repair", pc' # "idle" PROVE UnderWayInv'
    BY <1>0 DEF UnderWayInv
  <2>1. /\ ~Refused(Installing, b) /\ b = target.bytes /\ target = entry
        /\ result' = [result EXCEPT !.before = b, !.after = b]
        /\ pc' \in {"flush", "writable"} /\ (pc' = "flush" => ~Installing)
        /\ result = NoPatch
    BY <1>0 DEF Refused, LookingInv
  <2>2. result'.before = b /\ ~result'.cache_synchronized
    BY <2>1 DEF NoPatch
  <2> QED BY <1>0, <2>1, <2>2 DEF UnderWayInv, Installing, BytesInv, LookingInv, Refused
<1> QED BY <1>2, <1>3, <1>4, <1>5

LEMMA WritableInvariant == ASSUME IInv, Writable PROVE IInv'
<1> USE DEF IInv
<1>0. /\ target' \in Target /\ target'.bytes = target.bytes
      /\ target'.fetchable = target.fetchable
      /\ target'.pending \/ target' = target
      /\ page' # page => target'.pending
  BY DEF Writable, TypeOK, Target
<1>1. TypeOK'
  BY <1>0 DEF TypeOK, Writable
<1>2. PageInv' /\ BytesInv'
  BY <1>0 DEF TypeOK, PageInv, BytesInv, OpenPageIsPending, BaselineIsNotOurs, Writable
<1>3. RepairInv' /\ LookingInv'
  BY DEF RepairInv, LookingInv, Writable
<1>4. UnderWayInv'
  BY <1>0 DEF UnderWayInv, Writable, Installing
<1> QED BY <1>1, <1>2, <1>3, <1>4

LEMMA WriteInvariant == ASSUME IInv, Write PROVE IInv'
<1> USE DEF IInv
<1>0. pc = "write" /\ op # "repair"
  BY DEF Write, RepairInv
<1>1. TypeOK'
  BY WriteFields DEF TypeOK, Write
<1>2. Replacement \in {"original", Wanted(Installing)} /\ Replacement # "unknown"
  BY DEF Replacement, Wanted
<1>3. target.bytes # "unknown"
  BY <1>0 DEF UnderWayInv, Refused, Wanted
<1>4. PageInv'
  BY WriteFields DEF PageInv, OpenPageIsPending, BaselineIsNotOurs, Write
<1>5. BytesInv'
  BY <1>2, <1>3, WriteFields DEF BytesInv, Write
<1>6. RepairInv' /\ LookingInv'
  BY <1>0 DEF RepairInv, LookingInv, Write
<1>7. UnderWayInv'
  <2>1. wrote' /\ op' = op /\ UNCHANGED <<rollback, result, entry>> /\ pc' = "flush"
    BY DEF Write
  <2>2. target'.fetchable = {target'.bytes} \/ entry.fetchable \subseteq target'.fetchable
    BY <1>0, WriteFields DEF UnderWayInv, Replacement, Refused, Wanted, TypeOK, Target
  <2> QED BY <1>0, <1>2, <2>1, <2>2, WriteFields DEF UnderWayInv, Installing
<1> QED BY <1>1, <1>4, <1>5, <1>6, <1>7

LEMMA FlushCacheInvariant == ASSUME IInv, FlushCache PROVE IInv'
<1> USE DEF IInv
<1> PICK done \in BOOLEAN :
      target' = Flush(done) /\ result' = [result EXCEPT !.cache_synchronized = done]
  BY DEF FlushCache
<1>0. /\ result' \in PatchResult /\ result'.before = result.before
      /\ result'.cache_synchronized <=> done
  BY DEF TypeOK, PatchResult
<1>1. TypeOK'
  BY <1>0, FlushFields DEF TypeOK, FlushCache
<1>2. PageInv' /\ BytesInv'
  BY FlushFields DEF PageInv, BytesInv, OpenPageIsPending, BaselineIsNotOurs, FlushCache
<1>3. RepairInv' /\ LookingInv'
  BY DEF RepairInv, LookingInv, FlushCache
<1>4. UnderWayInv'
  BY <1>0, FlushFields DEF UnderWayInv, FlushCache, Installing, BytesInv
<1> QED BY <1>1, <1>2, <1>3, <1>4

LEMMA RestorePageInvariant == ASSUME IInv, RestorePage PROVE IInv'
<1> USE DEF IInv
<1> PICK done \in BOOLEAN :
      RestoreProtection(done) /\ result' = [result EXCEPT !.protection_restored = done]
  BY DEF RestorePage
<1>0. /\ result' \in PatchResult /\ result'.before = result.before
      /\ result'.cache_synchronized = result.cache_synchronized
      /\ result'.protection_restored <=> done
  BY DEF TypeOK, PatchResult
<1>1. /\ target' \in Target /\ target'.bytes = target.bytes
      /\ target'.fetchable = target.fetchable
      /\ target'.pending <=> ~done
      /\ target'.pending => target.pending
  BY DEF RestoreProtection, TypeOK, Target
<1>2. /\ page' \in Protections
      /\ page' = page \/ page' = baseline
      /\ target.pending /\ ~target'.pending => page' = baseline
  BY <1>1 DEF RestoreProtection, TypeOK
<1>3. TypeOK'
  BY <1>0, <1>1, <1>2 DEF TypeOK, RestorePage
<1>4. PageInv' /\ BytesInv'
  BY <1>1, <1>2 DEF PageInv, BytesInv, OpenPageIsPending, BaselineIsNotOurs, RestorePage
<1>5. RepairInv' /\ LookingInv'
  BY DEF RepairInv, LookingInv, RestorePage
<1>6. UnderWayInv'
  BY <1>0, <1>1 DEF UnderWayInv, RestorePage, Installing
<1> QED BY <1>3, <1>4, <1>5, <1>6

LEMMA ClassifyAfterInvariant == ASSUME IInv, ClassifyAfter PROVE IInv'
<1> USE DEF IInv
<1>0. UNCHANGED <<op, entry, target, page, baseline, saved>> /\ pc = "classify_after"
  BY DEF ClassifyAfter
<1> PICK b \in {target.bytes, "unknown"} :
      /\ result' \in PatchResult /\ result'.before = result.before
      /\ Ends(b) \/ Undoes(b)
  BY AfterFields
<1>1. TypeOK'
  BY <1>0, Zenon DEF TypeOK, ClassifyAfter, Ends, Undoes
<1>2. PageInv' /\ BytesInv'
  BY <1>0 DEF PageInv, BytesInv, OpenPageIsPending, BaselineIsNotOurs
<1>3. RepairInv' /\ LookingInv'
  BY <1>0 DEF RepairInv, LookingInv, Ends, Undoes, Installing
<1>4. UnderWayInv'
  BY <1>0 DEF UnderWayInv, Ends, Undoes, Installing, Refused, Wanted
<1> QED BY <1>1, <1>2, <1>3, <1>4

LEMMA ForeignInvariant == ASSUME IInv, ForeignHook \/ ForeignUnhook PROVE IInv'
<1> USE DEF IInv, local
<1>0. UNCHANGED <<pc, op, rollback, result, wrote, entry, baseline>> /\ (pc = "idle" \/ op = "repair")
  BY DEF ForeignHook, ForeignUnhook, OthersMayRun
<1>1. TypeOK' /\ BytesInv'
  BY HookFields, UnhookFields DEF TypeOK, BytesInv, ForeignHook, ForeignUnhook, Target
<1>2. PageInv'
  BY HookFields, UnhookFields DEF PageInv, OpenPageIsPending, BaselineIsNotOurs, ForeignHook, ForeignUnhook
<1>3. RepairInv' /\ LookingInv' /\ UnderWayInv'
  BY <1>0 DEF RepairInv, LookingInv, UnderWayInv
<1> QED BY <1>1, <1>2, <1>3

LEMMA IInvInvariant == IInv /\ [Next]_vars => IInv'
<1> SUFFICES ASSUME IInv, [Next]_vars PROVE IInv'
  OBVIOUS
<1>1. CASE Next
  BY <1>1, BeginInvariant, ClassifyBeforeInvariant, WritableInvariant, WriteInvariant,
     FlushCacheInvariant, RestorePageInvariant, ClassifyAfterInvariant, ForeignInvariant
     DEF Next, Step
<1>2. CASE UNCHANGED vars
  BY <1>2 DEF vars, local, IInv, TypeOK, PageInv, BytesInv, RepairInv, LookingInv,
     UnderWayInv, OpenPageIsPending, BaselineIsNotOurs, Installing
<1> QED BY <1>1, <1>2

LEMMA SpecIInv == Spec => []IInv
  BY InitIInv, IInvInvariant, PTL DEF Spec

-----------------------------------------------------------------------------
(* The target, the page and the report keep their types.                   *)
THEOREM TransactionTypes == Spec => []TypeOK
  BY SpecIInv, PTL DEF IInv

(* A page this site opened is pending until it is closed, and the          *)
(* protection to go back to is never the writable one (writable and        *)
(* restore_protection of WindowsPatchMemory).                              *)
THEOREM PagesAccounted == Spec => []PageAccounted
<1>1. IInv => PageAccounted
  BY DEF IInv, PageInv, PageAccounted
<1> QED BY <1>1, SpecIInv, PTL

(* A call of transact ends by a refusal or after its last look.            *)
LEMMA TransactEnds ==
    ASSUME IInv, Next, pc # "idle", pc' = "idle", op # "repair"
    PROVE  TransactEffect(Installing, entry, result', target')
<1> USE DEF IInv
<1>1. CASE ClassifyBefore
  <2>1. /\ UNCHANGED target /\ target = entry
        /\ \E b \in {target.bytes, "unknown"} :
              Refused(Installing, b) /\ result' = RefusedResult(b)
    BY <1>1 DEF ClassifyBefore, Classify, LookingInv
  <2> QED BY <2>1 DEF TransactEffect, RefusedResult
<1>2. CASE ClassifyAfter
  <2>1. UNCHANGED target /\ pc = "classify_after"
    BY <1>2 DEF ClassifyAfter
  <2> PICK b \in {target.bytes, "unknown"} :
        /\ result'.before = result.before /\ result'.after = b
        /\ result'.committed => /\ b = Wanted(Installing) /\ result.cache_synchronized
                                /\ result.protection_restored
        /\ Ends(b)
    BY <1>2, AfterFields DEF Undoes
  <2>2. result'.before = entry.bytes /\ ~Refused(Installing, entry.bytes)
    BY <2>1 DEF UnderWayInv
  <2>3. Performed(Installing, entry, result', target')
    <3>1. /\ target'.bytes \in {entry.bytes, "original", Wanted(Installing)}
          /\ target'.fetchable \subseteq entry.fetchable \cup {"original", Wanted(Installing)}
          /\ target'.bytes \in target'.fetchable
          /\ target'.fetchable = {target'.bytes} \/ entry.fetchable \subseteq target'.fetchable
          /\ result'.after \in {target'.bytes, "unknown"}
      BY <2>1 DEF UnderWayInv, BytesInv
    <3>2. result'.committed => Committed(result', Wanted(Installing))
      BY DEF Ends, Committed
    <3>3. result'.cache_synchronized =>
            \/ target'.fetchable = {target'.bytes}
            \/ target'.bytes = entry.bytes /\ target'.fetchable = entry.fetchable /\ Installing
      BY <2>1 DEF Ends, UnderWayInv
    <3>4. result'.protection_restored <=> ~target'.pending
      BY <2>1 DEF Ends, UnderWayInv
    <3> QED BY <3>1, <3>2, <3>3, <3>4 DEF Performed
  <2> QED BY <2>2, <2>3 DEF TransactEffect
<1>3. CASE ForeignHook \/ ForeignUnhook
  BY <1>3 DEF ForeignHook, ForeignUnhook, local
<1> QED
  BY <1>1, <1>2, <1>3
     DEF Next, Begin, Step, Writable, Write, FlushCache, RestorePage

(* A repair that went on after its first look saw the original.  Another   *)
(* owner may have replaced it since, or put it back: the detour can be     *)
(* found neither in memory nor, once the cache is flushed, by a fetch.     *)
RepairingInv ==
    op = "repair" =>
        /\ ~wrote
        /\ pc = "classify" => result = NoPatch
        /\ pc \notin {"idle", "classify"} =>
              /\ result.before = "original"
              /\ target.bytes = "original" \/ saved = "original"
              /\ pc = "flush" => ~result.cache_synchronized
              /\ result.cache_synchronized => "detour" \notin target.fetchable
              /\ pc = "classify_after" => (result.protection_restored <=> ~target.pending)

(* Every step, of a repair or of another owner, keeps that.                *)
LEMMA RepairingStep == IInv /\ RepairingInv /\ [Next]_vars => RepairingInv'
<1> SUFFICES ASSUME IInv, RepairingInv, [Next]_vars PROVE RepairingInv'
  OBVIOUS
<1> USE DEF IInv
<1>1. CASE \E o \in {"install", "restore", "repair"} : Begin(o)
  BY <1>1 DEF Begin, RepairingInv
<1>2. CASE ClassifyBefore
  <2>1. /\ UNCHANGED <<op, wrote, target, saved>> /\ pc = "classify"
    BY <1>2 DEF ClassifyBefore
  <2>2. \E b \in {target.bytes, "unknown"} :
          op = "repair" /\ pc' # "idle" =>
             /\ b = "original" /\ pc' = "flush"
             /\ result' = [result EXCEPT !.before = b, !.after = b]
    BY <1>2 DEF ClassifyBefore, Classify, Installing
  <2>3. result \in PatchResult
    BY DEF TypeOK
  <2>4. ASSUME op = "repair", pc' # "idle" PROVE RepairingInv'
    <3>1. /\ target.bytes = "original" /\ result = NoPatch /\ pc' = "flush"
          /\ result' = [result EXCEPT !.before = "original", !.after = "original"]
      BY <2>1, <2>2, <2>4 DEF RepairingInv
    <3>2. result'.before = "original" /\ ~result'.cache_synchronized
      BY <3>1 DEF NoPatch
    <3>3. QED BY <2>1, <3>1, <3>2 DEF RepairingInv
  <2>5. ASSUME op # "repair" \/ pc' = "idle" PROVE RepairingInv'
    BY <2>1, <2>5 DEF RepairingInv
  <2>6. QED BY <2>4, <2>5
<1>3. CASE Writable \/ Write
  BY <1>3 DEF Writable, Write, RepairInv, RepairingInv
<1>4. CASE FlushCache
  <2>1. PICK done \in BOOLEAN :
          target' = Flush(done) /\ result' = [result EXCEPT !.cache_synchronized = done]
    BY <1>4 DEF FlushCache
  <2>2. result'.before = result.before /\ (result'.cache_synchronized <=> done)
    BY <2>1 DEF TypeOK, PatchResult
  <2>3. /\ UNCHANGED <<op, wrote, saved>> /\ pc = "flush" /\ pc' = "restore_protection"
    BY <1>4 DEF FlushCache
  <2>4. target'.bytes = target.bytes /\ (done => target'.fetchable = {target.bytes})
    BY <2>1, FlushFields
  <2>5. ASSUME op = "repair" PROVE target.bytes # "detour"
    BY <2>3, <2>5 DEF RepairingInv, BytesInv
  <2>6. QED BY <2>2, <2>3, <2>4, <2>5 DEF RepairingInv
<1>5. CASE RestorePage
  <2>1. PICK done \in BOOLEAN :
          RestoreProtection(done) /\ result' = [result EXCEPT !.protection_restored = done]
    BY <1>5 DEF RestorePage
  <2>2. /\ result'.before = result.before
        /\ result'.cache_synchronized = result.cache_synchronized
        /\ result'.protection_restored <=> done
    BY <2>1 DEF TypeOK, PatchResult
  <2>3. /\ target'.bytes = target.bytes /\ target'.fetchable = target.fetchable
        /\ target'.pending <=> ~done
    BY <2>1 DEF RestoreProtection, TypeOK, Target
  <2>4. UNCHANGED <<op, wrote, saved>> /\ pc = "restore_protection" /\ pc' = "classify_after"
    BY <1>5 DEF RestorePage
  <2>5. QED BY <2>2, <2>3, <2>4 DEF RepairingInv
<1>6. CASE ClassifyAfter
  <2>1. UNCHANGED <<op, target, saved>>
    BY <1>6 DEF ClassifyAfter
  <2>2. op = "repair" => pc' = "idle" /\ (wrote' <=> wrote)
    BY <1>6, AfterFields DEF Ends, Undoes, Installing
  <2>3. QED BY <2>1, <2>2 DEF RepairingInv
<1>7. CASE ForeignHook
  <2>1. /\ UNCHANGED <<pc, op, wrote, result>> /\ saved = "none" /\ saved' = target.bytes
    BY <1>7 DEF ForeignHook, local
  <2>2. QED BY <1>7, <2>1, HookFields DEF RepairingInv
<1>8. CASE ForeignUnhook
  <2>1. /\ UNCHANGED <<pc, op, wrote, result>> /\ saved # "none"
    BY <1>8 DEF ForeignUnhook, local
  <2>2. QED BY <1>8, <2>1, UnhookFields DEF RepairingInv, BytesInv
<1>9. CASE UNCHANGED vars
  BY <1>9 DEF vars, local, RepairingInv
<1>10. QED BY <1>1, <1>2, <1>3, <1>4, <1>5, <1>6, <1>7, <1>8, <1>9 DEF Next, Step

LEMMA SpecRepairingInv == Spec => []RepairingInv
<1>1. Init => RepairingInv
  BY DEF Init, RepairingInv
<1>2. QED BY <1>1, RepairingStep, SpecIInv, PTL DEF Spec

(* A call of repair ends at a first look it does not like, or by its last. *)
LEMMA RepairEnds ==
    ASSUME IInv, RepairingInv, Next, pc # "idle", pc' = "idle", op = "repair"
    PROVE  RepairEffect(result', target')
<1> USE DEF IInv
<1>1. CASE ClassifyBefore
  <2>1. \E b \in Bytes : b # "original" /\ result' = RefusedResult(b)
    BY <1>1 DEF ClassifyBefore
  <2>2. QED BY <2>1 DEF RepairEffect, RefusedResult
<1>2. CASE ClassifyAfter
  <2>1. UNCHANGED target /\ pc = "classify_after"
    BY <1>2 DEF ClassifyAfter
  <2>2. /\ ~Installing /\ ~rollback
        /\ result.before = "original"
        /\ result.cache_synchronized => "detour" \notin target.fetchable
        /\ result.protection_restored <=> ~target.pending
    BY <2>1 DEF Installing, RepairInv, RepairingInv
  <2>3. PICK b \in {target.bytes, "unknown"} :
        /\ result'.before = result.before /\ result'.after = b
        /\ result'.committed <=> /\ b = "original" /\ result.cache_synchronized
                                 /\ result.protection_restored
        /\ Ends(b)
    BY <1>2, <2>2, AfterFields DEF Undoes
  <2>4. /\ result'.cache_synchronized <=> result.cache_synchronized
        /\ result'.protection_restored <=> result.protection_restored
    BY <2>2, <2>3 DEF Ends
  <2>5. result'.committed <=> Committed(result', "original")
    BY <2>3, <2>4 DEF Committed
  <2>6. QED BY <2>1, <2>2, <2>3, <2>4, <2>5 DEF RepairEffect
<1>3. CASE ForeignHook \/ ForeignUnhook
  BY <1>3 DEF ForeignHook, ForeignUnhook, local
<1>4. QED
  BY <1>1, <1>2, <1>3
     DEF Next, Begin, Step, Writable, Write, FlushCache, RestorePage

(* Whatever memory call fails, and whatever another owner does between two *)
(* of them, transact and repair_original_auxiliaries do to the target and  *)
(* report about it what PatchContract says, the assumption on which        *)
(* HookLifecycle takes a transaction as one step and a repair as two.      *)
THEOREM TransactHonoursContract == Spec => HonouredContract
<1> DEFINE Honoured == (pc # "idle" /\ pc' = "idle") =>
              IF op = "repair" THEN RepairEffect(result', target')
                               ELSE TransactEffect(Installing, entry, result', target')
<1>1. IInv /\ RepairingInv /\ [Next]_vars => [Honoured]_vars
  BY TransactEnds, RepairEnds
<1>2. QED BY <1>1, SpecIInv, SpecRepairingInv, PTL DEF Spec, HonouredContract

(* No step of a transaction or a repair overwrites foreign bytes.          *)
THEOREM ForeignBytesSafe == Spec => ForeignBytesKept
<1> DEFINE Kept == Step => /\ target.bytes = "unknown" => target'.bytes = "unknown"
                           /\ op = "repair" => target'.bytes = target.bytes
<1>1. IInv /\ [Next]_vars => [Kept]_vars
  <2> SUFFICES ASSUME IInv, Step PROVE Kept
    BY DEF Kept
  <2> USE DEF IInv
  <2>1. CASE Write
    <3>1. pc = "write" /\ op # "repair"
      BY <2>1 DEF Write, RepairInv
    <3>2. target.bytes # "unknown"
      BY <3>1 DEF UnderWayInv, Refused, Wanted
    <3> QED BY <3>1, <3>2
  <2>2. CASE ~Write
    <3>1. target'.bytes = target.bytes
      BY <2>2, FlushFields DEF Step, ClassifyBefore, Writable, FlushCache, RestorePage,
         RestoreProtection, ClassifyAfter, TypeOK, Target
    <3> QED BY <3>1
  <2> QED BY <2>1, <2>2
<1> QED BY <1>1, SpecIInv, PTL DEF Spec, ForeignBytesKept

-----------------------------------------------------------------------------
(* CAP4's two ways to write.  Every step of its site is one of a patch     *)
(* transaction, or none.                                                   *)
LEMMA Cap4StepIsAStep == [Cap4Next]_cap4Vars => [Next]_vars
<1> USE DEF vars, local
<1>1. OpenPage => Next
  BY DEF OpenPage, Writable, Next, Step
<1>2. StoreBytes => [Next]_vars
  BY DEF StoreBytes, Refuse, Replace, Next, Step
<1>3. Rest \/ Call \/ Others => Next
  BY DEF Rest, Call, Others, Next, Step
<1>4. Freeze \/ Thaw \/ GameFetches \/ UNCHANGED cap4Vars => UNCHANGED vars
  BY DEF Freeze, Thaw, GameFetches, cap4Vars
<1> QED BY <1>1, <1>2, <1>3, <1>4 DEF Cap4Next

(* cap4::Memory is a patch memory: both its strategies, their refusals and *)
(* the halves of their copies included, are transactions.                  *)
THEOREM Cap4IsPatchTransaction == Cap4Spec => IsPatchTransaction
<1>1. Cap4Init => Init
  BY DEF Cap4Init
<1> QED BY <1>1, Cap4StepIsAStep, PTL DEF Cap4Spec, Spec, IsPatchTransaction

(* An authorization is never older than the freeze that gave it; bytes are *)
(* written one after the other only inside such a freeze; and without it a *)
(* copying transaction has opened nothing and written nothing.             *)
AuthorizationInv ==
    /\ quiesced => stopped
    /\ half => pc = "write" /\ quiesced /\ strategy = "quiesced_copy2"
    /\ ~torn
    /\ (pc # "idle" /\ strategy = "quiesced_copy2" /\ ~stopped) =>
          pc # "write" /\ ~wrote

LEMMA AuthorizationInvariant == IInv /\ AuthorizationInv /\ [Cap4Next]_cap4Vars => AuthorizationInv'
<1> SUFFICES ASSUME IInv, AuthorizationInv, [Cap4Next]_cap4Vars PROVE AuthorizationInv'
  OBVIOUS
<1> USE DEF AuthorizationInv, owner
<1>1. CASE Freeze \/ Thaw
  BY <1>1 DEF Freeze, Thaw, vars, local
<1>2. CASE Call
  BY <1>2 DEF Call, Begin
<1>3. CASE OpenPage
  BY <1>3 DEF OpenPage, MayOpen, Writable
<1>4. CASE StoreBytes
  <2>1. UNCHANGED owner /\ torn' = torn /\ pc = "write"
    BY <1>4 DEF StoreBytes
  <2>2. stopped \/ strategy # "quiesced_copy2"
    BY <2>1
  <2>3. CASE Write /\ half' = half
    <3>1. ~half
      BY <2>3, <1>4 DEF StoreBytes, MayWrite, InOneStep, Replace, Refuse, Write, vars, local
    <3> QED BY <2>1, <2>2, <2>3, <3>1 DEF Write
  <2>4. CASE MayWrite /\ ~InOneStep /\ ~half /\ half' = TRUE /\ UNCHANGED vars
    BY <2>1, <2>2, <2>4 DEF MayWrite, InOneStep, vars, local
  <2>5. CASE MayWrite /\ half /\ Replace /\ half' = FALSE
    BY <2>1, <2>2, <2>5 DEF Replace, Write
  <2> QED BY <2>3, <2>4, <2>5, <1>4 DEF StoreBytes, Refuse, Replace
<1>5. CASE Rest
  <2>1. CASE ClassifyAfter
    BY <2>1, <1>5 DEF Rest, ClassifyAfter
  <2>2. CASE ClassifyBefore \/ FlushCache \/ RestorePage
    BY <2>2, <1>5 DEF Rest, ClassifyBefore, FlushCache, RestorePage
  <2> QED BY <2>1, <2>2, <1>5 DEF Rest
<1>6. CASE GameFetches
  BY <1>6 DEF GameFetches, vars, local
<1>7. CASE Others
  BY <1>7 DEF Others, ForeignHook, ForeignUnhook, local
<1>8. CASE UNCHANGED cap4Vars
  BY <1>8 DEF cap4Vars, vars, local
<1> QED BY <1>1, <1>2, <1>3, <1>4, <1>5, <1>6, <1>7, <1>8 DEF Cap4Next

LEMMA Cap4Invariant == Cap4Spec => [](IInv /\ AuthorizationInv)
<1>1. Cap4Init => IInv /\ AuthorizationInv
  BY InitIInv DEF Cap4Init, AuthorizationInv, Init
<1>2. (IInv /\ AuthorizationInv) /\ [Cap4Next]_cap4Vars => (IInv /\ AuthorizationInv)'
  BY Cap4StepIsAStep, IInvInvariant, AuthorizationInvariant
<1> QED BY <1>1, <1>2, PTL DEF Cap4Spec

(* CAP4's two bytes change in one step of the machine or with every other  *)
(* thread suspended, whatever the order of the site's operations.          *)
THEOREM NeverTornForCap4 == Cap4Spec => []NeverTorn
<1>1. AuthorizationInv => NeverTorn
  BY DEF AuthorizationInv, NeverTorn
<1> QED BY <1>1, Cap4Invariant, PTL

(* A copying transaction that nobody authorized changes nothing and claims *)
(* nothing: Memory::writable and Memory::write turn it away.               *)
THEOREM UnauthorizedIsHarmless == Cap4Spec => UnauthorizedChangesNothing
<1> DEFINE Asked == strategy = "quiesced_copy2" /\ ~stopped /\ pc # "idle"
           Harmless == /\ target'.bytes # target.bytes => saved' # saved
                       /\ page' = "rwx" => page = "rwx"
                       /\ pc' = "idle" /\ result'.committed
                             => entry.bytes = "original" \/ op = "repair"
<1>1. (IInv /\ AuthorizationInv) /\ [Cap4Next]_cap4Vars => [Asked => Harmless]_cap4Vars
  <2> SUFFICES ASSUME IInv, AuthorizationInv, Cap4Next, Asked PROVE Harmless
    OBVIOUS
  <2> USE DEF IInv, AuthorizationInv
  <2>1. CASE OpenPage
    BY <2>1 DEF OpenPage, MayOpen
  <2>2. CASE ClassifyBefore
    BY <2>2 DEF ClassifyBefore, RefusedResult
  <2>3. CASE FlushCache
    BY <2>3, FlushFields DEF FlushCache
  <2>4. CASE RestorePage
    <3>1. UNCHANGED <<entry, op>> /\ pc' = "classify_after"
      BY <2>4 DEF RestorePage
    <3>2. target'.bytes = target.bytes /\ (page' = page \/ page' = baseline)
      BY <2>4 DEF RestorePage, RestoreProtection, TypeOK, Target
    <3> QED BY <3>1, <3>2 DEF PageInv, BaselineIsNotOurs
  <2>5. CASE ClassifyAfter
    <3>1. UNCHANGED <<target, page>> /\ pc = "classify_after"
      BY <2>5 DEF ClassifyAfter
    <3>2. result'.committed => wrote \/ result.before = "original"
      BY <2>5, AfterFields
    <3> QED BY <3>1, <3>2 DEF UnderWayInv
  <2>6. CASE Others
    <3>1. pc' = pc /\ (page' = "rwx" => page = "rwx")
      BY <2>6 DEF Others, ForeignHook, ForeignUnhook, local
    <3>2. saved' # saved
      BY <2>6 DEF Others, ForeignHook, ForeignUnhook, TypeOK, Target
    <3> QED BY <3>1, <3>2
  <2>7. CASE GameFetches
    BY <2>7 DEF GameFetches, vars, local
  <2> QED
    BY <2>1, <2>2, <2>3, <2>4, <2>5, <2>6, <2>7
       DEF Cap4Next, Freeze, Thaw, Call, Begin, StoreBytes, Rest
<1> QED BY <1>1, Cap4Invariant, PTL DEF Cap4Spec, UnauthorizedChangesNothing

(* CAP4's owner keeps its variables in their types.                        *)
THEOREM Cap4Types == Cap4Spec => []Cap4TypeOK
<1>1. Cap4Init => Cap4TypeOK
  BY InitIInv DEF Cap4Init, Cap4TypeOK, IInv
<1>2. Cap4TypeOK /\ IInv /\ IInv' /\ [Cap4Next]_cap4Vars => Cap4TypeOK'
  <2> SUFFICES ASSUME Cap4TypeOK, IInv', [Cap4Next]_cap4Vars PROVE Cap4TypeOK'
    OBVIOUS
  <2>1. TypeOK'
    BY DEF IInv
  <2>2. /\ strategy' = strategy /\ odd' = odd
        /\ quiesced' \in BOOLEAN /\ stopped' \in BOOLEAN
        /\ half' \in BOOLEAN /\ torn' \in BOOLEAN
    BY DEF Cap4TypeOK, Cap4Next, Freeze, Thaw, Call, OpenPage, StoreBytes, Rest,
       GameFetches, Others, cap4Vars, owner
  <2> QED BY <2>1, <2>2 DEF Cap4TypeOK
<1> QED BY <1>1, <1>2, Cap4Invariant, PTL DEF Cap4Spec

-----------------------------------------------------------------------------
(* How many memory calls a transaction or a repair still makes at most: an *)
(* installation may be followed by one rollback.                           *)
MemoryCallsLeft ==
    LET toUndo == IF Installing /\ ~rollback THEN 5 ELSE 0
    IN  CASE pc = "idle" -> 0
          [] pc = "classify_after" -> 1 + toUndo
          [] pc = "restore_protection" -> 2 + toUndo
          [] pc = "flush" -> 3 + toUndo
          [] pc = "write" -> 4 + toUndo
          [] pc = "writable" -> 5 + toUndo
          [] pc = "classify" -> 6 + toUndo

MemoryCallsAdvance ==
    /\ Step => MemoryCallsLeft' < MemoryCallsLeft
    /\ ForeignHook \/ ForeignUnhook => MemoryCallsLeft' = MemoryCallsLeft

(* A failed installation is undone once: whatever fails, and whatever      *)
(* another owner does, a call makes at most eleven memory calls, six if it *)
(* does not install.                                                       *)
THEOREM TransactBounded ==
  Spec => /\ [](MemoryCallsLeft \in 0 .. 11 /\ (~Installing => MemoryCallsLeft <= 6))
          /\ [][MemoryCallsAdvance]_vars
<1>1. IInv => MemoryCallsLeft \in 0 .. 11 /\ (~Installing => MemoryCallsLeft <= 6)
  BY DEF IInv, TypeOK, MemoryCallsLeft
<1>2. IInv /\ [Next]_vars => [MemoryCallsAdvance]_vars
  <2> SUFFICES ASSUME IInv PROVE MemoryCallsAdvance
    OBVIOUS
  <2> USE DEF MemoryCallsLeft, Installing
  <2>1. ForeignHook \/ ForeignUnhook => MemoryCallsLeft' = MemoryCallsLeft
    <3>1. ForeignHook \/ ForeignUnhook => UNCHANGED <<pc, op, rollback>>
      BY DEF ForeignHook, ForeignUnhook, local
    <3>2. UNCHANGED <<pc, op, rollback>> => MemoryCallsLeft' = MemoryCallsLeft
      OBVIOUS
    <3> HIDE DEF MemoryCallsLeft
    <3>3. QED BY <3>1, <3>2
  <2>2. ClassifyBefore => MemoryCallsLeft' < MemoryCallsLeft
    BY DEF ClassifyBefore
  <2>3. Writable \/ Write => MemoryCallsLeft' < MemoryCallsLeft
    BY DEF Writable, Write
  <2>4. FlushCache \/ RestorePage => MemoryCallsLeft' < MemoryCallsLeft
    BY DEF FlushCache, RestorePage
  <2>5. ClassifyAfter => MemoryCallsLeft' < MemoryCallsLeft
    <3> SUFFICES ASSUME ClassifyAfter PROVE MemoryCallsLeft' < MemoryCallsLeft
      OBVIOUS
    <3>1. pc = "classify_after" /\ UNCHANGED op
      BY DEF ClassifyAfter
    <3>2. \/ pc' = "idle"
          \/ pc' = "writable" /\ rollback' /\ Installing /\ ~rollback
      BY DEF ClassifyAfter
    <3>3. QED BY <3>1, <3>2
  <2> HIDE DEF MemoryCallsLeft
  <2>6. QED BY <2>1, <2>2, <2>3, <2>4, <2>5 DEF MemoryCallsAdvance, Step
<1>3. QED BY <1>1, <1>2, SpecIInv, PTL DEF Spec
=============================================================================
