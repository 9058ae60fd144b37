------------------------ MODULE HookLifecycle_proofs ------------------------
(***************************************************************************)
(* Proofs about HookLifecycle, for every set of threads, of resources and  *)
(* of periods and every number of lost leases, and that it keeps           *)
(* OwnerContract, on which PluginHost and its theorems build.              *)
(***************************************************************************)
EXTENDS OwnerCalls, FiniteSetTheorems, TLAPS

(* The counter is the number of leases held plus those lost.               *)
LeasesCounted == active = Cardinality(Holders) + leaks

Served == held = Resources /\ pinned /\ (Relayed => bucket_count # 0)

Installing == call = "install" /\ pc \in {"prepare", "pin", "freeze"}

(* Where the controller's flags and resources stand at each step of a call. *)
ControlInv ==
    /\ frozen <=> pc \in {"active", "patch", "thaw"}
    /\ pc \in {"prepare", "pin"} => call = "install" /\ minutes \in Periods
    /\ pc \in {"prepare", "pin"} => phase = "prepared"
    /\ pc = "prepare" => held = {}
    /\ pc = "pin" => held = Resources
    /\ pc = "active" => call # "install"
    /\ pc # "idle" => site
    /\ pc \in {"stop", "repair", "repair_page"} => call # "install"
    /\ pc = "freeze" => published
    /\ Installing => ~may_be_live /\ ~original_verified
    /\ pc = "freeze" /\ call # "install" => may_be_live
    /\ pc \in {"active", "patch"} => may_be_live
    /\ pc \in {"cleanup", "free"} => ~may_be_live
    /\ pc \in {"repair", "repair_page"} => phase = "releasable"
    /\ pc = "free" => "unwind" \notin held
    /\ may_be_live => published
    /\ published => Served
    /\ published /\ ~may_be_live => pc = "freeze" /\ call = "install"
    /\ phase = "releasable" => ~may_be_live /\ ~published /\ held = {}
    /\ phase = "empty" => held = {}
    /\ phase = "containment" => may_be_live
    /\ phase = "detached_resources_retained" => ~may_be_live
    /\ ~site => ~may_be_live /\ ~published /\ ~original_verified /\ held = {}
    /\ original_verified => ~may_be_live
    /\ UnwindTableBacked

(* What the answer of a call and the last result stand for.                *)
AnswerInv ==
    /\ answer /\ call # "install" => pc \in {"idle", "return"}
    /\ last_patch.protection_restored => ~target.pending
    /\ pc = "return" /\ call # "install" /\ answer =>
          phase = "releasable" /\ ~target.pending
    /\ pc = "idle" /\ call # "install" /\ answer => ~site /\ ~target.pending
    /\ pc \in {"idle", "return"} /\ call = "install" /\ ~answer =>
          phase \in {"containment", "releasable", "detached_resources_retained"}
    /\ pc = "thaw" /\ call = "install" /\ ~answer /\ may_be_live =>
          phase = "containment"

(* The patch site, and the copy of its bytes another plugin may hold.      *)
TargetInv ==
    /\ target.bytes \in target.fetchable
    /\ target.bytes = "unknown" <=> saved # "none"
    /\ "unknown" \in target.fetchable => target.bytes = "unknown"
    /\ saved = "detour" => Reachable
    /\ Reachable => may_be_live
    /\ pc = "patch" /\ call = "install" => ~Reachable

(* Where threads can be.                                                   *)
ThreadInv ==
    /\ frozen => \A t \in Threads : at[t] \notin Forbidden
    /\ pc = "patch" => \A t \in Threads : at[t] \notin Transit
    /\ NoTornWindow
    /\ ~Relayed => active = 0 /\ \A t \in Threads : at[t] \notin Transit
    /\ active # 0 => may_be_live

IInv == /\ TypeOK /\ LeasesCounted /\ ControlInv /\ AnswerInv
        /\ TargetInv /\ ThreadInv

-----------------------------------------------------------------------------
(* The variables a thread step leaves alone, and those a step of the       *)
(* lifecycle or of another plugin does.                                    *)
lifecycleVars == <<controller, owner, pc, answer, native, frozen>>

(* A thread moves from where it was to l: it enters the relay only through *)
(* a fetch of the detour, the window only through one of the originals,    *)
(* and the lease counter follows it.                                       *)
Moved(t, l) ==
    /\ at' = [at EXCEPT ![t] = l]
    /\ l \in Transit => at[t] \in Transit \/ (Reachable /\ Relayed)
    /\ l = "window" => "original" \in target.fetchable
    /\ \/ at[t] \notin Holding /\ l \notin Holding /\ UNCHANGED <<active, leaks>>
       \/ at[t] \in Holding /\ l \in Holding /\ UNCHANGED <<active, leaks>>
       \/ /\ at[t] = "entry" /\ l \in Holding
          /\ active' = active + 1 /\ leaks' = leaks
       \/ /\ at[t] \in Holding /\ l \notin Holding
          /\ active' = active - 1 /\ leaks' = leaks
       \/ /\ at[t] \in Holding /\ l \notin Holding
          /\ active' = active /\ leaks' = leaks + 1 /\ leaks < MaxLeaks

(* Every step of a thread is such a move, and changes nothing else.        *)
LEMMA ThreadStepMoves ==
    ASSUME TypeOK, TargetInv, NEW t \in Threads, ThreadStep(t)
    PROVE  /\ ~frozen
           /\ UNCHANGED <<lifecycleVars, target, saved>>
           /\ \E l \in Locations : Moved(t, l)
<1> USE DEF Move, Transit, Holding, Locations, Moved
<1>0. at[t] \in Locations
  BY DEF TypeOK, GameTypeOK
<1>1. CASE Walk(t) /\ UNCHANGED <<active, leaks>>
  <2>1. CASE Fetch(t)
    BY <2>1, <1>1 DEF Fetch, Detour, Reachable, lifecycleVars
  <2>2. CASE Forward(t)
    BY <2>2, <1>1 DEF Forward, Detour, TargetInv, lifecycleVars
  <2>3. CASE ~Fetch(t) /\ ~Forward(t)
    BY <2>3, <1>1 DEF Walk, lifecycleVars
  <2> QED BY <2>1, <2>2, <2>3
<1>2. CASE Lease(t)
  BY <1>2 DEF Lease, lifecycleVars
<1>3. CASE Unlease(t)
  BY <1>3 DEF Unlease, lifecycleVars
<1>4. CASE Unwind(t)
  BY <1>4 DEF Unwind, lifecycleVars
<1> QED BY <1>1, <1>2, <1>3, <1>4 DEF ThreadStep

(* The set of lease holders follows a move, and so does its size.          *)
LEMMA HoldersFollow ==
    ASSUME TypeOK, LeasesCounted, NEW t \in Threads, NEW l \in Locations, Moved(t, l)
    PROVE  /\ LeasesCounted'
           /\ active' \in Nat /\ leaks' \in 0 .. MaxLeaks
<1>0. at \in [Threads -> Locations] /\ active \in Nat /\ leaks \in Nat /\ MaxLeaks \in Nat
  BY MaxLeaksAssumption DEF TypeOK, GameTypeOK
<1>1. IsFiniteSet(Holders) /\ Cardinality(Holders) \in Nat
  BY ThreadsAssumption, FS_Subset, FS_CardinalityType DEF Holders
<1>2. at'[t] = l /\ \A u \in Threads \ {t} : at'[u] = at[u]
  BY <1>0 DEF Moved
<1>3. CASE at[t] \in Holding /\ l \notin Holding
  <2>1. Holders' = Holders \ {t} /\ t \in Holders
    BY <1>2, <1>3 DEF Holders, Holding
  <2>2. Cardinality(Holders') = Cardinality(Holders) - 1
    BY <2>1, <1>1, FS_RemoveElement
  <2>3. Cardinality(Holders) # 0
    BY <2>1, <1>1, FS_EmptySet
  <2> QED BY <1>0, <1>1, <1>3, <2>2, <2>3 DEF Moved, LeasesCounted, TypeOK, GameTypeOK, Holding
<1>4. CASE at[t] \notin Holding /\ l \in Holding
  <2>1. Holders' = Holders \cup {t} /\ t \notin Holders
    BY <1>2, <1>4 DEF Holders, Holding
  <2>2. Cardinality(Holders') = Cardinality(Holders) + 1
    BY <2>1, <1>1, FS_AddElement
  <2> QED BY <1>0, <1>1, <1>4, <2>2 DEF Moved, LeasesCounted, TypeOK, GameTypeOK, Holding
<1>5. CASE at[t] \in Holding <=> l \in Holding
  <2>1. Holders' = Holders
    BY <1>2, <1>5 DEF Holders, Holding
  <2> QED BY <1>0, <1>1, <1>5, <2>1 DEF Moved, LeasesCounted, TypeOK, GameTypeOK, Holding
<1> QED BY <1>3, <1>4, <1>5

-----------------------------------------------------------------------------
(* What a transaction and a repair do to the types.                        *)
LEMMA RefusedResultType ==
    ASSUME NEW b \in Bytes
    PROVE  RefusedResult(b) \in PatchResult
BY DEF RefusedResult, PatchResult

(* Initially everything holds.                                             *)
LEMMA InitInv == Init => IInv
<1> SUFFICES ASSUME Init PROVE IInv
  OBVIOUS
<1> USE DEF Init
<1>1. TypeOK
  <2>1. last_patch \in PatchResult
    BY DEF PatchResult, NoPatch, Bytes
  <2>2. target \in Target
    BY DEF Target, Bytes
  <2>3. at \in [Threads -> Locations]
    BY DEF Locations
  <2>4. leaks \in 0 .. MaxLeaks
    BY MaxLeaksAssumption
  <2> QED BY <2>1, <2>2, <2>3, <2>4 DEF TypeOK, ControllerTypeOK, CallTypeOK,
        NativeTypeOK, GameTypeOK, Phases
<1>2. LeasesCounted
  <2>1. Holders = {}
    BY DEF Holders, Holding
  <2> QED BY <2>1, FS_EmptySet DEF LeasesCounted
<1>3. ControlInv
  BY DEF ControlInv, Installing, UnwindTableBacked
<1>4. AnswerInv
  BY DEF AnswerInv
<1>5. TargetInv
  BY DEF TargetInv, Reachable
<1>6. ThreadInv
  BY DEF ThreadInv, NoTornWindow, Transit
<1> QED BY <1>1, <1>2, <1>3, <1>4, <1>5, <1>6 DEF IInv

(* Each action keeps the types of what it changes: the controller and the  *)
(* call first, the resources next; the game and the saved bytes last.      *)
LEMMA ProceedControllerType ==
    ASSUME TypeOK, Proceed PROVE ControllerTypeOK'
<1> USE DEF ControllerTypeOK, Phases
<1>0. TypeOK /\ Proceed
  OBVIOUS
<1>1. CASE UNCHANGED controller
  BY <1>0, <1>1 DEF controller, TypeOK
<1>2. ASSUME phase' \in Phases, may_be_live' \in BOOLEAN, published' \in BOOLEAN,
             original_verified' \in BOOLEAN, auxiliary_pending' \in BOOLEAN,
             last_patch' \in PatchResult
      PROVE  ControllerTypeOK'
  BY <1>2
<1>3. CASE PinAndPublish \/ FreezeToInstall \/ FreezeToInstallFails
  BY <1>0, <1>3 DEF PinAndPublish, FreezeToInstall, FreezeToInstallFails, TypeOK
<1>4. CASE Patch
  <2>1. last_patch' \in PatchResult /\ auxiliary_pending' = auxiliary_pending
    BY <1>4 DEF Patch
  <2>2. /\ phase' \in {"installed", "detached_original", "containment"}
        /\ may_be_live' \in {may_be_live, FALSE}
        /\ published' \in {published, FALSE}
        /\ original_verified' \in {original_verified, TRUE}
    BY <1>4 DEF Patch, Detach
  <2> QED BY <1>0, <2>1, <2>2 DEF TypeOK
<1>5. CASE UnregisterUnwind \/ FreeAllocation
  <2>1. phase' \in {phase, "releasable", "detached_resources_retained"}
    BY <1>5 DEF UnregisterUnwind, FreeAllocation, ReclaimFails
  <2>2. UNCHANGED <<may_be_live, published, original_verified, auxiliary_pending, last_patch>>
    BY <1>5 DEF UnregisterUnwind, FreeAllocation
  <2> QED BY <1>0, <2>1, <2>2 DEF TypeOK
<1>6. CASE StopLive \/ FreezeToRestoreFails \/ CheckActive
  <2>1. phase' \in {phase, "restoring", "containment"}
    BY <1>6 DEF StopLive, FreezeToRestoreFails, CheckActive
  <2>2. UNCHANGED <<may_be_live, published, original_verified, auxiliary_pending, last_patch>>
    BY <1>6 DEF StopLive, FreezeToRestoreFails, CheckActive
  <2> QED BY <1>0, <2>1, <2>2 DEF TypeOK
<1>7. ASSUME NEW r \in PatchResult, RepairConcluded(r) PROVE ControllerTypeOK'
  <2>1. last_patch' \in PatchResult /\ auxiliary_pending' \in BOOLEAN
    BY <1>7 DEF RepairConcluded, PatchResult
  <2>2. /\ phase' \in {phase, "retained_until_exit"}
        /\ original_verified' \in {original_verified, FALSE}
        /\ UNCHANGED <<may_be_live, published>>
    BY <1>7 DEF RepairConcluded
  <2> QED BY <1>0, <2>1, <2>2 DEF TypeOK
<1>8. CASE RepairLook
  <2>1. PICK b \in {target.bytes, "unknown"} :
            UNCHANGED controller \/ RepairConcluded(RefusedResult(b))
    BY <1>8 DEF RepairLook
  <2>2. RefusedResult(b) \in PatchResult
    BY <1>0, RefusedResultType DEF TypeOK, NativeTypeOK, Target, Bytes
  <2> QED BY <2>1, <2>2, <1>1, <1>7
<1>9. CASE RepairPage
  <2>1. PICK synced \in BOOLEAN, closed \in BOOLEAN, b \in {target.bytes, "unknown"} :
            RepairConcluded([before |-> "original", after |-> b,
                             committed |-> b = "original" /\ synced /\ closed,
                             cache_synchronized |-> synced,
                             protection_restored |-> closed])
    BY <1>9 DEF RepairPage
  <2>2. [before |-> "original", after |-> b,
         committed |-> b = "original" /\ synced /\ closed,
         cache_synchronized |-> synced, protection_restored |-> closed] \in PatchResult
    BY <1>0 DEF TypeOK, NativeTypeOK, Target, Bytes, PatchResult
  <2> QED BY <2>1, <2>2, <1>7
<1>10. CASE Return
  <2>1. CASE EmptyController
    <3>1. NoPatch \in PatchResult
      BY DEF NoPatch, PatchResult, Bytes
    <3> QED BY <2>1, <3>1 DEF EmptyController
  <2>2. UNCHANGED controller \/ EmptyController
    BY <1>10 DEF Return
  <2> QED BY <2>1, <2>2, <1>1
<1>11. CASE Prepare \/ Thaw \/ StopWithoutPatch \/ FreezeToRestore
  <2>1. UNCHANGED controller
    BY <1>11 DEF Prepare, Thaw, StopWithoutPatch, FreezeToRestore
  <2> QED BY <2>1, <1>1
<1> QED BY <1>0, <1>3, <1>4, <1>5, <1>6, <1>8, <1>9, <1>10, <1>11 DEF Proceed

LEMMA ProceedCallType ==
    ASSUME TypeOK, Proceed PROVE CallTypeOK'
<1> USE DEF CallTypeOK, Goto, Answer
<1>0. TypeOK /\ Proceed
  OBVIOUS
<1>1. minutes' = minutes
  BY <1>0 DEF Proceed, Prepare, PinAndPublish, FreezeToInstall, FreezeToInstallFails,
        Patch, Thaw, UnregisterUnwind, FreeAllocation, StopWithoutPatch, StopLive,
        FreezeToRestore, FreezeToRestoreFails, CheckActive, RepairLook, RepairPage,
        Return, owner
<1>2. last_patch.protection_restored \in BOOLEAN /\ last_patch.committed \in BOOLEAN
  BY <1>0 DEF TypeOK, ControllerTypeOK, PatchResult
<1>3. CASE Prepare \/ PinAndPublish \/ FreezeToInstall \/ FreezeToInstallFails \/ Thaw
  BY <1>0, <1>3 DEF TypeOK, Prepare, PinAndPublish, FreezeToInstall,
        FreezeToInstallFails, Thaw, owner
<1>4. CASE Patch
  <2>1. answer' \in BOOLEAN /\ pc' = "thaw" /\ UNCHANGED owner
    BY <1>4 DEF Patch
  <2> QED BY <1>0, <2>1 DEF TypeOK, owner
<1>5. CASE UnregisterUnwind \/ FreeAllocation
  <2>1. /\ answer' \in BOOLEAN /\ pc' \in {"free", "return", "stop"}
        /\ UNCHANGED owner
    BY <1>0, <1>2, <1>5 DEF UnregisterUnwind, FreeAllocation, ReclaimFails,
          AfterCleanup, TypeOK
  <2> QED BY <1>0, <2>1 DEF TypeOK, owner
<1>6. CASE StopWithoutPatch
  <2>1. /\ answer' \in BOOLEAN /\ pc' \in {"repair", "return", "cleanup"}
        /\ call' \in {call, "reclaim"} /\ UNCHANGED <<site, minutes>>
    BY <1>0, <1>6 DEF StopWithoutPatch, TypeOK
  <2> QED BY <1>0, <2>1 DEF TypeOK
<1>7. CASE StopLive \/ FreezeToRestore \/ FreezeToRestoreFails \/ CheckActive
  <2>1. /\ answer' \in {answer, FALSE} /\ pc' \in {"freeze", "active", "return", "patch", "thaw"}
        /\ UNCHANGED owner
    BY <1>7 DEF StopLive, FreezeToRestore, FreezeToRestoreFails, CheckActive
  <2> QED BY <1>0, <2>1 DEF TypeOK, owner
<1>8. CASE RepairLook
  <2>1. /\ answer' \in {answer, FALSE} /\ pc' \in {"repair_page", "return"}
        /\ UNCHANGED owner
    BY <1>8 DEF RepairLook, RepairConcluded, RefusedResult
  <2> QED BY <1>0, <2>1 DEF TypeOK, owner
<1>9. CASE RepairPage
  <2>1. answer' \in BOOLEAN /\ pc' = "return" /\ UNCHANGED owner
    BY <1>9 DEF RepairPage, RepairConcluded
  <2> QED BY <1>0, <2>1 DEF TypeOK, owner
<1>10. CASE Return
  <2>1. site' \in {site, FALSE} /\ pc' = "idle" /\ UNCHANGED <<call, answer>>
    BY <1>10 DEF Return
  <2> QED BY <1>0, <1>1, <2>1 DEF TypeOK
<1> QED BY <1>0, <1>3, <1>4, <1>5, <1>6, <1>7, <1>8, <1>9, <1>10 DEF Proceed

LEMMA ProceedNativeType ==
    ASSUME TypeOK, Proceed PROVE NativeTypeOK'
<1> USE DEF NativeTypeOK
<1>0. TypeOK /\ Proceed
  OBVIOUS
<1>1. held' \subseteq Resources
  BY <1>0 DEF TypeOK, Proceed, Prepare, PinAndPublish, FreezeToInstall,
        FreezeToInstallFails, Patch, Thaw, UnregisterUnwind, FreeAllocation,
        ReclaimFails, StopWithoutPatch, StopLive, FreezeToRestore,
        FreezeToRestoreFails, CheckActive, RepairLook, RepairPage, Return, native
<1>2. pinned' \in BOOLEAN /\ bucket_count' \in Periods \cup {0}
  <2>1. CASE PinAndPublish
    BY <1>0, <2>1 DEF PinAndPublish, TypeOK, CallTypeOK
  <2>2. CASE ~PinAndPublish
    <3>1. UNCHANGED <<pinned, bucket_count>>
      BY <1>0, <2>2 DEF Proceed, Prepare, FreezeToInstall, FreezeToInstallFails,
            Patch, Thaw, UnregisterUnwind, FreeAllocation, StopWithoutPatch,
            StopLive, FreezeToRestore, FreezeToRestoreFails, CheckActive,
            RepairLook, RepairPage, Return, native
    <3> QED BY <1>0, <3>1 DEF TypeOK
  <2> QED BY <2>1, <2>2
<1>3. frozen' \in {frozen, TRUE, FALSE}
  BY <1>0 DEF Proceed, Prepare, PinAndPublish, FreezeToInstall, FreezeToInstallFails,
        Freeze, Patch, Thaw, UnregisterUnwind, FreeAllocation, StopWithoutPatch,
        StopLive, FreezeToRestore, FreezeToRestoreFails, CheckActive, RepairLook,
        RepairPage, Return
<1>4. target' \in Target
  <2>1. CASE Patch
    BY <2>1 DEF Patch
  <2>2. CASE RepairPage
    <3>1. PICK synced \in BOOLEAN, closed \in BOOLEAN :
            target' = [target EXCEPT
                         !.fetchable = IF synced THEN {target.bytes} ELSE @,
                         !.pending = ~closed]
      BY <2>2 DEF RepairPage
    <3>2. target \in [bytes: Bytes, fetchable: SUBSET Bytes, pending: BOOLEAN]
      BY <1>0 DEF TypeOK, Target
    <3>3. (IF synced THEN {target.bytes} ELSE target.fetchable) \in SUBSET Bytes
      BY <3>2
    <3> QED BY <3>1, <3>2, <3>3 DEF Target
  <2>3. CASE ~Patch /\ ~RepairPage
    <3>1. target' = target
      BY <1>0, <2>3 DEF Proceed, Prepare, PinAndPublish, FreezeToInstall,
            FreezeToInstallFails, Thaw, UnregisterUnwind, FreeAllocation,
            StopWithoutPatch, StopLive, FreezeToRestore, FreezeToRestoreFails,
            CheckActive, RepairLook, Return
    <3> QED BY <1>0, <3>1 DEF TypeOK
  <2> QED BY <2>1, <2>2, <2>3
<1> QED BY <1>0, <1>1, <1>2, <1>3, <1>4 DEF TypeOK

(* No step of a call moves a thread or another plugin.                     *)
LEMMA ProceedFrame == Proceed => UNCHANGED <<game, saved>>
BY DEF Proceed, Prepare, PinAndPublish, FreezeToInstall, FreezeToInstallFails,
       Patch, Thaw, UnregisterUnwind, FreeAllocation, StopWithoutPatch,
       StopLive, FreezeToRestore, FreezeToRestoreFails, CheckActive,
       RepairLook, RepairPage, Return

(* Every step keeps the variables in their types and the leases counted.   *)
LEMMA TypeStep == IInv /\ [Next]_vars => TypeOK' /\ LeasesCounted'
<1> SUFFICES ASSUME IInv, [Next]_vars PROVE TypeOK' /\ LeasesCounted'
  OBVIOUS
<1>0. TypeOK /\ LeasesCounted /\ TargetInv
  BY DEF IInv
<1>1. ASSUME UNCHANGED <<game, saved>> PROVE LeasesCounted' /\ GameTypeOK'
  BY <1>0, <1>1 DEF game, LeasesCounted, Holders, TypeOK, GameTypeOK
<1>2. CASE Start
  <2>1. ControllerTypeOK'
    BY <1>0, <1>2 DEF Start, TypeOK, ControllerTypeOK, Phases
  <2>2. CallTypeOK' /\ NativeTypeOK'
    BY <1>0, <1>2 DEF Start, Goto, TypeOK, CallTypeOK, NativeTypeOK, native
  <2> QED BY <2>1, <2>2, <1>1, <1>2 DEF TypeOK, Start
<1>3. CASE Stop
  BY <1>0, <1>1, <1>3 DEF Stop, Goto, TypeOK, ControllerTypeOK, CallTypeOK,
        NativeTypeOK, controller, native
<1>4. CASE Proceed
  BY <1>0, <1>1, <1>4, ProceedControllerType, ProceedCallType, ProceedNativeType,
        ProceedFrame DEF TypeOK
<1>5. ASSUME NEW t \in Threads, ThreadStep(t) PROVE TypeOK' /\ LeasesCounted'
  <2>1. PICK l \in Locations : Moved(t, l)
    BY <1>0, <1>5, ThreadStepMoves
  <2>2. UNCHANGED <<lifecycleVars, target, saved>>
    BY <1>0, <1>5, ThreadStepMoves
  <2>3. active' \in Nat /\ leaks' \in 0 .. MaxLeaks /\ LeasesCounted'
    BY <1>0, <2>1, HoldersFollow
  <2>4. GameTypeOK'
    BY <1>0, <2>1, <2>2, <2>3 DEF TypeOK, GameTypeOK, Moved
  <2>5. ControllerTypeOK' /\ CallTypeOK' /\ NativeTypeOK'
    BY <1>0, <2>2 DEF lifecycleVars, controller, owner, native, TypeOK,
          ControllerTypeOK, CallTypeOK, NativeTypeOK
  <2> QED BY <2>3, <2>4, <2>5 DEF TypeOK
<1>6. CASE ForeignHook \/ ForeignUnhook
  <2>0. /\ target \in [bytes: Bytes, fetchable: SUBSET Bytes, pending: BOOLEAN]
        /\ saved \in {"none", "original", "detour"}
        /\ target.bytes = "unknown" <=> saved # "none"
    BY <1>0 DEF TypeOK, NativeTypeOK, GameTypeOK, TargetInv, Target
  <2>1. target' \in Target /\ saved' \in {"none", "original", "detour"}
    <3>1. CASE ForeignHook
      BY <2>0, <3>1 DEF ForeignHook, Target, Bytes
    <3>2. CASE ForeignUnhook
      BY <2>0, <3>2 DEF ForeignUnhook, Target, Bytes
    <3> QED BY <1>6, <3>1, <3>2
  <2>2. UNCHANGED <<controller, owner, pc, answer, native, frozen, game>>
    BY <1>6 DEF ForeignHook, ForeignUnhook
  <2>3. ControllerTypeOK' /\ CallTypeOK' /\ NativeTypeOK' /\ GameTypeOK'
    BY <1>0, <2>1, <2>2 DEF controller, owner, native, game, TypeOK,
          ControllerTypeOK, CallTypeOK, NativeTypeOK, GameTypeOK
  <2> QED BY <1>0, <2>2, <2>3 DEF TypeOK, game, LeasesCounted, Holders
<1>7. CASE UNCHANGED vars
  BY <1>0, <1>1, <1>7 DEF vars, controller, owner, native, TypeOK,
        ControllerTypeOK, CallTypeOK, NativeTypeOK
<1> QED BY <1>2, <1>3, <1>4, <1>5, <1>6, <1>7 DEF Next

-----------------------------------------------------------------------------
(* What the controller may rely on when a transaction returns.             *)
LEMMA TransactFacts ==
    ASSUME NEW install \in BOOLEAN, NEW m \in Target, NEW n \in Target,
           NEW r \in PatchResult, TransactEffect(install, m, r, n),
           m.bytes \in m.fetchable,
           "unknown" \in m.fetchable => m.bytes = "unknown"
    PROVE  /\ n.bytes \in n.fetchable
           /\ "unknown" \in n.fetchable => n.bytes = "unknown"
           /\ m.bytes = "unknown" => n = m
           /\ m.bytes # "unknown" => n.bytes # "unknown"
           /\ r.protection_restored => ~n.pending
           /\ r.after = "original" /\ r.cache_synchronized /\ "detour" \in n.fetchable
                 => install /\ "detour" \in m.fetchable
<1>1. CASE n = m /\ r = RefusedResult(r.before)
  BY <1>1 DEF RefusedResult
<1>2. CASE ~Refused(install, r.before) /\ Performed(install, m, r, n)
  <2>1. r.before = m.bytes /\ m.bytes # "unknown"
    BY <1>2 DEF TransactEffect, Refused
  <2>2. n.bytes \in n.fetchable /\ n.bytes # "unknown"
    BY <1>2, <2>1 DEF Performed, Wanted
  <2>3. "unknown" \notin n.fetchable
    BY <1>2, <2>1 DEF Performed, Wanted
  <2>4. r.protection_restored => ~n.pending
    BY <1>2 DEF Performed
  <2>5. ASSUME r.after = "original", r.cache_synchronized, "detour" \in n.fetchable
        PROVE  install /\ "detour" \in m.fetchable
    <3>1. n.bytes = "original"
      BY <1>2, <2>5 DEF Performed
    <3> QED BY <1>2, <2>5, <3>1 DEF Performed
  <2> QED BY <2>1, <2>2, <2>3, <2>4, <2>5
<1> QED BY <1>1, <1>2 DEF TransactEffect

(* A Patch step, with the transaction and the conclusion it reached.       *)
LEMMA PatchFacts ==
    ASSUME IInv, Patch
    PROVE  /\ pc' = "thaw" /\ may_be_live
           /\ UNCHANGED <<auxiliary_pending, owner, native, frozen, game, saved>>
           /\ target'.bytes \in target'.fetchable
           /\ "unknown" \in target'.fetchable => target'.bytes = "unknown"
           /\ target.bytes = "unknown" => target' = target
           /\ target.bytes # "unknown" => target'.bytes # "unknown"
           /\ last_patch'.protection_restored => ~target'.pending
           /\ \/ /\ phase' = "installed" /\ answer' = TRUE /\ call = "install"
                 /\ UNCHANGED <<may_be_live, published, original_verified>>
              \/ /\ Detach /\ answer' = FALSE
                 /\ NoActiveCalls /\ "detour" \notin target'.fetchable
              \/ /\ phase' = "containment" /\ answer' = FALSE
                 /\ UNCHANGED <<may_be_live, published, original_verified>>
<1>0. TypeOK /\ ControlInv /\ TargetInv
  BY DEF IInv
<1>1. PICK r \in PatchResult, n \in Target :
          /\ TransactEffect(call = "install", target, r, n)
          /\ last_patch' = r /\ target' = n
          /\ \/ /\ Installed(r)
                /\ phase' = "installed" /\ answer' = TRUE
                /\ UNCHANGED <<may_be_live, published, original_verified>>
             \/ /\ Restored(r)
                /\ Detach /\ answer' = FALSE
             \/ /\ phase' = "containment" /\ answer' = FALSE
                /\ UNCHANGED <<may_be_live, published, original_verified>>
  BY DEF Patch
<1>2. /\ pc = "patch" /\ pc' = "thaw"
      /\ UNCHANGED <<auxiliary_pending, owner, native, frozen, game, saved>>
  BY DEF Patch, Goto
<1>3. target \in Target /\ target.bytes \in target.fetchable
      /\ ("unknown" \in target.fetchable => target.bytes = "unknown")
  BY <1>0 DEF TypeOK, NativeTypeOK, TargetInv
<1>4. call = "install" => "detour" \notin target.fetchable
  BY <1>0, <1>2 DEF TargetInv, Reachable
<1>5. may_be_live
  BY <1>0, <1>2 DEF ControlInv
<1> DEFINE install == call = "install"
<1>6. install \in BOOLEAN /\ TransactEffect(install, target, r, n)
  BY <1>1
<1> HIDE DEF install
<1>7. /\ n.bytes \in n.fetchable
      /\ "unknown" \in n.fetchable => n.bytes = "unknown"
      /\ target.bytes = "unknown" => n = target
      /\ target.bytes # "unknown" => n.bytes # "unknown"
      /\ r.protection_restored => ~n.pending
      /\ r.after = "original" /\ r.cache_synchronized /\ "detour" \in n.fetchable
            => install /\ "detour" \in target.fetchable
  BY <1>1, <1>3, <1>6, TransactFacts
<1>8. Restored(r) => "detour" \notin n.fetchable /\ NoActiveCalls
  BY <1>4, <1>7 DEF Restored, install
<1> QED BY <1>1, <1>2, <1>5, <1>7, <1>8 DEF Installed

(* Every step keeps the controller's flags and resources in line.          *)
LEMMA ControlStep == IInv /\ [Next]_vars => ControlInv'
<1> SUFFICES ASSUME IInv, [Next]_vars PROVE ControlInv'
  OBVIOUS
<1>0. TypeOK /\ ControlInv
  BY DEF IInv
<1>1. ASSUME UNCHANGED <<phase, may_be_live, published, original_verified>>,
             UNCHANGED <<owner, pc, native, frozen>>
      PROVE  ControlInv'
  BY <1>0, <1>1 DEF ControlInv, Served, Installing, UnwindTableBacked, owner, native
<1> USE DEF ControlInv, Served, Installing, UnwindTableBacked, controller, owner,
            native, Goto, Answer
<1>2. CASE Start
  BY <1>0, <1>2 DEF Start
<1>3. CASE Stop
  BY <1>0, <1>3 DEF Stop
<1>4. CASE Proceed
  <2>1. CASE Prepare
    <3>1. CASE pc' = "pin"
      BY <1>0, <2>1, <3>1, ResourcesAssumption DEF Prepare
    <3>2. CASE pc' = "cleanup"
      BY <1>0, <2>1, <3>2, ResourcesAssumption DEF Prepare
    <3> QED BY <2>1, <3>1, <3>2 DEF Prepare
  <2>2. CASE PinAndPublish
    <3>1. CASE pc' = "freeze"
      BY <1>0, <2>2, <3>1, PeriodsAssumption DEF PinAndPublish
    <3>2. CASE pc' = "cleanup"
      BY <1>0, <2>2, <3>2, PeriodsAssumption DEF PinAndPublish
    <3> QED BY <2>2, <3>1, <3>2 DEF PinAndPublish
  <2>3. CASE FreezeToInstall
    BY <1>0, <2>3 DEF FreezeToInstall, Freeze
  <2>4. CASE FreezeToInstallFails
    BY <1>0, <2>4 DEF FreezeToInstallFails
  <2>5. CASE Patch
    <3>1. /\ pc' = "thaw" /\ may_be_live /\ pc = "patch"
          /\ UNCHANGED <<owner, native, frozen>>
      BY <2>5, PatchFacts DEF Patch
    <3>2. CASE Detach
      BY <1>0, <3>1, <3>2 DEF Detach
    <3>3. CASE /\ phase' \in {"installed", "containment"}
               /\ UNCHANGED <<may_be_live, published, original_verified>>
      BY <1>0, <3>1, <3>3
    <3> QED BY <2>5, <3>2, <3>3, PatchFacts
  <2>6. CASE Thaw
    BY <1>0, <2>6 DEF Thaw
  <2>7. CASE UnregisterUnwind
    BY <1>0, <2>7 DEF UnregisterUnwind, ReclaimFails
  <2>8. CASE FreeAllocation
    <3>1. /\ pc = "free" /\ pc' \in {"stop", "return"}
          /\ pc' = "stop" => call # "install"
          /\ UNCHANGED <<may_be_live, published, original_verified, owner, pinned,
                         bucket_count, frozen>>
      BY <2>8 DEF FreeAllocation, AfterCleanup, ReclaimFails
    <3>2. ~may_be_live /\ ~published
      BY <1>0, <3>1
    <3>3. held' \in {held, {}}
      BY <1>0, <2>8, ResourcesAssumption DEF FreeAllocation, ReclaimFails, TypeOK, NativeTypeOK
    <3>4. CASE phase' = "releasable" /\ held' = {}
      BY <1>0, <3>1, <3>2, <3>4
    <3>5. CASE phase' = "detached_resources_retained" /\ held' = held
      BY <1>0, <3>1, <3>2, <3>5
    <3>6. phase' = "releasable" => held' = {}
      BY <1>0, <2>8, ResourcesAssumption DEF FreeAllocation, ReclaimFails, TypeOK, NativeTypeOK
    <3> QED BY <2>8, <3>4, <3>5, <3>6 DEF FreeAllocation, ReclaimFails
  <2>9. CASE StopWithoutPatch
    BY <1>0, <2>9 DEF StopWithoutPatch
  <2>10. CASE StopLive
    BY <1>0, <2>10 DEF StopLive
  <2>11. CASE FreezeToRestore
    BY <1>0, <2>11 DEF FreezeToRestore, Freeze
  <2>12. CASE FreezeToRestoreFails
    BY <1>0, <2>12 DEF FreezeToRestoreFails
  <2>13. CASE CheckActive
    BY <1>0, <2>13 DEF CheckActive
  <2>14. CASE RepairLook
    BY <1>0, <2>14 DEF RepairLook, RepairConcluded
  <2>15. CASE RepairPage
    BY <1>0, <2>15 DEF RepairPage, RepairConcluded
  <2>16. CASE Return
    <3>1. CASE Released
      BY <1>0, <2>16, <3>1 DEF Return, Released, ReleaseAllowed, EmptyController
    <3>2. CASE ~Released
      BY <1>0, <2>16, <3>2 DEF Return
    <3> QED BY <3>1, <3>2
  <2> QED BY <1>4, <2>1, <2>2, <2>3, <2>4, <2>5, <2>6, <2>7, <2>8, <2>9, <2>10,
             <2>11, <2>12, <2>13, <2>14, <2>15, <2>16 DEF Proceed
<1>5. ASSUME NEW t \in Threads, ThreadStep(t) PROVE ControlInv'
  BY <1>0, <1>1, <1>5, ThreadStepMoves DEF IInv, lifecycleVars
<1>6. CASE ForeignHook \/ ForeignUnhook
  BY <1>0, <1>1, <1>6 DEF ForeignHook, ForeignUnhook
<1>7. CASE UNCHANGED vars
  BY <1>0, <1>1, <1>7 DEF vars
<1> QED BY <1>2, <1>3, <1>4, <1>5, <1>6, <1>7 DEF Next

(* Every step keeps the answers honest.                                    *)
LEMMA AnswerStep == IInv /\ [Next]_vars => AnswerInv'
<1> SUFFICES ASSUME IInv, [Next]_vars PROVE AnswerInv'
  OBVIOUS
<1>0. TypeOK /\ ControlInv /\ AnswerInv
  BY DEF IInv
<1>1. ASSUME UNCHANGED <<phase, may_be_live, last_patch, site, call, pc, answer>>,
             target'.pending = target.pending
      PROVE  AnswerInv'
  BY <1>0, <1>1 DEF AnswerInv
<1> USE DEF AnswerInv, controller, owner, Goto, Answer
<1>2. CASE Start
  BY <1>0, <1>2 DEF Start
<1>3. CASE Stop
  BY <1>0, <1>3 DEF Stop
<1>4. CASE Proceed
  <2>1. CASE Prepare
    BY <1>0, <2>1 DEF Prepare
  <2>2. CASE PinAndPublish
    BY <1>0, <2>2 DEF PinAndPublish
  <2>3. CASE FreezeToInstall
    BY <1>0, <2>3 DEF FreezeToInstall, Freeze
  <2>4. CASE FreezeToInstallFails
    BY <1>0, <2>4 DEF FreezeToInstallFails
  <2>5. CASE Patch
    <3>1. /\ pc' = "thaw" /\ call' = call
          /\ last_patch'.protection_restored => ~target'.pending
          /\ answer' => call = "install"
      BY <2>5, PatchFacts DEF Detach
    <3>2. ~answer' /\ may_be_live' => phase' = "containment"
      BY <2>5, PatchFacts DEF Detach
    <3> QED BY <3>1, <3>2
  <2>6. CASE Thaw
    BY <1>0, <2>6 DEF Thaw
  <2>7. CASE UnregisterUnwind
    BY <1>0, <2>7 DEF UnregisterUnwind, ReclaimFails
  <2>8. CASE FreeAllocation
    BY <1>0, <2>8 DEF FreeAllocation, AfterCleanup, ReclaimFails
  <2>9. CASE StopWithoutPatch
    BY <1>0, <2>9 DEF StopWithoutPatch, RepairNeeded, ControlInv
  <2>10. CASE StopLive
    BY <1>0, <2>10 DEF StopLive
  <2>11. CASE FreezeToRestore
    BY <1>0, <2>11 DEF FreezeToRestore, Freeze
  <2>12. CASE FreezeToRestoreFails
    BY <1>0, <2>12 DEF FreezeToRestoreFails
  <2>13. CASE CheckActive
    BY <1>0, <2>13 DEF CheckActive, ControlInv
  <2>14. CASE RepairLook
    <3>1. pc = "repair" /\ phase = "releasable"
      BY <1>0, <2>14 DEF RepairLook, ControlInv
    <3>2. UNCHANGED <<site, call, target>>
      BY <2>14 DEF RepairLook
    <3>3. CASE pc' = "repair_page"
      BY <1>0, <2>14, <3>1, <3>2, <3>3 DEF RepairLook, RepairConcluded
    <3>4. CASE pc' = "return"
      <4>1. ~last_patch'.protection_restored /\ ~answer' /\ phase' \in {"releasable", "retained_until_exit"}
        <5>1. PICK b \in {target.bytes, "unknown"} :
                RepairConcluded(RefusedResult(b))
          BY <2>14, <3>4 DEF RepairLook
        <5>2. ~RefusedResult(b).protection_restored /\ ~RefusedResult(b).committed
          BY DEF RefusedResult
        <5> QED BY <3>1, <5>1, <5>2 DEF RepairConcluded
      <4> QED BY <1>0, <3>1, <3>2, <3>4, <4>1 DEF ControlInv
    <3> QED BY <2>14, <3>3, <3>4 DEF RepairLook, RepairConcluded
  <2>15. CASE RepairPage
    <3>1. pc = "repair_page" /\ phase = "releasable" /\ pc' = "return"
      BY <1>0, <2>15 DEF RepairPage, RepairConcluded, ControlInv
    <3>2. UNCHANGED <<site, call>>
      BY <2>15 DEF RepairPage
    <3>3. /\ last_patch'.protection_restored => ~target'.pending
          /\ answer' => ~target'.pending /\ phase' = "releasable"
          /\ phase' \in {"releasable", "retained_until_exit"}
      <4>1. PICK synced \in BOOLEAN, closed \in BOOLEAN, b \in {target.bytes, "unknown"} :
              /\ target' = [target EXCEPT
                               !.fetchable = IF synced THEN {target.bytes} ELSE @,
                               !.pending = ~closed]
              /\ RepairConcluded([before |-> "original", after |-> b,
                                  committed |-> b = "original" /\ synced /\ closed,
                                  cache_synchronized |-> synced,
                                  protection_restored |-> closed])
        BY <2>15 DEF RepairPage
      <4>2. target'.pending = ~closed
        BY <1>0, <4>1 DEF TypeOK, NativeTypeOK, Target
      <4>3. /\ last_patch'.protection_restored = closed
            /\ answer' = (b = "original" /\ synced /\ closed)
            /\ phase' = IF b = "original" THEN phase ELSE "retained_until_exit"
        BY <4>1 DEF RepairConcluded
      <4> QED BY <3>1, <4>2, <4>3
    <3> QED BY <1>0, <3>1, <3>2, <3>3 DEF ControlInv
  <2>16. CASE Return
    <3>1. CASE Released
      BY <1>0, <2>16, <3>1 DEF Return, Released, EmptyController, NoPatch
    <3>2. CASE ~Released
      BY <1>0, <2>16, <3>2 DEF Return, Released, ReleaseAllowed, ControlInv
    <3> QED BY <3>1, <3>2
  <2> QED BY <1>4, <2>1, <2>2, <2>3, <2>4, <2>5, <2>6, <2>7, <2>8, <2>9, <2>10,
             <2>11, <2>12, <2>13, <2>14, <2>15, <2>16 DEF Proceed
<1>5. ASSUME NEW t \in Threads, ThreadStep(t) PROVE AnswerInv'
  BY <1>0, <1>1, <1>5, ThreadStepMoves DEF IInv, lifecycleVars
<1>6. CASE ForeignHook \/ ForeignUnhook
  <2>1. target'.pending = target.pending
    BY <1>0, <1>6 DEF ForeignHook, ForeignUnhook, TypeOK, NativeTypeOK, Target
  <2> QED BY <1>1, <1>6, <2>1 DEF ForeignHook, ForeignUnhook
<1>7. CASE UNCHANGED vars
  BY <1>1, <1>7 DEF vars
<1> QED BY <1>2, <1>3, <1>4, <1>5, <1>6, <1>7 DEF Next

(* A step of a call other than a transaction or a repair leaves the target *)
(* and its route alone, and does not withdraw liveness while it is open.   *)
LEMMA TargetFrame ==
    ASSUME IInv, Start \/ Stop \/ Proceed, ~Patch, ~RepairPage
    PROVE  /\ UNCHANGED <<target, game, saved>>
           /\ Reachable => may_be_live'
<1>0. ControlInv /\ TargetInv
  BY DEF IInv
<1>1. UNCHANGED <<target, game, saved>>
  BY DEF Start, Stop, Proceed, Prepare, PinAndPublish, FreezeToInstall,
        FreezeToInstallFails, Thaw, UnregisterUnwind, FreeAllocation,
        StopWithoutPatch, StopLive, FreezeToRestore, FreezeToRestoreFails,
        CheckActive, RepairLook, Return
<1>2. may_be_live => may_be_live'
  <2>1. CASE Return
    BY <1>0, <2>1 DEF Return, Released, ReleaseAllowed, controller
  <2>2. CASE ~Return
    BY <2>2 DEF Start, Stop, Proceed, Prepare, PinAndPublish, FreezeToInstall,
          FreezeToInstallFails, Thaw, UnregisterUnwind, FreeAllocation,
          StopWithoutPatch, StopLive, FreezeToRestore, FreezeToRestoreFails,
          CheckActive, RepairLook, RepairConcluded, controller
  <2> QED BY <2>1, <2>2
<1> QED BY <1>0, <1>1, <1>2 DEF TargetInv

(* The repair flush finds the original or another owner's bytes.           *)
LEMMA RepairPageFacts ==
    ASSUME IInv, RepairPage
    PROVE  /\ ~Reachable /\ ~Reachable' /\ pc' = "return"
           /\ UNCHANGED <<owner, native, frozen, game, saved>>
           /\ target'.bytes = target.bytes
           /\ target'.fetchable \in {target.fetchable, {target.bytes}}
<1>0. TypeOK /\ ControlInv /\ TargetInv
  BY DEF IInv
<1>1. PICK synced \in BOOLEAN, closed \in BOOLEAN :
          target' = [target EXCEPT
                       !.fetchable = IF synced THEN {target.bytes} ELSE @,
                       !.pending = ~closed]
  BY DEF RepairPage
<1>2. target \in [bytes: Bytes, fetchable: SUBSET Bytes, pending: BOOLEAN]
  BY <1>0 DEF TypeOK, NativeTypeOK, Target
<1>3. /\ target'.bytes = target.bytes
      /\ target'.fetchable \in {target.fetchable, {target.bytes}}
  BY <1>1, <1>2
<1>4. pc = "repair_page" /\ pc' = "return"
  BY DEF RepairPage, RepairConcluded, Answer
<1>5. ~Reachable
  BY <1>0, <1>4 DEF ControlInv, TargetInv
<1>6. ~Reachable'
  BY <1>0, <1>3, <1>5 DEF Reachable, TargetInv
<1>7. UNCHANGED <<owner, native, frozen, game, saved>>
  BY DEF RepairPage
<1> QED BY <1>3, <1>4, <1>5, <1>6, <1>7

(* What another plugin does to the target.                                 *)
LEMMA ForeignFacts ==
    ASSUME IInv, ForeignHook \/ ForeignUnhook
    PROVE  /\ ~frozen
           /\ UNCHANGED <<controller, owner, pc, answer, native, frozen, game>>
           /\ Reachable' = Reachable
           /\ TargetInv'
           /\ "original" \in target.fetchable => "original" \in target'.fetchable
           /\ target.bytes = "unknown" /\ saved = "original" =>
                 "original" \in target'.fetchable
<1>0. TypeOK /\ ControlInv /\ TargetInv
  BY DEF IInv
<1>1. /\ target \in [bytes: Bytes, fetchable: SUBSET Bytes, pending: BOOLEAN]
      /\ saved \in {"none", "original", "detour"}
  BY <1>0 DEF TypeOK, NativeTypeOK, GameTypeOK, Target
<1>2. /\ ~frozen
      /\ UNCHANGED <<controller, owner, pc, answer, native, frozen, game>>
  BY DEF ForeignHook, ForeignUnhook
<1>3. CASE ForeignHook
  <2>1. /\ saved = "none" /\ saved' = target.bytes
        /\ target'.bytes = "unknown"
        /\ target'.fetchable = target.fetchable \cup {"unknown"}
    BY <1>1, <1>3 DEF ForeignHook
  <2>2. Reachable' = Reachable
    BY <2>1 DEF Reachable
  <2>3. TargetInv'
    BY <1>0, <1>1, <1>2, <2>1, <2>2 DEF TargetInv, Reachable, controller, owner, Bytes
  <2> QED BY <1>2, <2>1, <2>2, <2>3
<1>4. CASE ForeignUnhook
  <2>1. /\ saved # "none" /\ saved' = "none"
        /\ target'.bytes = saved
        /\ target'.fetchable = (target.fetchable \ {"unknown"}) \cup {saved}
    BY <1>1, <1>4 DEF ForeignUnhook
  <2>2. Reachable' = Reachable
    BY <1>0, <2>1 DEF Reachable, TargetInv
  <2>3. /\ target'.bytes \in target'.fetchable
        /\ target'.bytes # "unknown" /\ "unknown" \notin target'.fetchable
    BY <1>1, <2>1
  <2>4. Reachable' => may_be_live'
    BY <1>0, <1>2, <2>2 DEF TargetInv, controller
  <2>5. pc' = "patch" /\ call' = "install" => ~Reachable'
    BY <1>0, <1>2, <2>2 DEF TargetInv, owner
  <2>6. TargetInv'
    BY <2>1, <2>3, <2>4, <2>5 DEF TargetInv
  <2> QED BY <1>2, <2>1, <2>2, <2>6
<1> QED BY <1>3, <1>4

(* Every step keeps what is known of the target.                           *)
LEMMA TargetStep == IInv /\ [Next]_vars => TargetInv'
<1> SUFFICES ASSUME IInv, [Next]_vars PROVE TargetInv'
  OBVIOUS
<1>0. TypeOK /\ ControlInv /\ TargetInv
  BY DEF IInv
<1>1. CASE Patch
  BY <1>0, <1>1, PatchFacts DEF TargetInv, Reachable, Detach
<1>2. CASE RepairPage
  BY <1>0, <1>2, RepairPageFacts DEF TargetInv
<1>3. CASE (Start \/ Stop \/ Proceed) /\ ~Patch /\ ~RepairPage
  <2>1. UNCHANGED <<target, saved>> /\ (Reachable => may_be_live')
    BY <1>3, TargetFrame
  <2>2. pc' = "patch" /\ call' = "install" => ~Reachable
    <3>1. CASE FreezeToInstall
      BY <1>0, <3>1 DEF FreezeToInstall, ControlInv, Installing, TargetInv
    <3>2. CASE CheckActive
      BY <1>0, <3>2 DEF CheckActive, ControlInv, owner
    <3>3. CASE ~FreezeToInstall /\ ~CheckActive
      BY <1>3, <3>3 DEF Start, Stop, Proceed, Prepare, PinAndPublish,
            FreezeToInstallFails, Thaw, UnregisterUnwind, FreeAllocation,
            AfterCleanup, ReclaimFails, StopWithoutPatch, StopLive, FreezeToRestore,
            FreezeToRestoreFails, RepairLook, RepairConcluded, Return, Goto, Answer
    <3> QED BY <3>1, <3>2, <3>3
  <2> QED BY <1>0, <2>1, <2>2 DEF TargetInv, Reachable
<1>4. ASSUME NEW t \in Threads, ThreadStep(t) PROVE TargetInv'
  BY <1>0, <1>4, ThreadStepMoves DEF TargetInv, Reachable, lifecycleVars, controller, owner
<1>5. CASE ForeignHook \/ ForeignUnhook
  BY <1>5, ForeignFacts
<1>6. CASE UNCHANGED vars
  BY <1>0, <1>6 DEF vars, controller, owner, TargetInv, Reachable
<1> QED BY <1>1, <1>2, <1>3, <1>4, <1>5, <1>6 DEF Next, Proceed

(* While the game is suspended, a zero lease count leaves nobody on the    *)
(* way through the bridge.                                                 *)
LEMMA NobodyInTransit ==
    ASSUME IInv, frozen, NoActiveCalls
    PROVE  \A t \in Threads : at[t] \notin Transit
<1>0. TypeOK /\ LeasesCounted /\ ThreadInv
  BY DEF IInv
<1>1. CASE ~Relayed
  BY <1>0, <1>1 DEF ThreadInv
<1>2. CASE Relayed
  <2>1. active = 0 /\ leaks \in Nat
    BY <1>0, <1>2, MaxLeaksAssumption DEF NoActiveCalls, TypeOK, GameTypeOK
  <2>2. IsFiniteSet(Holders) /\ Cardinality(Holders) \in Nat
    BY ThreadsAssumption, FS_Subset, FS_CardinalityType DEF Holders
  <2>3. Cardinality(Holders) = 0
    BY <1>0, <2>1, <2>2 DEF LeasesCounted
  <2>4. Holders = {}
    BY <2>2, <2>3, FS_EmptySet
  <2>5. \A t \in Threads : at[t] \notin Forbidden
    BY <1>0 DEF ThreadInv
  <2> QED BY <1>2, <2>4, <2>5 DEF Holders, Holding, Transit, Forbidden, GameRange,
                                  RelayRange, BridgeRange
<1> QED BY <1>1, <1>2

(* A step of a call that leaves the target alone: only a freeze and the    *)
(* lease check say anything new of the threads.                            *)
LEMMA ThreadsUndisturbed ==
    ASSUME IInv, Start \/ Stop \/ Proceed, ~Patch, ~RepairPage
    PROVE  ThreadInv'
<1>0. TypeOK /\ ControlInv /\ TargetInv /\ ThreadInv
  BY DEF IInv
<1>1. UNCHANGED <<target, game, saved>> /\ (Reachable => may_be_live')
  BY TargetFrame
<1>2. UNCHANGED <<at, active, leaks>>
  BY <1>1 DEF game
<1>3. frozen' => \A t \in Threads : at[t] \notin Forbidden
  <2>1. CASE FreezeToInstall \/ FreezeToRestore
    BY <2>1 DEF FreezeToInstall, FreezeToRestore, Freeze
  <2>2. CASE ~FreezeToInstall /\ ~FreezeToRestore
    <3>1. frozen' => frozen
      BY <2>2 DEF Start, Stop, Proceed, Prepare, PinAndPublish, FreezeToInstallFails,
            Thaw, UnregisterUnwind, FreeAllocation, StopWithoutPatch, StopLive,
            FreezeToRestoreFails, CheckActive, RepairLook, Return
    <3> QED BY <1>0, <3>1 DEF ThreadInv
  <2> QED BY <2>1, <2>2
<1>4. pc' = "patch" => \A t \in Threads : at[t] \notin Transit
  <2>1. CASE FreezeToInstall
    <3>1. ~Reachable
      BY <1>0, <2>1 DEF FreezeToInstall, ControlInv, Installing, TargetInv
    <3> QED BY <1>0, <3>1 DEF ThreadInv, NoTornWindow
  <2>2. CASE CheckActive
    <3>1. frozen
      BY <1>0, <2>2 DEF CheckActive, ControlInv
    <3>2. pc' = "patch" => NoActiveCalls
      BY <2>2 DEF CheckActive, Goto
    <3> QED BY <3>1, <3>2, NobodyInTransit
  <2>3. CASE ~FreezeToInstall /\ ~CheckActive
    BY <2>3 DEF Start, Stop, Proceed, Prepare, PinAndPublish,
          FreezeToInstallFails, Thaw, UnregisterUnwind, FreeAllocation,
          AfterCleanup, ReclaimFails, StopWithoutPatch, StopLive, FreezeToRestore,
          FreezeToRestoreFails, RepairLook, RepairConcluded, Return, Goto, Answer
  <2> QED BY <2>1, <2>2, <2>3
<1>5. active # 0 => may_be_live'
  <2>1. CASE Return
    BY <1>0, <2>1 DEF Return, Released, ReleaseAllowed, controller, ThreadInv
  <2>2. CASE ~Return
    BY <1>0, <2>2 DEF ThreadInv, Start, Stop, Proceed, Prepare, PinAndPublish,
          FreezeToInstall, FreezeToInstallFails, Thaw, UnregisterUnwind,
          FreeAllocation, StopWithoutPatch, StopLive, FreezeToRestore,
          FreezeToRestoreFails, CheckActive, RepairLook, RepairConcluded, controller
  <2> QED BY <2>1, <2>2
<1>6. NoTornWindow'
  BY <1>0, <1>1, <1>2 DEF ThreadInv, NoTornWindow, Reachable
<1> QED BY <1>0, <1>2, <1>3, <1>4, <1>5, <1>6 DEF ThreadInv

(* Every step keeps the threads where they may be.                         *)
LEMMA ThreadInvStep == IInv /\ [Next]_vars => ThreadInv'
<1> SUFFICES ASSUME IInv, [Next]_vars PROVE ThreadInv'
  OBVIOUS
<1>0. TypeOK /\ ControlInv /\ TargetInv /\ ThreadInv
  BY DEF IInv
<1>1. CASE Patch
  <2>1. /\ pc = "patch" /\ frozen /\ pc' = "thaw"
        /\ UNCHANGED <<game, saved, frozen>>
    BY <1>0, <1>1, PatchFacts DEF Patch, ControlInv
  <2>2. /\ \A t \in Threads : at[t] \notin Forbidden
        /\ \A t \in Threads : at[t] \notin Transit
    BY <1>0, <2>1 DEF ThreadInv
  <2>3. \A t \in Threads : at[t] # "window"
    BY <2>2 DEF Forbidden, GameRange
  <2>4. active # 0 => may_be_live'
    BY <1>0, <1>1, PatchFacts DEF Detach, NoActiveCalls, ThreadInv
  <2> QED BY <1>0, <2>1, <2>2, <2>3, <2>4 DEF ThreadInv, NoTornWindow, game
<1>2. CASE RepairPage
  <2>1. /\ ~Reachable /\ ~Reachable' /\ pc' = "return"
        /\ UNCHANGED <<frozen, game, saved>>
        /\ target'.bytes = target.bytes
        /\ target'.fetchable \in {target.fetchable, {target.bytes}}
    BY <1>2, RepairPageFacts
  <2>2. \A t \in Threads : at[t] \notin Transit
    BY <1>0, <2>1 DEF ThreadInv, NoTornWindow
  <2>3. \A t \in Threads : at[t] = "window" =>
            "original" \in target'.fetchable \/ (target'.bytes = "unknown" /\ saved' = "original")
    <3>1. target.bytes \in Bytes /\ saved \in {"none", "original", "detour"}
      BY <1>0 DEF TypeOK, NativeTypeOK, GameTypeOK, Target
    <3>2. target.bytes = "original" \/ (target.bytes = "unknown" /\ saved = "original")
      BY <1>0, <2>1, <3>1 DEF TargetInv, Reachable, Bytes
    <3> QED BY <1>0, <2>1, <3>2 DEF ThreadInv, NoTornWindow
  <2>4. UNCHANGED <<at, active>>
    BY <2>1 DEF game
  <2>5. may_be_live' = may_be_live
    BY <1>2 DEF RepairPage, RepairConcluded
  <2>6. NoTornWindow'
    BY <2>2, <2>3, <2>4 DEF NoTornWindow
  <2> QED BY <1>0, <2>1, <2>4, <2>5, <2>6 DEF ThreadInv
<1>3. CASE (Start \/ Stop \/ Proceed) /\ ~Patch /\ ~RepairPage
  BY <1>3, ThreadsUndisturbed
<1>4. ASSUME NEW t \in Threads, ThreadStep(t) PROVE ThreadInv'
  <2>1. PICK l \in Locations : Moved(t, l)
    BY <1>0, <1>4, ThreadStepMoves
  <2>2. ~frozen /\ UNCHANGED <<lifecycleVars, target, saved>>
    BY <1>0, <1>4, ThreadStepMoves
  <2>3. UNCHANGED <<may_be_live, pc, frozen>> /\ Reachable' = Reachable
    BY <2>2 DEF lifecycleVars, controller, Reachable
  <2>4. at \in [Threads -> Locations]
    BY <1>0 DEF TypeOK, GameTypeOK
  <2>5. at'[t] = l /\ \A u \in Threads \ {t} : at'[u] = at[u]
    BY <2>1, <2>4 DEF Moved
  <2>6. l \in Transit => Relayed /\ Reachable
    BY <1>0, <2>1 DEF Moved, ThreadInv, NoTornWindow
  <2>7. NoTornWindow'
    BY <1>0, <2>1, <2>2, <2>3, <2>5, <2>6 DEF ThreadInv, NoTornWindow, Moved
  <2>8. ~Relayed => active' = 0 /\ \A u \in Threads : at'[u] \notin Transit
    <3> SUFFICES ASSUME ~Relayed
                 PROVE  active' = 0 /\ \A u \in Threads : at'[u] \notin Transit
      OBVIOUS
    <3>1. at[t] \notin Transit /\ active = 0
      BY <1>0 DEF ThreadInv
    <3>2. active' = active
      BY <2>1, <2>6, <3>1 DEF Moved, Transit, Holding
    <3> QED BY <1>0, <2>5, <2>6, <3>1, <3>2 DEF ThreadInv
  <2>9. active' # 0 => may_be_live'
    <3>1. CASE active' = active
      BY <1>0, <2>3, <3>1 DEF ThreadInv
    <3>2. CASE active' # active
      <4>1. at[t] \in Transit
        BY <2>1, <3>2 DEF Moved, Transit, Holding
      <4> QED BY <1>0, <2>3, <4>1 DEF ThreadInv, NoTornWindow, TargetInv
    <3> QED BY <3>1, <3>2
  <2>10. pc # "patch"
    BY <1>0, <2>2 DEF ControlInv
  <2> QED BY <2>2, <2>3, <2>7, <2>8, <2>9, <2>10 DEF ThreadInv
<1>5. CASE ForeignHook \/ ForeignUnhook
  <2>1. /\ ~frozen
        /\ UNCHANGED <<controller, owner, pc, answer, native, frozen, game>>
        /\ Reachable' = Reachable
        /\ "original" \in target.fetchable => "original" \in target'.fetchable
        /\ target.bytes = "unknown" /\ saved = "original" =>
                "original" \in target'.fetchable
    BY <1>5, ForeignFacts
  <2>2. UNCHANGED <<may_be_live, at, active>>
    BY <2>1 DEF controller, game
  <2>3. NoTornWindow'
    BY <1>0, <2>1, <2>2 DEF ThreadInv, NoTornWindow
  <2> QED BY <1>0, <2>1, <2>2, <2>3 DEF ThreadInv
<1>6. CASE UNCHANGED vars
  BY <1>0, <1>6 DEF vars, controller, game, ThreadInv, NoTornWindow, Reachable
<1> QED BY <1>1, <1>2, <1>3, <1>4, <1>5, <1>6 DEF Next, Proceed

-----------------------------------------------------------------------------
(* The inductive invariant holds in every reachable state.                 *)
THEOREM Inductive == Spec => []IInv
<1>1. IInv /\ [Next]_vars => IInv'
  BY TypeStep, ControlStep, AnswerStep, TargetStep, ThreadInvStep DEF IInv
<1> QED BY InitInv, <1>1, PTL DEF Spec

(* Every variable keeps its type.                                          *)
THEOREM TypeCorrect == Spec => []TypeOK
<1>1. IInv => TypeOK
  BY DEF IInv
<1> QED BY Inductive, <1>1, PTL

(* No fetch and no thread is ever led into a relay page that was freed, a  *)
(* module that was unloaded or a division by an unset period.              *)
THEOREM RouteAlwaysServed == Spec => []RouteServed
<1>1. IInv => RouteServed
  <2> SUFFICES ASSUME IInv PROVE RouteServed
    OBVIOUS
  <2>1. Users # {} => Reachable
    BY DEF IInv, ThreadInv, NoTornWindow, Users
  <2> QED BY <2>1 DEF IInv, TargetInv, ControlInv, RouteServed, Served
<1> QED BY Inductive, <1>1, PTL

(* No thread ever finds the instructions replaced under it.                *)
THEOREM NeverTornWindow == Spec => []NoTornWindow
<1>1. IInv => NoTornWindow
  BY DEF IInv, ThreadInv
<1> QED BY Inductive, <1>1, PTL

(* A lease that is held or was lost keeps the resources for good.          *)
THEOREM LeaseAlwaysRetains == Spec => []LeaseRetainsResources
<1>1. IInv => LeaseRetainsResources
  BY DEF IInv, ThreadInv, ControlInv, Served, LeaseRetainsResources
<1> QED BY Inductive, <1>1, PTL

(* A cleanup is never asked for while live or published, unwind tables are *)
(* backed by their code, and no call returns with the game suspended.      *)
THEOREM CallsKeepOrder == Spec => []CallsInOrder
<1>1. IInv => CallsInOrder
  BY DEF IInv, ControlInv, CallsInOrder, CleanupPermitted, ThreadsResumed
<1> QED BY Inductive, <1>1, PTL

(* What stop and install report when they return is true: a successful     *)
(* stop has restored everything, a failed installation has left no route   *)
(* into its resources or stays contained with all of them, and the         *)
(* original is believed in only where every fetch finds it.                *)
THEOREM AnswersHonest == Spec => []AnswersTrue
<1>1. IInv => AnswersTrue
  <2> SUFFICES ASSUME IInv PROVE AnswersTrue
    OBVIOUS
  <2>1. ControlInv /\ AnswerInv /\ TargetInv
    BY DEF IInv
  <2>2. StopMeansRestored
    BY <2>1 DEF ControlInv, AnswerInv, TargetInv, StopMeansRestored
  <2>3. FailedInstallContained
    BY <2>1 DEF ControlInv, Served, AnswerInv, TargetInv, FailedInstallContained
  <2>4. OriginalVerified
    BY <2>1 DEF ControlInv, TargetInv, OriginalVerified
  <2> QED BY <2>2, <2>3, <2>4 DEF AnswersTrue
<1> QED BY Inductive, <1>1, PTL

(* The period the bridge divides by never changes under a reader.          *)
THEOREM PeriodNeverChangesInUse == Spec => PeriodImmutable
<1>1. IInv /\ [Next]_vars =>
          (bucket_count' # bucket_count => ~Reachable /\ Users = {})
  <2> SUFFICES ASSUME IInv, [Next]_vars, bucket_count' # bucket_count
               PROVE  ~Reachable /\ Users = {}
    OBVIOUS
  <2>1. ControlInv /\ TargetInv /\ ThreadInv
    BY DEF IInv
  <2>2. PinAndPublish
    <3>1. CASE Patch
      BY <3>1 DEF Patch, native
    <3>2. CASE RepairPage
      BY <3>2 DEF RepairPage, native
    <3>3. ~\E t \in Threads : ThreadStep(t)
      BY ThreadStepMoves DEF IInv, lifecycleVars, native
    <3>4. CASE ~Patch /\ ~RepairPage
      BY <3>3, <3>4 DEF Next, vars, Start, Stop, Proceed, Prepare, FreezeToInstall,
            FreezeToInstallFails, Thaw, UnregisterUnwind, FreeAllocation,
            StopWithoutPatch, StopLive, FreezeToRestore, FreezeToRestoreFails,
            CheckActive, RepairLook, Return, ForeignHook, ForeignUnhook, native
    <3> QED BY <3>1, <3>2, <3>4
  <2>3. ~Reachable
    BY <2>1, <2>2 DEF PinAndPublish, ControlInv, Installing, TargetInv
  <2> QED BY <2>1, <2>3 DEF ThreadInv, NoTornWindow, Users
<1> QED BY Inductive, <1>1, PTL DEF Spec, PeriodImmutable

-----------------------------------------------------------------------------
(* Refinement: each step of the lifecycle is one step of ResourceLifetime, *)
(* or none.                                                                *)

(* The users change with one thread at a time, as Enter and Leave do.      *)
LEMMA MoveIsLifetimeStep ==
    ASSUME IInv, NEW t \in Threads, ThreadStep(t)
    PROVE  [Lifetime!Next]_(Lifetime!vars)
<1>0. TypeOK /\ TargetInv /\ ThreadInv
  BY DEF IInv
<1>1. PICK l \in Locations : Moved(t, l)
  BY <1>0, ThreadStepMoves
<1>2. UNCHANGED <<held, Reachable>>
  BY <1>0, ThreadStepMoves DEF lifecycleVars, native, Reachable
<1>3. at'[t] = l /\ \A u \in Threads \ {t} : at'[u] = at[u]
  BY <1>0, <1>1 DEF Moved, TypeOK, GameTypeOK
<1>4. CASE at[t] \in Transit /\ l \notin Transit
  <2>1. t \in Users /\ Users' = Users \ {t}
    BY <1>3, <1>4 DEF Users
  <2> QED BY <1>2, <2>1 DEF Lifetime!Next, Lifetime!Leave
<1>5. CASE at[t] \notin Transit /\ l \in Transit
  <2>1. t \notin Users /\ Users' = Users \cup {t} /\ Reachable
    BY <1>0, <1>1, <1>3, <1>5 DEF Users, Moved
  <2> QED BY <1>2, <2>1 DEF Lifetime!Next, Lifetime!Enter
<1>6. CASE at[t] \in Transit <=> l \in Transit
  <2>1. Users' = Users
    BY <1>3, <1>6 DEF Users
  <2> QED BY <1>2, <2>1 DEF Lifetime!vars
<1> QED BY <1>4, <1>5, <1>6

(* A call acquires, opens, closes or releases, or does none of it.         *)
LEMMA CallIsLifetimeStep ==
    ASSUME IInv, Start \/ Stop \/ Proceed
    PROVE  [Lifetime!Next]_(Lifetime!vars)
<1>0. TypeOK /\ ControlInv /\ TargetInv /\ ThreadInv
  BY DEF IInv
<1>1. ASSUME UNCHANGED <<held, target, at>> PROVE [Lifetime!Next]_(Lifetime!vars)
  BY <1>1 DEF Lifetime!vars, Reachable, Users
<1>2. ASSUME ~Reachable PROVE Users = {}
  BY <1>0, <1>2 DEF Users, ThreadInv, NoTornWindow
<1>3. ASSUME UNCHANGED <<target, at>>
      PROVE  Reachable' = Reachable /\ Users' = Users
  BY <1>3 DEF Reachable, Users
<1>4. CASE Prepare
  <2>1. held = {} /\ ~Reachable /\ UNCHANGED <<target, at>>
    BY <1>0, <1>4 DEF Prepare, ControlInv, Installing, TargetInv, game
  <2>2. held' \subseteq Resources
    BY <1>4 DEF Prepare
  <2> QED BY <1>2, <1>3, <2>1, <2>2 DEF Lifetime!Next, Lifetime!Acquire, Lifetime!Idle
<1>5. CASE Patch
  <2>1. /\ UNCHANGED <<held, at>> /\ may_be_live
        /\ pc = "patch"
    BY <1>5, PatchFacts DEF native, game, Patch
  <2>2. held = Resources
    BY <1>0, <2>1 DEF ControlInv, Served
  <2>3. Users = {} /\ Users' = Users
    BY <1>0, <2>1 DEF ThreadInv, Users
  <2>4. CASE Reachable' /\ ~Reachable
    BY <2>1, <2>2, <2>3, <2>4 DEF Lifetime!Next, Lifetime!Open, Lifetime!Idle, Reachable
  <2>5. CASE ~Reachable' /\ Reachable
    BY <2>1, <2>3, <2>5 DEF Lifetime!Next, Lifetime!Close, Reachable
  <2>6. CASE Reachable' <=> Reachable
    BY <2>1, <2>3, <2>6 DEF Lifetime!vars, Reachable
  <2> QED BY <2>4, <2>5, <2>6
<1>6. CASE RepairPage
  <2>1. ~Reachable /\ ~Reachable' /\ UNCHANGED <<held, at>>
    BY <1>6, RepairPageFacts DEF native, game
  <2> QED BY <2>1 DEF Lifetime!vars, Users, Reachable
<1>7. CASE UnregisterUnwind \/ FreeAllocation
  <2>1. ~Reachable /\ UNCHANGED <<target, at>>
    BY <1>0, <1>7 DEF UnregisterUnwind, FreeAllocation, ControlInv, TargetInv, game
  <2>2. held \subseteq Resources
    BY <1>0 DEF TypeOK, NativeTypeOK
  <2>3. \E r \in {"unwind", "allocation"} :
           /\ held' \in {held, held \ {r}}
           /\ r = "allocation" => "unwind" \notin held
    BY <1>0, <1>7 DEF UnregisterUnwind, FreeAllocation, ReclaimFails, ControlInv
  <2>4. CASE held' = held
    BY <1>3, <2>1, <2>4 DEF Lifetime!vars
  <2>5. CASE held' # held
    <3>1. PICK r \in held : held' = held \ {r} /\ (r = "allocation" => "unwind" \notin held)
      BY <2>3, <2>5
    <3> QED BY <1>2, <1>3, <2>1, <2>2, <3>1 DEF Lifetime!Next, Lifetime!Release, Lifetime!Idle
  <2> QED BY <2>4, <2>5
<1>8. CASE ~Prepare /\ ~Patch /\ ~RepairPage /\ ~UnregisterUnwind /\ ~FreeAllocation
  <2>1. UNCHANGED held
    BY <1>8 DEF Start, Stop, Proceed, PinAndPublish, FreezeToInstall,
          FreezeToInstallFails, Thaw, StopWithoutPatch, StopLive, FreezeToRestore,
          FreezeToRestoreFails, CheckActive, RepairLook, Return, native
  <2>2. UNCHANGED <<target, at>>
    BY <1>8, TargetFrame DEF game
  <2> QED BY <1>1, <2>1, <2>2
<1> QED BY <1>4, <1>5, <1>6, <1>7, <1>8

(* The lifecycle implements ResourceLifetime.                              *)
THEOREM LifetimeKept == Spec => KeepsLifetime
<1>1. Init => Lifetime!Init
  BY DEF Init, Lifetime!Init, Reachable, Users, Transit
<1>2. IInv /\ [Next]_vars => [Lifetime!Next]_(Lifetime!vars)
  <2> SUFFICES ASSUME IInv, [Next]_vars PROVE [Lifetime!Next]_(Lifetime!vars)
    OBVIOUS
  <2>1. CASE ForeignHook \/ ForeignUnhook
    BY <2>1, ForeignFacts DEF Lifetime!vars, Users, game, native
  <2>2. CASE UNCHANGED vars
    BY <2>2 DEF vars, native, game, Lifetime!vars, Reachable, Users
  <2> QED BY <2>1, <2>2, MoveIsLifetimeStep, CallIsLifetimeStep DEF Next
<1> QED BY Inductive, <1>1, <1>2, PTL DEF Spec, KeepsLifetime, Lifetime!Spec

-----------------------------------------------------------------------------
(* What a call in progress knows of the owner it began with: a detached    *)
(* one stays detached, and one that may be live is not repaired before the *)
(* next call.  Between calls, may_be_live_ shows in the phase.             *)
CallInv ==
    /\ before \in Status
    /\ phase = "installed" => may_be_live
    /\ phase = "retained_until_exit" => ~may_be_live
    /\ pc \in {"idle", "thaw", "return"} /\ may_be_live =>
          phase \in {"installed", "containment"}
    /\ pc # "idle" /\ before = "kept" => ~may_be_live
    /\ pc # "idle" /\ MayBeLive(before) =>
          /\ call # "reclaim" /\ phase # "retained_until_exit"
          /\ pc \notin {"repair", "repair_page"}
          /\ pc = "stop" => may_be_live
    /\ pc # "idle" /\ call = "install" =>
          before = "none" /\ (answer <=> phase = "installed")
    /\ pc # "idle" /\ call # "install" =>
          before # "none" /\ (phase = "installed" => pc = "stop")
    /\ pc # "idle" /\ before = "lost" =>
          /\ phase = "retained_until_exit"
          /\ pc \in {"stop", "return"} /\ ~answer

CIInv == IInv /\ CallInv

(* Within a call, what it began with is kept in mind.                      *)
LEMMA ProceedKeepsBefore ==
    ASSUME CallsNext, Proceed PROVE before' = before
<1>1. pc # "idle"
  BY DEF Proceed, Prepare, PinAndPublish, FreezeToInstall, FreezeToInstallFails,
         Patch, Thaw, UnregisterUnwind, FreeAllocation, StopWithoutPatch,
         StopLive, FreezeToRestore, FreezeToRestoreFails, CheckActive,
         RepairLook, RepairPage, Return
<1> QED BY <1>1 DEF CallsNext

(* A call keeps CallInv until it returns.                                  *)
LEMMA ProceedCallInv ==
    ASSUME CIInv, CallsNext, Proceed PROVE CallInv'
<1>0. TypeOK /\ ControlInv /\ AnswerInv /\ CallInv /\ before' = before
  BY ProceedKeepsBefore DEF CIInv, IInv
<1> USE DEF CallInv, MayBeLive, controller, owner, Goto, Answer
<1>1. CASE Prepare
  BY <1>0, <1>1 DEF Prepare
<1>2. CASE PinAndPublish
  BY <1>0, <1>2 DEF PinAndPublish
<1>3. CASE FreezeToInstall
  BY <1>0, <1>3 DEF FreezeToInstall, Freeze, ControlInv, Installing
<1>4. CASE FreezeToInstallFails
  BY <1>0, <1>4 DEF FreezeToInstallFails
<1>5. CASE Patch
  <2>1. pc = "patch" /\ pc' = "thaw" /\ call' = call
    BY <1>0, <1>5 DEF Patch
  <2> QED BY <1>0, <1>5, <2>1, PatchFacts DEF CIInv, Detach
<1>6. CASE Thaw
  BY <1>0, <1>6 DEF Thaw
<1>7. CASE UnregisterUnwind
  BY <1>0, <1>7 DEF UnregisterUnwind, ReclaimFails, ControlInv
<1>8. CASE FreeAllocation
  BY <1>0, <1>8 DEF FreeAllocation, AfterCleanup, ReclaimFails, ControlInv
<1>9. CASE StopWithoutPatch
  BY <1>0, <1>9 DEF StopWithoutPatch, ControlInv
<1>10. CASE StopLive
  BY <1>0, <1>10 DEF StopLive, ControlInv
<1>11. CASE FreezeToRestore
  BY <1>0, <1>11 DEF FreezeToRestore, Freeze
<1>12. CASE FreezeToRestoreFails
  BY <1>0, <1>12 DEF FreezeToRestoreFails
<1>13. CASE CheckActive
  BY <1>0, <1>13 DEF CheckActive, ControlInv
<1>14. CASE RepairLook
  BY <1>0, <1>14 DEF RepairLook, RepairConcluded, ControlInv
<1>15. CASE RepairPage
  <2>1. pc = "repair_page" /\ call # "install" /\ phase = "releasable"
    BY <1>0, <1>15 DEF RepairPage, ControlInv
  <2>2. /\ call' = call /\ phase' \in {phase, "retained_until_exit"}
        /\ pc' = "return" /\ UNCHANGED may_be_live
    BY <1>15 DEF RepairPage, RepairConcluded
  <2>3. before = "kept" /\ ~may_be_live
    BY <1>0, <2>1 DEF Status
  <2> QED BY <1>0, <2>1, <2>2, <2>3
<1>16. CASE Return
  BY <1>0, <1>16 DEF Return, EmptyController
<1> QED BY <1>1, <1>2, <1>3, <1>4, <1>5, <1>6, <1>7, <1>8, <1>9, <1>10,
           <1>11, <1>12, <1>13, <1>14, <1>15, <1>16 DEF Proceed

(* Every other step keeps it as well.                                      *)
LEMMA CallStep == CIInv /\ [CallsNext]_callVars => CallInv'
<1> SUFFICES ASSUME CIInv, [CallsNext]_callVars PROVE CallInv'
  OBVIOUS
<1>0. IInv /\ TypeOK /\ ControlInv /\ CallInv
  BY DEF CIInv, IInv
<1>1. ASSUME UNCHANGED <<phase, may_be_live, call, pc, answer, before>> PROVE CallInv'
  BY <1>0, <1>1 DEF CallInv
<1>2. CASE CallsNext /\ Start
  BY <1>0, <1>2 DEF CallsNext, Start, CallInv, MayBeLive, Goto, OwnerStatus, Status,
     ControlInv
<1>3. CASE CallsNext /\ Stop
  BY <1>0, <1>3 DEF CallsNext, Stop, CallInv, MayBeLive, Goto, OwnerStatus, Status,
     ControlInv, controller
<1>4. CASE CallsNext /\ Proceed
  BY <1>4, ProceedCallInv
<1>5. ASSUME CallsNext, NEW t \in Threads, ThreadStep(t) PROVE CallInv'
  <2>1. UNCHANGED lifecycleVars
    BY <1>0, <1>5, ThreadStepMoves DEF IInv
  <2> QED BY <1>1, <1>5, <2>1 DEF lifecycleVars, controller, owner, CallsNext
<1>6. CASE CallsNext /\ (ForeignHook \/ ForeignUnhook)
  BY <1>1, <1>6 DEF ForeignHook, ForeignUnhook, controller, owner, CallsNext
<1>7. CASE UNCHANGED callVars
  BY <1>1, <1>7 DEF callVars, vars, controller, owner
<1> QED BY <1>2, <1>3, <1>4, <1>5, <1>6, <1>7 DEF CallsNext, Next

(* The invariant of the calls, beside that of the lifecycle.               *)
THEOREM CallsInductive == CallsSpec => []CIInv
<1>1. CallsInit => CIInv
  BY InitInv DEF CallsInit, CIInv, CallInv, Init, Status
<1>2. CIInv /\ [CallsNext]_callVars => CIInv'
  <2> SUFFICES ASSUME CIInv, [CallsNext]_callVars PROVE CIInv'
    OBVIOUS
  <2>1. IInv /\ [Next]_vars
    BY DEF CIInv, CallsNext, callVars
  <2>2. IInv'
    BY <2>1, TypeStep, ControlStep, AnswerStep, TargetStep, ThreadInvStep DEF IInv
  <2> QED BY <2>2, CallStep DEF CIInv
<1> QED BY <1>1, <1>2, PTL DEF CallsSpec

(* The order of a call's steps holds also for the owner's calls: nothing   *)
(* in OwnerCalls moves the lifecycle.                                      *)
THEOREM OwnersCallsKeepOrder == CallsSpec => []CallsInOrder
<1>1. CIInv => CallsInOrder
  BY DEF CIInv, IInv, ControlInv, CallsInOrder, CleanupPermitted, ThreadsResumed
<1> QED BY <1>1, CallsInductive, PTL

(* Every call of an owner, through any failure on the way in, in a         *)
(* rollback, a stop or a repeated stop, answers and leaves the owner as    *)
(* OwnerContract has it, on which the plugin's entry points rely.          *)
THEOREM ContractKept == CallsSpec => KeepsOwnerContract
<1> DEFINE Kept == pc = "return" =>
              IF call = "install" THEN StartEffect(before, answer, OwnerStatus')
                                  ELSE StopEffect(before, answer, OwnerStatus')
<1>1. CIInv /\ [CallsNext]_callVars => [Kept]_pc
  <2> SUFFICES ASSUME CIInv, [CallsNext]_callVars, pc' # pc, pc = "return" PROVE Kept
    OBVIOUS
  <2>0. TypeOK /\ ControlInv /\ AnswerInv /\ CallInv
    BY DEF CIInv, IInv
  <2>1. Return
    <3>1. Next /\ pc' # pc /\ pc = "return"
      BY DEF callVars, vars, CallsNext
    <3>2. ~\E t \in Threads : ThreadStep(t)
      BY <2>0, <3>1, ThreadStepMoves DEF CIInv, IInv, lifecycleVars
    <3> QED BY <3>1, <3>2
         DEF Next, Start, Stop, ForeignHook, ForeignUnhook, Proceed, Prepare,
             PinAndPublish, FreezeToInstall, FreezeToInstallFails, Patch, Thaw,
             UnregisterUnwind, FreeAllocation, StopWithoutPatch, StopLive,
             FreezeToRestore, FreezeToRestoreFails, CheckActive, RepairLook, RepairPage
  <2>2. CASE call = "install"
    <3>1. UNCHANGED <<site, phase>> /\ site /\ before = "none"
      BY <2>0, <2>1, <2>2 DEF Return, Released, controller, ControlInv, CallInv
    <3>2. CASE answer
      BY <2>0, <2>2, <3>1, <3>2 DEF CallInv, OwnerStatus, StartEffect
    <3>3. CASE ~answer
      <4>1. phase \in {"containment", "releasable", "detached_resources_retained"}
        BY <2>0, <2>2, <3>3 DEF AnswerInv
      <4> QED BY <2>2, <3>1, <3>3, <4>1 DEF OwnerStatus, StartEffect
    <3> QED BY <3>2, <3>3
  <2>3. CASE call # "install" /\ answer
    <3>1. Released
      BY <2>0, <2>3 DEF Released, ReleaseAllowed, AnswerInv, ControlInv
    <3>2. ~site' /\ before # "lost"
      BY <2>0, <2>1, <2>3, <3>1 DEF Return, CallInv
    <3> QED BY <2>3, <3>2 DEF OwnerStatus, StopEffect
  <2>4. CASE call # "install" /\ ~answer
    <3>1. UNCHANGED <<site, phase>> /\ site /\ phase # "installed" /\ before # "none"
      BY <2>0, <2>1, <2>4 DEF Return, Released, controller, ControlInv, CallInv
    <3>2. CASE before = "lost"
      <4>1. phase = "retained_until_exit"
        BY <2>0, <3>2 DEF CallInv
      <4> QED BY <2>4, <3>1, <3>2, <4>1 DEF OwnerStatus, StopEffect, MayBeLive
    <3>3. CASE before = "kept"
      <4>1. phase # "containment"
        BY <2>0, <3>3 DEF CallInv, ControlInv
      <4> QED BY <2>4, <3>1, <3>3, <4>1 DEF OwnerStatus, StopEffect, MayBeLive
    <3>4. CASE MayBeLive(before)
      <4>1. phase # "retained_until_exit"
        BY <2>0, <3>4 DEF CallInv
      <4> QED BY <2>4, <3>1, <3>4, <4>1 DEF OwnerStatus, StopEffect
    <3> QED BY <2>0, <3>1, <3>2, <3>3, <3>4 DEF CallInv, Status, MayBeLive
  <2> QED BY <2>2, <2>3, <2>4
<1> QED BY <1>1, CallsInductive, PTL DEF CallsSpec, KeepsOwnerContract

(* Between two calls, an owner whose detour a fetch may find, or in whose  *)
(* route a thread is, is one that the status calls live or contained.      *)
InForceKnown == pc = "idle" /\ (Reachable \/ Users # {}) => MayBeLive(OwnerStatus)

(* What the entry points are told of an owner is what the game meets: a    *)
(* detour that may run, left by a failed start or stop or put back by      *)
(* another plugin, is never one of an owner taken for gone or detached.    *)
THEOREM InForceIsKnown == CallsSpec => []InForceKnown
<1>1. CIInv => InForceKnown
  <2> SUFFICES ASSUME CIInv, pc = "idle", Reachable \/ Users # {}
               PROVE  MayBeLive(OwnerStatus)
    BY DEF InForceKnown
  <2>1. may_be_live
    BY DEF CIInv, IInv, TargetInv, ThreadInv, NoTornWindow, Users
  <2>2. site /\ phase \in {"installed", "containment"}
    BY <2>1 DEF CIInv, IInv, ControlInv, CallInv
  <2> QED BY <2>2 DEF OwnerStatus, MayBeLive
<1> QED BY <1>1, CallsInductive, PTL

-----------------------------------------------------------------------------
USE DEF Goto, Answer

(* How many steps a call has still to take at most.  A stop that only      *)
(* gives resources back may call stop once more, for the page.             *)
AfterwardsAtMost == IF call = "reclaim" THEN 4 ELSE 1

CallLeft ==
    CASE pc = "idle" -> 0
      [] pc = "return" -> 1
      [] pc = "repair_page" -> 2
      [] pc = "repair" -> 3
      [] pc = "free" -> AfterwardsAtMost + 1
      [] pc = "cleanup" -> AfterwardsAtMost + 2
      [] pc = "thaw" -> 4
      [] pc = "patch" -> 5
      [] pc = "active" -> 6
      [] pc = "freeze" -> IF call = "install" THEN 6 ELSE 7
      [] pc = "pin" -> 7
      [] pc = "prepare" -> 8
      [] pc = "stop" -> IF phase \in {"releasable", "retained_until_exit"} THEN 4 ELSE 8

(* A stop that only gives resources back never comes to the patch site     *)
(* again: it calls stop a second time only when it has given back all.     *)
ReclaimInv ==
    call = "reclaim" =>
        /\ pc \in {"idle", "cleanup", "free", "stop", "repair", "repair_page", "return"}
        /\ pc = "stop" => phase = "releasable"

GameStep == (\E t \in Threads : ThreadStep(t)) \/ ForeignHook \/ ForeignUnhook

(* A step of the game leaves a call where it is.                           *)
LEMMA GameFrame == IInv /\ GameStep => UNCHANGED <<phase, may_be_live, call, pc>>
<1> SUFFICES ASSUME IInv, GameStep PROVE UNCHANGED <<phase, may_be_live, call, pc>>
  OBVIOUS
<1>1. ASSUME NEW t \in Threads, ThreadStep(t) PROVE UNCHANGED <<phase, may_be_live, call, pc>>
  BY <1>1, ThreadStepMoves DEF IInv, lifecycleVars, controller, owner
<1>2. CASE ForeignHook \/ ForeignUnhook
  BY <1>2 DEF ForeignHook, ForeignUnhook, controller, owner
<1>3. QED BY <1>1, <1>2 DEF GameStep

(* Every step keeps ReclaimInv.                                            *)
LEMMA ReclaimStep == IInv /\ ReclaimInv /\ [Next]_vars => ReclaimInv'
<1> SUFFICES ASSUME IInv, ReclaimInv, [Next]_vars PROVE ReclaimInv'
  OBVIOUS
<1>0. ControlInv
  BY DEF IInv
<1> USE DEF ReclaimInv, owner, controller
<1>1. CASE GameStep \/ UNCHANGED vars
  BY <1>1, GameFrame DEF vars
<1>2. CASE Start \/ Stop
  BY <1>2 DEF Start, Stop
<1>3. CASE Prepare \/ PinAndPublish \/ FreezeToInstall \/ FreezeToInstallFails
  BY <1>0, <1>3 DEF Prepare, PinAndPublish, FreezeToInstall, FreezeToInstallFails,
     ControlInv
<1>4. CASE Patch \/ Thaw
  BY <1>4 DEF Patch, Thaw
<1>5. CASE UnregisterUnwind
  BY <1>5 DEF UnregisterUnwind, ReclaimFails
<1>6. CASE FreeAllocation
  BY <1>6 DEF FreeAllocation, ReclaimFails, AfterCleanup
<1>7. CASE StopWithoutPatch
  BY <1>7 DEF StopWithoutPatch
<1>8. CASE StopLive
  BY <1>8 DEF StopLive
<1>9. CASE FreezeToRestore \/ FreezeToRestoreFails \/ CheckActive
  BY <1>9 DEF FreezeToRestore, FreezeToRestoreFails, CheckActive
<1>10. CASE RepairLook
  BY <1>10 DEF RepairLook, RepairConcluded
<1>11. CASE RepairPage
  BY <1>11 DEF RepairPage, RepairConcluded
<1>12. CASE Return
  BY <1>12 DEF Return
<1>13. QED BY <1>1, <1>2, <1>3, <1>4, <1>5, <1>6, <1>7, <1>8, <1>9, <1>10, <1>11,
           <1>12 DEF Next, Proceed, GameStep

(* Whichever of its calls fails, a step of the controller brings the end   *)
(* of the call nearer.                                                     *)
LEMMA StepsAdvance == IInv /\ ReclaimInv /\ Proceed => CallLeft' < CallLeft
<1> SUFFICES ASSUME IInv, ReclaimInv, Proceed PROVE CallLeft' < CallLeft
  OBVIOUS
<1>0. ControlInv
  BY DEF IInv
<1> USE DEF ReclaimInv, owner, controller, CallLeft, AfterwardsAtMost
<1>1. CASE Prepare \/ PinAndPublish
  BY <1>0, <1>1 DEF Prepare, PinAndPublish, ControlInv
<1>2. CASE FreezeToInstall \/ FreezeToInstallFails
  BY <1>2 DEF FreezeToInstall, FreezeToInstallFails
<1>3. CASE Patch
  BY <1>3 DEF Patch
<1>4. CASE Thaw
  BY <1>4 DEF Thaw
<1>5. CASE UnregisterUnwind
  BY <1>5 DEF UnregisterUnwind, ReclaimFails
<1>6. CASE FreeAllocation
  BY <1>6 DEF FreeAllocation, ReclaimFails, AfterCleanup
<1>7. CASE StopWithoutPatch
  BY <1>7 DEF StopWithoutPatch
<1>8. CASE StopLive
  BY <1>0, <1>8 DEF StopLive, ControlInv
<1>9. CASE FreezeToRestore \/ FreezeToRestoreFails \/ CheckActive
  BY <1>9 DEF FreezeToRestore, FreezeToRestoreFails, CheckActive
<1>10. CASE RepairLook
  BY <1>10 DEF RepairLook, RepairConcluded
<1>11. CASE RepairPage
  BY <1>11 DEF RepairPage, RepairConcluded
<1>12. CASE Return
  BY <1>12 DEF Return
<1>13. QED BY <1>1, <1>2, <1>3, <1>4, <1>5, <1>6, <1>7, <1>8, <1>9, <1>10, <1>11,
           <1>12 DEF Proceed

(* A call of start or stop takes at most eight steps.                      *)
THEOREM CallsBounded == CallsSpec => [](ReclaimInv /\ CallLeft \in 0 .. 8)
<1>1. CallsInit => ReclaimInv
  BY DEF CallsInit, Init, ReclaimInv
<1>2. CIInv /\ ReclaimInv /\ [CallsNext]_callVars => ReclaimInv'
  BY ReclaimStep DEF CIInv, CallsNext, callVars
<1>3. CIInv /\ ReclaimInv => ReclaimInv /\ CallLeft \in 0 .. 8
  BY DEF CIInv, IInv, TypeOK, CallTypeOK, CallLeft, AfterwardsAtMost
<1>4. QED BY <1>1, <1>2, <1>3, CallsInductive, PTL DEF CallsSpec

CallAdvances == /\ Proceed => CallLeft' < CallLeft
                /\ GameStep => CallLeft' = CallLeft

(* Whatever fails on the way, each step of a call brings its end nearer,   *)
(* and neither the game nor another plugin puts it off.  With the bound    *)
(* this is what CallReturns rests on: a stop calls itself once at most.    *)
THEOREM CallsAdvance == CallsSpec => [][CallAdvances]_callVars
<1>1. CIInv /\ ReclaimInv /\ [CallsNext]_callVars => [CallAdvances]_callVars
  BY StepsAdvance, GameFrame DEF CIInv, CallAdvances, CallLeft, AfterwardsAtMost
<1>2. CallsSpec => []ReclaimInv
  BY CallsBounded, PTL
<1>3. QED BY <1>1, <1>2, CallsInductive, PTL DEF CallsSpec

-----------------------------------------------------------------------------
(* The freeze that the lifecycle takes as one step is the atomic freeze    *)
(* that SuspendedThreads implements: ThreadFreeze's ImplementsAtomicFreeze *)
(* has the other side.                                                     *)
Quiescence == INSTANCE AtomicFreeze WITH
                 alive <- Threads, inside <- {t \in Threads : at[t] \in Forbidden}

(* A call suspends the game only through a freeze of that kind, with no    *)
(* thread in a forbidden range, and none moves until it is thawed.         *)
THEOREM FreezesAtomically == Spec => Quiescence!Spec
<1>1. Init => Quiescence!Init
  BY DEF Init, Quiescence!Init
<1>2. IInv /\ [Next]_vars => [Quiescence!Next]_(Quiescence!vars)
  <2> SUFFICES ASSUME IInv, [Next]_vars PROVE [Quiescence!Next]_(Quiescence!vars)
    OBVIOUS
  <2> USE DEF Quiescence!Next, Quiescence!vars
  <2>1. CASE \E t \in Threads : ThreadStep(t)
    BY <2>1, ThreadStepMoves DEF IInv, lifecycleVars, Quiescence!Run
  <2>2. CASE ForeignHook \/ ForeignUnhook
    BY <2>2, ForeignFacts DEF game
  <2>3. CASE FreezeToInstall \/ FreezeToRestore
    BY <2>3 DEF FreezeToInstall, FreezeToRestore, Freeze, game, Quiescence!Freeze
  <2>4. CASE Thaw
    BY <2>4 DEF Thaw, game, Quiescence!Thaw
  <2>5. CASE /\ Start \/ Stop \/ Proceed
             /\ ~FreezeToInstall /\ ~FreezeToRestore /\ ~Thaw
    <3>1. UNCHANGED frozen
      BY <2>5 DEF Start, Stop, Proceed, Prepare, PinAndPublish, FreezeToInstallFails,
         Patch, UnregisterUnwind, FreeAllocation, StopWithoutPatch, StopLive,
         FreezeToRestoreFails, CheckActive, RepairLook, RepairPage, Return
    <3>2. UNCHANGED at
      BY <2>5, ProceedFrame DEF Start, Stop, game
    <3>3. QED BY <3>1, <3>2
  <2>6. CASE UNCHANGED vars
    BY <2>6 DEF vars, game
  <2>7. QED BY <2>1, <2>2, <2>3, <2>4, <2>5, <2>6 DEF Next
<1>3. QED BY <1>1, <1>2, Inductive, PTL DEF Spec, Quiescence!Spec

-----------------------------------------------------------------------------
RepairConcludes == (RepairLook \/ RepairPage) /\ pc' = "return"

(* The repair that the lifecycle takes as two steps reports what           *)
(* PatchContract has repair_original_auxiliaries report; PatchTransaction  *)
(* is proved to keep that contract call by call.                           *)
THEOREM RepairsByContract ==
  Spec => [][RepairConcludes => RepairEffect(last_patch', target')]_vars
<1>1. IInv /\ [Next]_vars => [RepairConcludes => RepairEffect(last_patch', target')]_vars
  <2> SUFFICES ASSUME IInv, RepairConcludes PROVE RepairEffect(last_patch', target')
    OBVIOUS
  <2>0. TypeOK
    BY DEF IInv
  <2>1. CASE RepairLook
    <3>1. PICK b \in {target.bytes, "unknown"} :
             b # "original" /\ RepairConcluded(RefusedResult(b))
      BY <2>1 DEF RepairConcludes, RepairLook, Goto
    <3>2. QED BY <3>1 DEF RepairConcluded, RepairEffect, RefusedResult
  <2>2. CASE RepairPage
    <3>1. PICK synced \in BOOLEAN, closed \in BOOLEAN, b \in {target.bytes, "unknown"} :
          /\ target' = [target EXCEPT
                           !.fetchable = IF synced THEN {target.bytes} ELSE @,
                           !.pending = ~closed]
          /\ RepairConcluded([before |-> "original", after |-> b,
                              committed |-> b = "original" /\ synced /\ closed,
                              cache_synchronized |-> synced,
                              protection_restored |-> closed])
      BY <2>2 DEF RepairPage
    <3>2. target'.bytes = target.bytes /\ target'.pending = ~closed
      BY <2>0, <3>1 DEF TypeOK, NativeTypeOK, Target
    <3>3. "detour" \notin target'.fetchable
      BY <2>2, RepairPageFacts DEF Reachable
    <3> DEFINE r == [before |-> "original", after |-> b,
                     committed |-> b = "original" /\ synced /\ closed,
                     cache_synchronized |-> synced,
                     protection_restored |-> closed]
    <3>4. last_patch' = r
      BY <3>1 DEF RepairConcluded
    <3>5. /\ r.before = "original" /\ r.after = b /\ r.cache_synchronized = synced
          /\ r.protection_restored = closed
          /\ r.committed <=> b = "original" /\ synced /\ closed
      OBVIOUS
    <3>6. r.committed <=> Committed(r, "original")
      BY <3>5 DEF Committed
    <3> HIDE DEF r
    <3>7. r.protection_restored <=> ~target'.pending
      BY <3>2, <3>5
    <3>8. QED BY <3>2, <3>3, <3>4, <3>5, <3>6, <3>7 DEF RepairEffect
  <2>3. QED BY <2>1, <2>2 DEF RepairConcludes
<1>2. QED BY <1>1, Inductive, PTL DEF Spec
=============================================================================
