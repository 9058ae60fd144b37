--------------------------- MODULE HookLifecycle ---------------------------
(***************************************************************************)
(* lifecycle::Controller (src/src/hook_lifecycle.cpp) with the owner that  *)
(* drives it (RefreshSpread or Cap4Patch) and the game threads that run    *)
(* through the patched instructions while it works.                        *)
(*                                                                         *)
(* One step is one Operations call with the controller's conclusions from  *)
(* it.  Steps taken with all other threads suspended stay separate, so     *)
(* that what is true between them can be stated, but no thread moves there.*)
(* Every Operations call that can report a failure may fail at any time.   *)
(***************************************************************************)
EXTENDS PatchContract, FiniteSets

CONSTANTS
    Threads,    \* the game's threads
    Resources,  \* what prepare() acquires: {} for CAP4, {"allocation"} for
                \* the refresh spread; the controller also knows "unwind"
    Periods,    \* the refresh_spread_minutes a start may be given
    MaxLeaks    \* bound: leases lost to exceptions that unwind the bridge

ASSUME ThreadsAssumption == IsFiniteSet(Threads)
ASSUME ResourcesAssumption ==
    /\ Resources \subseteq {"unwind", "allocation"}
    /\ "unwind" \in Resources => "allocation" \in Resources
ASSUME PeriodsAssumption == Periods \subseteq Nat \ {0}
ASSUME MaxLeaksAssumption == MaxLeaks \in Nat

VARIABLES
    \* lifecycle::Controller
    phase, may_be_live, published, original_verified, auxiliary_pending,
    last_patch,
    \* the owner: site_ # nullptr, and the minutes its Site was built with
    site, minutes,
    \* the call in progress: its kind, the next step, the value it returns
    call, pc, answer,
    \* what Operations acts on
    held,          \* resources acquired and not given back
    pinned,        \* the module can no longer be unloaded
    bucket_count,  \* cmf_refresh_spread_bucket_count
    frozen,        \* every thread but the caller is suspended
    target,        \* the patched instructions (PatchContract)
    \* the game, and another plugin that hooks the same instructions
    at,            \* where each thread is
    active,        \* cmf_refresh_spread_active
    leaks,         \* leases lost so far
    saved          \* the bytes the other plugin replaced, or "none"

controller == <<phase, may_be_live, published, original_verified,
                auxiliary_pending, last_patch>>
owner == <<site, minutes, call>>
native == <<held, pinned, bucket_count>>
game == <<at, active, leaks>>
vars == <<controller, owner, pc, answer, native, frozen, target, game, saved>>

Phases == {"empty", "prepared", "installing", "installed", "restoring",
           "detached_original", "containment", "releasable",
           "detached_resources_retained", "retained_until_exit"}

(* Where a game thread may be.                                             *)
(*   sweep   in the function that holds the target, before it              *)
(*   window  between two of the original instructions at the target        *)
(*   foreign in the code of another plugin that hooked the target          *)
(*   relay   in the allocated relay page, jumping to the bridge            *)
(*   entry   in the bridge, before its LOCK INC                            *)
(*   leased  in the bridge, between LOCK INC and LOCK DEC                  *)
(*   handler in exception dispatch out of the leased part of the bridge    *)
(*   exit    in the bridge, after its LOCK DEC                             *)
(*   gate    returned into the detour's own bytes, before its JRCXZ        *)
(*   body    in the rest of the function;  callee  in a function it calls  *)
Locations == {"out", "sweep", "window", "foreign", "relay", "entry", "leased",
              "handler", "exit", "gate", "body", "callee"}

Transit == {"relay", "entry", "leased", "handler", "exit", "gate"}
Holding == {"leased", "handler"}

Users == {t \in Threads : at[t] \in Transit}
Holders == {t \in Threads : at[t] \in Holding}

(* The address ranges freeze() refuses to find a thread in.                *)
GameRange == {"sweep", "window", "gate", "body"}
RelayRange == {"relay"}
BridgeRangeShort == {"entry", "leased"}                               \* mutant
BridgeRange == {"entry", "leased", "exit"}

Relayed == "allocation" \in Resources
ForbiddenNewCode == IF Relayed THEN RelayRange \cup BridgeRange ELSE {} \* mutant
Forbidden == IF Relayed THEN GameRange \cup RelayRange \cup BridgeRange
                        ELSE GameRange

ControllerTypeOK ==
    /\ phase \in Phases
    /\ may_be_live \in BOOLEAN /\ published \in BOOLEAN
    /\ original_verified \in BOOLEAN /\ auxiliary_pending \in BOOLEAN
    /\ last_patch \in PatchResult

CallTypeOK ==
    /\ site \in BOOLEAN /\ minutes \in Periods \cup {0}
    /\ call \in {"install", "restore", "reclaim"}
    /\ pc \in {"idle", "prepare", "pin", "freeze", "active", "patch", "thaw",
               "cleanup", "free", "stop", "repair", "repair_page", "return"}
    /\ answer \in BOOLEAN

NativeTypeOK ==
    /\ held \subseteq Resources /\ pinned \in BOOLEAN
    /\ bucket_count \in Periods \cup {0}
    /\ frozen \in BOOLEAN
    /\ target \in Target

GameTypeOK ==
    /\ at \in [Threads -> Locations]
    /\ active \in Nat /\ leaks \in 0 .. MaxLeaks
    /\ saved \in {"none", "original", "detour"}

TypeOK == ControllerTypeOK /\ CallTypeOK /\ NativeTypeOK /\ GameTypeOK

EmptyController ==
    /\ phase' = "empty"
    /\ may_be_live' = FALSE /\ published' = FALSE
    /\ original_verified' = FALSE /\ auxiliary_pending' = FALSE
    /\ last_patch' = NoPatch

Init ==
    /\ phase = "empty"
    /\ may_be_live = FALSE /\ published = FALSE
    /\ original_verified = FALSE /\ auxiliary_pending = FALSE
    /\ last_patch = NoPatch
    /\ site = FALSE /\ minutes = 0
    /\ call = "reclaim" /\ pc = "idle" /\ answer = TRUE
    /\ held = {} /\ pinned = FALSE /\ bucket_count = 0
    /\ frozen = FALSE
    /\ target = [bytes |-> "original", fetchable |-> {"original"}, pending |-> FALSE]
    /\ at = [t \in Threads |-> "out"] /\ active = 0 /\ leaks = 0
    /\ saved = "none"

Goto(label) == pc' = label
Answer(value) == answer' = value /\ pc' = "return"

-----------------------------------------------------------------------------
(* Starting: the owner has no site, builds one and calls install(true).    *)

Start ==
    /\ pc = "idle" /\ ~site
    /\ site' = TRUE
    /\ minutes' \in Periods
    /\ call' = "install"
    /\ phase' = "prepared"
    /\ answer' = FALSE
    /\ Goto("prepare")
    /\ UNCHANGED <<may_be_live, published, original_verified, auxiliary_pending,
                   last_patch, native, frozen, target, game, saved>>

(* The target is classified once more; a failure may come after the relay  *)
(* page was allocated.                                                     *)
Prepare ==
    /\ pc = "prepare"
    /\ \/ /\ target.bytes = "original"
          /\ held' = Resources
          /\ Goto("pin")
       \/ /\ held' \in SUBSET Resources
          /\ "unwind" \in held' => "allocation" \in held'
          /\ Goto("cleanup")
    /\ UNCHANGED <<controller, owner, answer, pinned, bucket_count, frozen,
                   target, game, saved>>

PinAndPublish ==
    /\ pc = "pin"
    /\ \/ /\ pinned' = TRUE
          /\ bucket_count' = IF Relayed THEN minutes ELSE bucket_count
          /\ published' = TRUE
          /\ Goto("freeze")
       \/ /\ Goto("cleanup")
          /\ UNCHANGED <<pinned, bucket_count, published>>
    /\ UNCHANGED <<phase, may_be_live, original_verified, auxiliary_pending,
                   last_patch, owner, answer, held, frozen, target, game, saved>>

(* SuspendedThreads::acquire, as one step: it reports success only with    *)
(* every other thread suspended outside the forbidden ranges.              *)
Freeze ==
    /\ \A t \in Threads : at[t] \notin Forbidden
    /\ frozen' = TRUE

(* may_be_live_ is set before the first call that can change the target.   *)
FreezeToInstall ==
    /\ pc = "freeze" /\ call = "install"
    /\ Freeze
    /\ phase' = "installing"
    /\ may_be_live' = TRUE
    /\ Goto("patch")
    /\ UNCHANGED <<published, original_verified, auxiliary_pending, last_patch,
                   owner, answer, native, target, game, saved>>

FreezeToInstallFails ==
    /\ pc = "freeze" /\ call = "install"
    /\ published' = FALSE
    /\ Goto("cleanup")
    /\ UNCHANGED <<phase, may_be_live, original_verified, auxiliary_pending,
                   last_patch, owner, answer, native, frozen, target, game, saved>>

-----------------------------------------------------------------------------
(* The transaction, with the game suspended, and what it leads to.         *)

NoActiveCallsUnread == TRUE                                            \* mutant
NoActiveCalls == IF Relayed THEN active = 0 ELSE TRUE

Installed(r) == call = "install" /\ r.committed /\ r.after = "detour"
RestoredUnsynchronized(r) == r.after = "original" /\ NoActiveCalls     \* mutant
Restored(r) == r.after = "original" /\ r.cache_synchronized /\ NoActiveCalls

Detach ==
    /\ original_verified' = TRUE
    /\ may_be_live' = FALSE
    /\ phase' = "detached_original"
    /\ published' = FALSE

Patch ==
    /\ pc = "patch"
    /\ \E r \in PatchResult, n \in Target :
          /\ TransactEffect(call = "install", target, r, n)
          /\ last_patch' = r
          /\ target' = n
          /\ \/ /\ Installed(r)
                /\ phase' = "installed" /\ answer' = TRUE
                /\ UNCHANGED <<may_be_live, published, original_verified>>
             \/ /\ ~Installed(r) /\ Restored(r)
                /\ Detach /\ answer' = FALSE
             \/ /\ ~Installed(r) /\ ~Restored(r)
                /\ phase' = "containment" /\ answer' = FALSE
                /\ UNCHANGED <<may_be_live, published, original_verified>>
    /\ Goto("thaw")
    /\ UNCHANGED <<auxiliary_pending, owner, native, frozen, game, saved>>

(* Only a detached controller goes on to give its resources back.          *)
Thaw ==
    /\ pc = "thaw"
    /\ frozen' = FALSE
    /\ Goto(IF may_be_live THEN "return" ELSE "cleanup")
    /\ UNCHANGED <<controller, owner, answer, native, target, game, saved>>

-----------------------------------------------------------------------------
(* Controller::cleanup.  Its first guard, may_be_live_ || published_, is   *)
(* never true where it is called: CleanupPermitted.                        *)

ReclaimFails == /\ phase' = "detached_resources_retained"
                /\ answer' = FALSE /\ Goto("return")
                /\ held' = held

UnregisterUnwind ==
    /\ pc = "cleanup"
    /\ \/ /\ held' = held \ {"unwind"}
          /\ Goto("free")
          /\ UNCHANGED <<phase, answer>>
       \/ "unwind" \in held /\ ReclaimFails
    /\ UNCHANGED <<may_be_live, published, original_verified, auxiliary_pending,
                   last_patch, owner, pinned, bucket_count, frozen, target,
                   game, saved>>

(* What the caller of a successful cleanup does: install reports failure,  *)
(* a restoration also needs the page protection back, and a late cleanup   *)
(* that still misses it calls stop once more.                              *)
AfterCleanup ==
    IF call = "reclaim" /\ ~last_patch.protection_restored
    THEN Goto("stop") /\ UNCHANGED answer
    ELSE Answer(call # "install" /\ last_patch.protection_restored)

FreeAllocationStaysDetached ==                                        \* mutant
    /\ pc = "free"
    /\ held' = held \ {"allocation"}
    /\ AfterCleanup
    /\ UNCHANGED <<controller, owner, pinned, bucket_count, frozen, target,
                   game, saved>>

FreeAllocation ==
    /\ pc = "free"
    /\ \/ /\ held' = held \ {"allocation"}
          /\ phase' = "releasable"
          /\ AfterCleanup
       \/ "allocation" \in held /\ ReclaimFails
    /\ UNCHANGED <<may_be_live, published, original_verified, auxiliary_pending,
                   last_patch, owner, pinned, bucket_count, frozen, target,
                   game, saved>>

-----------------------------------------------------------------------------
(* Stopping: the owner's stop() with a site calls Controller::stop.        *)

Stop ==
    /\ pc = "idle" /\ site
    /\ call' = "restore"
    /\ answer' = FALSE
    /\ Goto("stop")
    /\ UNCHANGED <<controller, site, minutes, native, frozen, target, game, saved>>

RepairOnlyRetried == auxiliary_pending                                \* mutant
RepairNeeded == ~last_patch.protection_restored \/ auxiliary_pending

StopWithoutPatch ==
    /\ pc = "stop"
    /\ \/ /\ phase = "releasable"
          /\ IF RepairNeeded THEN Goto("repair") /\ UNCHANGED answer
                             ELSE Answer(TRUE)
          /\ UNCHANGED call
       \/ /\ phase = "retained_until_exit"
          /\ Answer(FALSE)
          /\ UNCHANGED call
       \/ /\ phase \notin {"releasable", "retained_until_exit"}
          /\ ~may_be_live /\ ~published
          /\ call' = "reclaim"
          /\ Goto("cleanup") /\ UNCHANGED answer
    /\ UNCHANGED <<controller, site, minutes, native, frozen, target, game, saved>>

StopLive ==
    /\ pc = "stop"
    /\ phase \notin {"releasable", "retained_until_exit"}
    /\ may_be_live \/ published
    /\ phase' = "restoring"
    /\ Goto("freeze")
    /\ UNCHANGED <<may_be_live, published, original_verified, auxiliary_pending,
                   last_patch, owner, answer, native, frozen, target, game, saved>>

FreezeToRestore ==
    /\ pc = "freeze" /\ call = "restore"
    /\ Freeze
    /\ Goto("active")
    /\ UNCHANGED <<controller, owner, answer, native, target, game, saved>>

FreezeToRestoreFails ==
    /\ pc = "freeze" /\ call = "restore"
    /\ phase' = "containment"
    /\ Answer(FALSE)
    /\ UNCHANGED <<may_be_live, published, original_verified, auxiliary_pending,
                   last_patch, owner, native, frozen, target, game, saved>>

CheckActiveWithoutThaw ==                                             \* mutant
    /\ pc = "active"
    /\ IF NoActiveCalls
       THEN Goto("patch") /\ UNCHANGED <<phase, answer>>
       ELSE Answer(FALSE) /\ phase' = "containment"
    /\ UNCHANGED <<may_be_live, published, original_verified, auxiliary_pending,
                   last_patch, owner, native, frozen, target, game, saved>>

CheckActive ==
    /\ pc = "active"
    /\ IF NoActiveCalls
       THEN Goto("patch") /\ UNCHANGED phase
       ELSE Goto("thaw") /\ phase' = "containment"
    /\ UNCHANGED <<may_be_live, published, original_verified, auxiliary_pending,
                   last_patch, owner, answer, native, frozen, target, game, saved>>

-----------------------------------------------------------------------------
(* repair_original_auxiliaries, with the game and the other plugin running *)
(* between its two looks at the bytes.                                     *)

RepairConcluded(r) ==
    /\ last_patch' = r
    /\ auxiliary_pending' = ~r.committed
    /\ IF r.before = "original" /\ r.after = "original"
       THEN UNCHANGED <<phase, original_verified>>
       ELSE phase' = "retained_until_exit" /\ original_verified' = FALSE
    /\ Answer(r.committed)
    /\ UNCHANGED <<may_be_live, published>>

RepairLook ==
    /\ pc = "repair"
    /\ \E b \in {target.bytes, "unknown"} :
          IF b = "original"
          THEN Goto("repair_page") /\ UNCHANGED <<controller, answer>>
          ELSE RepairConcluded(RefusedResult(b))
    /\ UNCHANGED <<owner, native, frozen, target, game, saved>>

RepairPage ==
    /\ pc = "repair_page"
    /\ \E synced, closed \in BOOLEAN, b \in {target.bytes, "unknown"} :
          /\ closed \/ target.pending
          /\ target' = [target EXCEPT
                           !.fetchable = IF synced THEN {target.bytes} ELSE @,
                           !.pending = ~closed]
          /\ RepairConcluded([before |-> "original", after |-> b,
                              committed |-> b = "original" /\ synced /\ closed,
                              cache_synchronized |-> synced,
                              protection_restored |-> closed])
    /\ UNCHANGED <<owner, native, frozen, game, saved>>

(* The owner's answer.  A successful stop that may be released destroys    *)
(* the site and resets the controller for the next start.                  *)
ReleaseAllowed == ~may_be_live /\ ~published /\ phase \in {"empty", "releasable"}
ReleasedAlways == call # "install"                                   \* mutant
Released == call # "install" /\ answer /\ ReleaseAllowed

Return ==
    /\ pc = "return"
    /\ Goto("idle")
    /\ IF Released
       THEN site' = FALSE /\ EmptyController
       ELSE UNCHANGED <<site, controller>>
    /\ UNCHANGED <<minutes, call, answer, native, frozen, target, game, saved>>

-----------------------------------------------------------------------------
(* The game.  The fetch at the target may see any value not yet flushed.   *)

Move(t, from, to) ==
    /\ ~frozen
    /\ at[t] \in from
    /\ \E l \in to : at' = [at EXCEPT ![t] = l]
    /\ UNCHANGED <<controller, owner, pc, answer, native, frozen, target, saved>>

Detour == IF Relayed THEN {"relay"} ELSE {"body"}
Fetch(t) ==
    \/ "original" \in target.fetchable /\ Move(t, {"sweep"}, {"window"})
    \/ "detour" \in target.fetchable /\ Move(t, {"sweep"}, Detour)
    \/ "unknown" \in target.fetchable /\ Move(t, {"sweep"}, {"foreign"})

(* The other plugin forwards to what it replaced, or does not.             *)
Forward(t) ==
    Move(t, {"foreign"}, {"body"} \cup IF saved = "detour" THEN Detour ELSE {})

Walk(t) ==
    \/ Move(t, {"out"}, {"sweep"})
    \/ Fetch(t)
    \/ Forward(t)
    \/ Move(t, {"window"}, {"body", "out"})
    \/ Move(t, {"relay"}, {"entry"})
    \/ Move(t, {"leased"}, {"handler"})
    \/ Move(t, {"handler"}, {"leased"})
    \/ Move(t, {"exit"}, {"gate"})
    \/ Move(t, {"gate"}, {"body", "out"})
    \/ Move(t, {"body"}, {"callee", "out"})
    \/ Move(t, {"callee"}, {"body"})

LeaseUncounted(t) == Move(t, {"entry"}, {"leased"}) /\ UNCHANGED <<active, leaks>> \* mutant
Lease(t) == Move(t, {"entry"}, {"leased"}) /\ active' = active + 1 /\ UNCHANGED leaks
Unlease(t) == Move(t, {"leased"}, {"exit"}) /\ active' = active - 1 /\ UNCHANGED leaks

(* An exception raised in the bridge unwinds its frame: the lease is lost. *)
Unwind(t) ==
    /\ leaks < MaxLeaks
    /\ Move(t, {"handler"}, {"out"})
    /\ leaks' = leaks + 1
    /\ UNCHANGED active

ThreadStep(t) == \/ Walk(t) /\ UNCHANGED <<active, leaks>>
                 \/ Lease(t) \/ Unlease(t) \/ Unwind(t)

(* Another plugin hooks the target and later removes its hook, once no     *)
(* thread is left in its code; its threads are suspended like all others.  *)
ForeignHook ==
    /\ ~frozen /\ saved = "none"
    /\ saved' = target.bytes
    /\ target' = [target EXCEPT !.bytes = "unknown", !.fetchable = @ \cup {"unknown"}]
    /\ UNCHANGED <<controller, owner, pc, answer, native, frozen, game>>

ForeignUnhook ==
    /\ ~frozen /\ saved # "none"
    /\ \A t \in Threads : at[t] # "foreign"
    /\ target' = [target EXCEPT !.bytes = saved,
                                !.fetchable = (@ \ {"unknown"}) \cup {saved}]
    /\ saved' = "none"
    /\ UNCHANGED <<controller, owner, pc, answer, native, frozen, game>>

-----------------------------------------------------------------------------
Proceed ==
    \/ Prepare \/ PinAndPublish
    \/ FreezeToInstall \/ FreezeToInstallFails
    \/ Patch \/ Thaw \/ UnregisterUnwind \/ FreeAllocation
    \/ StopWithoutPatch \/ StopLive
    \/ FreezeToRestore \/ FreezeToRestoreFails \/ CheckActive
    \/ RepairLook \/ RepairPage \/ Return

Next ==
    \/ Start \/ Stop \/ Proceed
    \/ \E t \in Threads : ThreadStep(t)
    \/ ForeignHook \/ ForeignUnhook

Spec == Init /\ [][Next]_vars

-----------------------------------------------------------------------------
(* A fetch at the target may lead into the relay and the bridge.           *)
Reachable == "detour" \in target.fetchable

(* As long as a fetch may find the detour, or a thread is on its way       *)
(* through the relay, the bridge and back, the relay page exists, the      *)
(* module cannot be unloaded and the bridge has a period to divide by --   *)
(* whatever failed, whoever hooked the target, whatever is retried.        *)
RouteServed ==
    (Reachable \/ Users # {}) =>
        held = Resources /\ pinned /\ (Relayed => bucket_count # 0)

(* A thread inside the replaced instructions finds the ones it came for:   *)
(* neither is the detour written under a thread between two originals, nor *)
(* the originals under one that returns into the detour.                   *)
NoTornWindow ==
    \A t \in Threads :
       /\ at[t] = "window" => \/ "original" \in target.fetchable
                              \/ target.bytes = "unknown" /\ saved = "original"
       /\ at[t] \in Transit => Reachable

(* An outstanding lease, of a thread in the bridge or of one that unwound  *)
(* out of it, keeps every resource for good.                               *)
LeaseRetainsResources == active # 0 => may_be_live /\ held = Resources

(* cleanup() never finds itself refused as live or published: its callers  *)
(* have detached, or were never exposed.                                   *)
CleanupPermitted == pc \in {"cleanup", "free"} => ~may_be_live /\ ~published

(* An unwind table never outlives the code it describes.                   *)
UnwindTableBacked == "unwind" \in held => "allocation" \in held

(* No call leaves the game suspended.                                      *)
ThreadsResumed == pc \in {"idle", "cleanup", "repair"} => ~frozen

(* The steps of a call depend on their order: cleanup() is not refused as  *)
(* live or published, no unwind table outlives its code, and the game is   *)
(* resumed wherever the transaction failed.                                *)
CallsInOrder == CleanupPermitted /\ UnwindTableBacked /\ ThreadsResumed

(* A stop that reports success has restored everything: bytes, cache,      *)
(* page, resources, controller -- also when it took several calls.         *)
StopMeansRestored ==
    (pc = "idle" /\ call # "install" /\ answer) =>
        ~site /\ ~Reachable /\ held = {} /\ ~target.pending

(* A failed installation either left no route into its resources or keeps  *)
(* serving it in containment until a stop succeeds.                        *)
FailedInstallContained ==
    (pc = "idle" /\ call = "install" /\ ~answer) =>
        \/ phase = "containment" /\ published /\ held = Resources
        \/ phase \in {"releasable", "detached_resources_retained"} /\ ~Reachable

(* original_verified is only claimed while no fetch can find the detour.   *)
OriginalVerified == original_verified => ~Reachable

(* What the controller reports can be relied on, over any sequence of      *)
(* failed, contained and repeated calls: a successful stop, a failed       *)
(* installation and the claim of a verified original.                      *)
AnswersTrue == StopMeansRestored /\ FailedInstallContained /\ OriginalVerified

(* The period the bridge divides by never changes while a thread could be  *)
(* reading it ("immutable installed startup period").                      *)
PeriodImmutable ==
    [][bucket_count' # bucket_count => ~Reachable /\ Users = {}]_vars

Lifetime == INSTANCE ResourceLifetime WITH route <- Reachable, users <- Users

(* The lifecycle keeps the promise of ResourceLifetime.                    *)
KeepsLifetime == Lifetime!Spec
=============================================================================
