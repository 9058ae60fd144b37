# A model of the ETS2 Cargo Market Fix

The plugin (`src/src/`) is loaded by the game as an SCS telemetry plugin. It
patches two places of the running game: CAP4 replaces a two byte branch, the
refresh spread replaces nine or eight bytes by a `CALL` into a relay page and
from there into an assembly bridge that narrows a loop over the company list.
Everything difficult about it is in doing that under a running game and undoing
it again: other threads run through the bytes that change, other plugins hook
the same bytes, and every Windows call on the way may fail.

## 1. The system

| part | code | state | operations | talks to |
|---|---|---|---|---|
| lifecycle controller | `hook_lifecycle.cpp/.h` `Controller` | `phase_`, `may_be_live_`, `published_`, `original_verified_`, `auxiliary_pending_`, `pinned_`, `last_patch_` | `install`, `stop`, `cleanup`, `detach`, `release_allowed` | an `Operations` of its owner |
| patch transaction | `hook_lifecycle.cpp` `transact`, `change`, `repair_original_auxiliaries` | the `PatchResult` being filled | install, restore, rollback, repair | a `PatchMemory` |
| patch memory | `hook_platform.cpp` `WindowsPatchMemory`, `pin_hook_module` | the bytes, page protection, `baseline_`, `pending_` | `classify`, `writable`, `write`, `flush`, `restore_protection`, pin | Windows |
| quiescence | `hook_quiescence.h` `SuspendedThreads` | suspended handles and ids | `acquire`, `release` | Windows, every thread of the process |
| refresh spread | `refresh_spread.cpp/.h` | the site, its relay page, the published period | `start`, `stop`, the site's `Operations` | controller, bridge |
| bridges | `refresh_spread_bridge*.asm` | `cmf_refresh_spread_active`, `cmf_refresh_spread_bucket_count` | one call per normal sweep | the game's loop |
| CAP4 | `cap4_patch.cpp/.h` | the site | `start`, `stop` | controller |
| plugin entry | `main.cpp` | both owners, a mutex, the logger | `init`, `shutdown` | all of the above |
| image validation | `readable`, `validate_image`, `validate_site_image` | - | walk the memory, match the signature | the loaded game |
| configuration | `config.*` | settings | parse, refuse | a file |
| build identification, build table | `build_info.*`, `fix_builds.h` | handles of the hashing; the descriptors | find the path, hash the file, look up | Windows |
| logger | `logger.*` | path, stream, count and limit of bytes, last flush | open, configure, write, flush, close | a file |
| release packaging, tests | `src/tools`, `src/tests` | - | - | - |

What is hard, and what makes each part correct:

* *Controller.* Any step may fail, on the way in, in a rollback, in a stop, in a
  stop repeated later. Correct: as long as an instruction fetch or a thread may
  reach the relay, the relay, the module and the period are there; a failed call
  says so and keeps what may still be needed; a successful stop has undone all.
* *Transaction.* A report never claims more than the memory shows, and bytes of
  another owner are never written.
* *Patch memory.* The page gets back the protection it had before the first
  change, and is never lost from the books while it is open.
* *Threads.* None is inside the replaced instructions, in the relay, in the
  bridge or on the way back when the bytes change; and every thread counts, also
  those created while the others are being suspended.
* *Bridges.* Exact balanced partition of the list, no element added, no empty
  loop entered; a refresh for every company in every undisturbed cycle.
* *Search for a relay page.* Every page that was given is known, the `CALL` of the
  detour reaches it, and the search gives up only after trying every place.
* *Image validation.* Nothing outside the image is read whatever its headers
  hold, and exactly the known build, with one copy of the signature, passes.
* *Build identification.* A build is named only by the digest of all of the file,
  at its whole path; every handle is closed however the hashing fails; and what
  is named has a descriptor that fits.
* *Logger.* The limit holds whatever order the calls come in; the count that keeps
  it never falls behind the file.
* *Entry points and configuration.* What `init` answers is true of both owners;
  nothing is installed that the file does not ask for in full, nothing over the
  remains of an earlier session, the spread only over an installed CAP4; and CAP4
  goes first only under a spread whose own stop, tried before, has failed.

The full list of hazards, each at its line, is in `PROJECT.json`.

## 2. The modules

| module | models | extends / instance of |
|---|---|---|
| `PatchContract` | `Bytes`, `PatchResult`, and what one transaction may do and report | |
| `PatchTransaction` | `transact`, `change`, `repair_original_auxiliaries` over `WindowsPatchMemory`, one memory call per step | `PatchContract` |
| `Cap4Site` | `cap4::Site` and `cap4::Memory`: both write strategies byte by byte, and the authorization of a freeze | `PatchTransaction`, which it refines |
| `PatchTransaction_proofs` | theorems about both | `Cap4Site` |
| `ResourceLifetime` | abstract: what the lifecycle promises the game | |
| `HookLifecycle` | `Controller` with its owner, the game's threads, the bridge's lease, another plugin | `PatchContract`, refines `ResourceLifetime` |
| `OwnerContract` | what one start or stop of an owner may do to it, as the entry points see it | |
| `OwnerCalls` | `HookLifecycle` call by call, with the owner's status before the call as a history variable, and the fairness of calls | `HookLifecycle`, `OwnerContract` |
| `HookLifecycle_proofs` | theorems about both | `OwnerCalls` |
| `AtomicFreeze` | abstract: a freeze and a thaw of the process as one step each | |
| `ThreadFreeze` | `SuspendedThreads::acquire` and `release`, one Windows call per step, and the threads of the process | refines `AtomicFreeze` |
| `ThreadFreeze_proofs` | theorems about it | `ThreadFreeze` |
| `PluginConfig` | `load_config` and the two refusals | |
| `PluginHost` | `scs_telemetry_init`, `scs_telemetry_shutdown` over two owners | `PluginConfig`, `OwnerContract` |
| `PluginHostMC` | the files the run tries | `PluginHost` |
| `PluginHost_proofs` | theorems about it and about the build identification | `PluginHost`, `BuildIdentity` |
| `SpreadBridge` | the arithmetic of the three bridges | |
| `BridgeCalls` | the bridges called with any registers, against a counting reference | `SpreadBridge` |
| `RefreshSweep` | the game's sweep, minute after minute | `SpreadBridge` |
| `RefreshSweep_proofs` | theorems about bridge, calls and sweep | `RefreshSweep`, `BridgeCalls` |
| `RelaySearch` | `Site::prepare`'s search for a page near the target, and `free_allocation` | |
| `RelaySearchMC`, `RelaySearch_proofs` | the addresses of the run; theorems | `RelaySearch` |
| `ReadableWalk` | `readable()`, one `VirtualQuery` per step | |
| `ImageScan` | `validate_image` and `validate_site_image`, part by part and window by window | |
| `ImageScanMC`, `ImageScan_proofs` | the images of the run; theorems about the scan and the walk | `ImageScan`, `ReadableWalk` |
| `BuildTable` | the seven descriptors, the layouts, the release targets, the lookup | |
| `BuildIdentity` | `process_executable_path`, `sha256_file`, `identify` | `BuildTable` |
| `Logger` | `Logger`, over a text stream that may fail, with crashes and edited files | |
| `LoggerMC`, `Logger_proofs` | a bound on the files for the run; theorems | `Logger` |

### PatchTransaction and PatchContract

A step is one call of `PatchMemory`; `pc` names the call about to be made.
`target` holds the bytes, the values an instruction fetch may still see
(`fetchable`: more than one until the cache is flushed) and `pending_`; `page`
is the protection. `change` and the already-original path of `transact` and
`repair_original_auxiliaries` share their tail (flush, restore_protection,
classify), and so do the actions. Every call may fail where the Windows call
behind it may. `write` refuses as well: `WindowsPatchMemory`'s only for `unknown`,
which is never asked for, but CAP4's for reasons of its own. `classify` may
answer `unknown` for any bytes, as it does when `VirtualQuery` fails. Another
owner hooks and unhooks between calls and, because repair runs without
quiescence, between the steps of a repair.

`PatchContract!TransactEffect` is the relation between the target before and
after and the result. `HookLifecycle` takes it as one atomic step, since the
controller calls `patch()` only with every other thread suspended;
`RepairEffect` is the same for a repair, which the controller makes without a freeze
and `HookLifecycle` in two steps. `HonouredContract` checks that the small-step
transaction stays within both.

### Cap4Site

CAP4 puts a `Memory` of its own in front of `WindowsPatchMemory`, with two ways to
write: an exchange of the aligned word (builds 1.57 to 1.59), or a copy of two
bytes that is only allowed while `quiesced_` says that a freeze is in force.
`OpenPage` and `StoreBytes` are `Memory::writable` and `Memory::write` with their
guards; `Freeze` and `Thaw` set and reset the authorization; the site's operations
are called in any order, also where the controller never would. The copy, and an
exchange across an odd address, are two steps, between which `GameFetches` may
see `half` of the pair. `IsPatchTransaction` is the refinement that carries the
contract of `PatchTransaction` over to both strategies, refusals included.

The guard in `Site::prepare` that turns odd addresses away for the exchange is
`Cap4SiteFits` in `BuildTable`; here odd addresses stay in, to see that `write`
refuses them too.

### HookLifecycle

One action per call of `Operations`, with the conclusions the controller draws
from it:

| code | actions |
|---|---|
| `RefreshSpread::start`, `Cap4Patch::start`, `install` | `Start`, `Prepare`, `PinAndPublish`, `FreezeToInstall` or `FreezeToInstallFails`, `Patch`, `Thaw` |
| `cleanup` | `UnregisterUnwind`, `FreeAllocation` |
| `stop` | `Stop`, `StopWithoutPatch` or `StopLive`, `FreezeToRestore` or `FreezeToRestoreFails`, `CheckActive`, `Patch`, `Thaw` |
| the repair branch of `stop` | `RepairLook`, `RepairPage` |
| the owner's `stop`: `~Site`, `controller_ = Controller{}` | `Return` |
| `lock inc`, `lock dec` | `Lease`, `Unlease` |
| an exception that unwinds the bridge's frame | `Unwind` |
| game code around the target, relay, bridge, exception dispatch | `Walk` |
| another plugin | `ForeignHook`, `ForeignUnhook` |

`at` says where each thread is; the locations that `freeze()` refuses are
`GameRange`, `RelayRange`, `BridgeRange`, and for CAP4 the first only. `gate` is
the detour's own bytes after the `CALL`, to which the bridge returns; it lies in
the game's range. `callee` and `out` lie in no range: a thread may be suspended
there.

The one parameter that tells the owners apart is `Resources`: `{"allocation"}`
is the refresh spread, `{}` is CAP4, and `{"unwind", "allocation"}` an owner that
also registers an unwind table, which the controller supports although neither
owner of this repository does (`has_unwind()` is false in both).

Left out on purpose: `reason_`, `recording()` (empty in both owners),
`clear_continuation()` (empty in both owners; `published_` itself is kept), the
configuration and image checks before a start (they either return before any
state changes or pass), and `abandon_until_exit`, which nothing calls. The first
guard of `cleanup` (live or published) is not an action either: `CallsInOrder`
states, and the proofs show, that it never fires. `pinned` is never reset, as
the pin cannot be undone.

The modules build on one another where the code does, by contracts:
`PatchTransaction` keeps the contracts that `HookLifecycle` uses for its one-step
transaction and its two-step repair, `ThreadFreeze` implements `AtomicFreeze`, and so
does the freeze that `HookLifecycle` takes as one step; and `HookLifecycle`,
seen through `OwnerCalls`, keeps the contract that `PluginHost` uses for its
one-step `start` and `stop`. A refused image is a failed start there, and the build that
was recognised a choice at each `init`. `RelaySearch`, the image scan, the build
identification and the logger stand on their own.

### ThreadFreeze and AtomicFreeze

| code | actions |
|---|---|
| `acquire`: entry, `CreateToolhelp32Snapshot` | `Acquire`, `TakeSnapshot` |
| an entry whose id is in `ids_` | `SkipKnown` |
| `OpenThread`, `SuspendThread` of another, while there is room | `Suspend` |
| `GetThreadContext` and the forbidden ranges | `ReadContext` |
| any failure, a full array included | `GiveUp` |
| the end of a pass | `EndPass` |
| `release`, one handle at a time | `Resume`, `Released` |
| the owner's `thaw` | `Thaw` |
| threads that run, are created, end | `Move`, `Create`, `End` |

`thread` says what an id stands for. A thread is `stopping` from the return of
`SuspendThread` until `GetThreadContext` has answered: Windows suspends
asynchronously, and only the second call waits for it. In that state the thread
may still enter a forbidden range, create threads or end. An id stays in use
while a handle is open (`ended`), which is why a known id needs no second look.
`GiveUp` is possible at every call: most reasons (a thread that ended before it
was opened, too many threads, a failed enumeration) are indistinguishable to
the code after it. The range check's failure is not a choice but `ReadContext`'s.

`IsAtomicFreeze` maps "frozen" to a successful `acquire` whose `thaw` has not been
called: at the moment `acquire` succeeds, all threads that exist are stopped,
none is inside, and from then to the thaw nothing moves. All partial states
before and after are steps of a process that runs.

### OwnerContract and OwnerCalls

`OwnerStatus` folds a site and its controller's phase into `none`, `live`
(`installed`), `contained` (`containment`: the detour may still be there and is
served), `kept` (detached, with a resource or a page to give back) and `lost`
(`retained_until_exit`). The game may run through an owner that is live or
contained, and through no other: `MayBeLive`. `before` is the
status when the last call began. The contract says when a call may answer true
and what it leaves: a failed stop leaves a live owner contained or detached and
never brings a detached one back. Fairness is stated here and not in `HookLifecycle`, since only
a call's return (`CallReturns`) depends on it.

### PluginConfig, PluginHost

`Ini` is the file, by what the reader tells apart: for each switch a word that
means true, one that means false, none, or anything else. `Loaded` is
`load_config`, `Interrupted` the same left through its `catch`. The settings that
are on are one set in place of a Boolean field each; the thirteen settings of
earlier releases that are refused when on are treated alike by the code and are
the constant `Observers`.

In `PluginHost` a step is one call into an owner, or one part of `init` without
one. `stop()` calls the spread's `stop` and then CAP4's whatever the first
answered; three callers use it, told apart by `call`. `cap4_install` or
`cap4_enabled` alone is a request, and a request with only one of them is
refused. Whether the executable is a known build is a choice at each `init`, as
is what the user has put into the file. Exceptions come only from the parts
between calls into the owners, since those are `noexcept`.

Two behaviours that the model keeps and that may surprise: a file whose
`enabled` cannot be read makes `init` answer ok with nothing installed (the
reader's `false` wins over `valid`), and CAP4 is stopped also when the spread
above it could not be. In the second case the spread stays contained and narrows
sweeps without CAP4 until a later stop succeeds. `SpreadNeedsCap4` says that this is
the only way to it: `InForce` counts contained owners, the spread comes in force
only over an installed CAP4, and only `stop()`, after the spread has refused in
the same call, takes CAP4 away under it.

### SpreadBridge, BridgeCalls, RefreshSweep

Words wrap at `AddressModulus = 8 * Capacity` (2^64 and 2^61 in the code). The
three bridges differ in registers and in v161's test for an empty list, which it
repeats because it replaced the engine's own. The engine's loop tests last, so
entering it with an empty range would run past the end; `count` is what the
`JRCXZ` of the detour tests.

`RefreshSweep` adds the game: a minute passes and is swept (`Minute`), sleep and
travel skip minutes (`Jump`), the list changes (`Relist`), the DWORD minute
wraps. `age` and `settled` are bookkeeping of the model: how many sweeps ago a
company was refreshed, and for how many sweeps nothing was disturbed. They are
set by the actions and read by the properties only.

### RelaySearch

`HookLifecycle` takes a whole `prepare` as one step that may fail with or without
a page. `RelaySearch` opens it: a step is one candidate. `d` and `above` are the
distance and the side to try next; the code's `for` over the two candidates of a
distance becomes two steps. `ours` and `refused` are history: which pages Windows
has given, and where it gave none in the present search. Addresses wrap at
`Top + 1`, `delta` is the difference as a signed word. The check that the
displacement fits 32 bits is in `Reach`; `NeverOutOfReach` says that the limits of the
search make it superfluous, so that no page is ever allocated for nothing there.

### ReadableWalk, ImageScan

`readable()` exists twice, word for word. `Region` is what Windows may answer: any
extent around the address whose bytes from there on are all accessible or all
not; it may also fail. A region that ends at the top of the address space is
refused, because the code's test for overflow takes it for one that wraps; this
is the one refusal without a bad byte, and `failed` names it.

`ImageScan` is both validators: they differ in when they look at the image's size
(`RoomFirst`) and agree otherwise. The magic numbers of the headers are one
Boolean, and name and characteristics of a section another. An image says what is
at each address, also beyond its own end, so that a read out there would find a
signature. `IsTheBuild` is the reference: the verdict is compared with it for
every image, both ways. The descriptor checks that come before the headers are
`SpreadSiteFits` in `BuildTable`.

### BuildTable, BuildIdentity

`BuildTable` holds the addresses, sizes and offsets of all seven descriptors as
they are in the source, with the checks that the sites make of them.
`RecognisedFits` is evaluated on the real numbers. That the detour ends where the
loop begins, and skips to where it ends, follows from the instruction bytes in the
signatures; the distances of seven and nine bytes are taken from there and
marked external.

`BuildIdentity` is one Windows call or allocation per step. `Fail` is an early
return with `cleanup()`, `Throw` an exception: it leaves the scope of the `try` block,
which frees the hash object's memory, before the handler closes the hash. In
that one place (`pc = "catch"`) the hash is destroyed after its memory has gone
(`build_info.cpp:103` and `:155`); the model shows it and `HashHasItsMemory`
excludes it by name. It is reached only when an allocation of the buffer or of the
text throws.

A file is its build and its length: the digest of all of it tells the build, that
of a part tells nothing. Size, time stamp and the conversions of paths to text go
to the log only.

### Logger

One action per operation; `Stream` is what a buffered text stream may make of the
bytes: store some, keep some, fail. A stream that has failed ignores everything
until it is opened again, and `write` does not look. A line costs one byte more in
the file than in memory (CR LF), which `lines` counts. `Crash` takes the buffer with
it, `Edit` is the user's hand on a file that is not open.

Three things the model shows of the code and the properties leave room for: the
limit is exceeded by the carriage returns; a lowered limit, unlike one that is
reached, leaves buffered lines where they are until a flush or close; and no
timer flushes, so that a last line stays in the buffer until another comes.

## 3. The runs

| run | instance | states | shows |
|---|---|---|---|
| `patch_transaction` | `Cap4Site`: all failures and refusals, another owner, both strategies, even and odd addresses | 21,991 | contract kept, foreign bytes kept, every page accounted for; no torn pair, nothing without authorization, CAP4's memory is a patch memory |
| `repair_race` | `PatchTransaction`, the same | | violated: the comment at `hook_lifecycle.cpp:32` (below) |
| `owner_lifecycle` | `OwnerCalls`: 2 threads, both resources, periods 60 and 120, 1 lost lease | 278,655 | the safety properties of the lifecycle, the refinement of `ResourceLifetime`, `OwnerContract`, and that calls return |
| `thread_freeze` | 4 thread ids, room for 3, 3 passes | 192,569 | a failed or finished freeze leaves nobody suspended, an answer always comes, and the refinement of `AtomicFreeze` |
| `plugin_host` | one observer setting; every file that differs from "both", "CAP4 only" or "none" in one setting | 16,195 | answers true of both owners; in force only as asked and only on clean ground; the spread put in force only over an installed CAP4, which goes first only after the spread has refused |
| `bridge_calls` | period 3, word 64, every count, lists at multiples of 4, ends right and off by 1, 8, -8 or equal to the start | 97,280 | the arithmetic against a counting reference; malformed registers |
| `refresh_sweep` | period 3, lists up to 7, minute modulo 8 | 4,521 | exactly once per undisturbed cycle, balanced load, no starvation |
| `relay_search` | 8 granules of 4 bytes, every target, limit of 3 granules | 1,916 | no page lost, the relay in reach, a complete search |
| `readable_walk` | 7 addresses, every set of accessible ones, every cutting into regions | 19,444 | yes and no are right |
| `image_scan` | images of 5 bytes, a signature of 2; all contents with up to two sections, all headers with up to three; both validators | 359,826 | reads inside, verdict as the reference |
| `build_identity` | the real table; buffer 2 to 8, paths around each size, files of 0, 1 and 3 bytes in chunks of 2 | 47,936 | handles closed in order, only whole paths and files used, fitting descriptors |
| `logger` | 2 files, lines of 1 and 3, limits 0 and 4, intervals 0 and 1, word 16, files up to 6 | 132,818 | the count right, the limit kept, no overdue lines |

**Bounds.** Two threads: the hazards relate one thread on the route to a
second that loses its lease while the host's thread is in a call; a thread never
reads another's position, so a third adds nothing that a second does not. One
lost lease (`MaxLeaks`) is enough, as `no_active_calls` only tests for zero. Two
periods, so that publishing another one is visible. There is no bound on the
number of starts, stops, failures and foreign hooks. `active` is bounded by the
threads and the lost leases. In the sweep the period does not divide the minute's
modulus, as 60, 120, 180 and 1440 do not divide 2^32, lists are shorter and
longer than the period and not multiples of it, and lists reach the largest
length the guard admits. `Capacity` and `Alignment` are small so that words wrap
within reach.

Four threads and room for three, so that the array is full with a thread left
over; three passes are the least with which a pass can fail to be the last for
each of its reasons (first, added, out of passes), four being the code's number.
`owner_lifecycle` has both resources, so that one run covers the order in which they
go: the unwind table is one the controller knows of, though the refresh spread
holds only the page; CAP4's controller, without either, is covered by the proofs,
which are for all three. In `plugin_host` one wrong
setting at a time decides every conjunct of the refusals; the proofs cover all
files, and all numbers of observer settings. `InitCall` and `Shutdown` are not
bounded. A signature of two equal bytes overlaps itself, and five bytes hold two
copies, apart or overlapping, in one section or in two that overlap. Eight granules
let candidates underflow and wrap on both sides. The logger's files grow without
bound only if their size cannot be read; `FilesBounded` stops the run there, at a
size past the larger limit with its carriage returns.

**Fairness.** `CallsFairness` in `OwnerCalls`: a call runs on the host's thread,
which `freeze()` never suspends and which waits for nothing in this code. Game
threads, the other plugin and the host's decision to start or stop have no
fairness. `Proceed` is weakly fair as a whole: one step of a call is enabled until
the call returns. `WF_vars(Proceed)` in `ThreadFreeze`: as above, and each snapshot
is finite, so that a weakly fair caller comes to the end of each pass however the
others create threads. `WF_vars(Minute)` in `RefreshSweep`: the game's clock runs;
`RefreshedForever` assumes, as part of its statement, that jumps and changes of the
list end.

**The finding.** `repair_original_auxiliaries` looks at the bytes, then flushes
and restores the page protection without suspending anyone. The comment says "Do
not touch an intervening owner's bytes or protection."; an owner that hooks
between the look and `restore_protection` has the protection it chose replaced.
Its bytes are safe (`ForeignBytesKept`), and the controller learns of it
afterwards (`retained_until_exit`).

**Deadlock** is checked in all runs but `image_scan`, `readable_walk` and
`build_identity`, which compute one answer and stop there. None of the other
systems stops.

## 4. The proofs

`HookLifecycle_proofs` proves, for every finite set of threads, both kinds of
owner, every set of periods and every number of lost leases: type correctness,
all safety invariants of `owner_lifecycle`, `PeriodImmutable`, and `KeepsLifetime` by
step simulation (the safety part is all there is: `ResourceLifetime` states no
fairness). The assumptions are the four named ones in `HookLifecycle`.

The invariants are not inductive. `IInv` adds

* `LeasesCounted`: `active` is the number of threads between `lock inc` and
  `lock dec` plus the lost leases. Without it `no_active_calls` says nothing
  about where threads are;
* `ControlInv`: what phase, flags and resources are at each step of a call. It
  carries the flags through the calls that fail half way;
* `TargetInv`: a target that may be fetched as the detour is live, held, pinned
  and published, including the target that another plugin has saved and may put
  back at any time;
* `ThreadInv`: a thread on the route implies that the route is there, and one
  between the original instructions that the originals are;
* `AnswerInv`: what each call's answer says when it returns.

Each of them is one lemma per group of actions; `Freeze` enters through one
fact: with all threads outside the forbidden ranges and no lease out, no thread
is on the route.

`RefreshSweep_proofs` proves for every period, word width, list length and
minute: the bridge's registers do not wrap for a list that passes its guards
(`NoRegisterWraps`), it hands out exactly the slice (`BridgeNarrowsToSlice`), the
slices are disjoint, ordered and cover the list (`SliceOrder`, `SliceExists`,
`OneSlice`), and from that type correctness, `ExactlyOncePerCycle` and
`BalancedLoad` of the sweep. The inductive invariant `LastSweeps` says that the
ages are the footprints of the last settled sweeps: the company swept `d` minutes
ago has age `d`, and a company of smaller age was in that minute's slice. In
particular the four periods of the configuration and all lists below 2^61 are
covered.

`ThreadFreeze_proofs` proves type correctness, `HeldMeansQuiet`,
`NoneLeftSuspended` and the refinement, for every finite set of ids, capacity and
number of passes. Its invariant is the reason why
one complete pass without a new thread is enough: as long as a pass has suspended
nobody (`added` is false) and some thread still runs, which alone could create
others, an unknown entry is left in its snapshot (`RunningIsListed`);
held threads have stopped outside the ranges, but for the one being looked at
(`OneStopping`, `StoppedOutside`).

The same module proves `KeepsOwnerContract` of `OwnerCalls` from the lifecycle's
invariant, with `CallInv`: what a call knows of the owner it began with. The
status stands for what the game meets: between calls, a detour that a fetch may
find and a thread on the route belong to an owner that is live or contained
(`InForceIsKnown`). So what `PluginHost` says of owners in force is said of all that
can act.

`PluginHost_proofs` proves type correctness and the four properties of
`PluginHost`, two of them of its steps, for every set of files and every set of observer settings, by
`HInv`: what `ini`, `config` and both owners' status are at each step of `init` and
of `stop`.

`PatchTransaction_proofs` proves the properties of `PatchTransaction` and those of
`Cap4Site`. `UnderWayInv` is the heart of it: how far the target may be, at each
call, from where the transaction began, and what the report may claim by then.
Without `LookingInv` (nothing has happened before the first look) and `BytesInv`
(foreign bytes have an owner) it is not inductive. `Cap4IsPatchTransaction` is a
step simulation; `NeverTornForCap4` and `UnauthorizedIsHarmless` rest on
`AuthorizationInv`: a copy under way, and the authorization itself, mean that
everyone is stopped.

`RefreshSweep_proofs` also proves `BridgeCalls` for every word width and period:
`BridgeStaysInList` for any registers, well formed or not, and `BridgeDealsFairly`,
which counts: of the first `n` elements dealt in turn to `BucketCount` buckets, a
bucket gets `n \div BucketCount`, and one more if it comes before the remainder.

`ImageScan_proofs` proves both properties of the scan for every set of images,
signature and header size. `MatchInv` says that the occurrences behind the scan
are none, or exactly the wanted one; `StageInv` collects what the headers have
passed; `BeyondIsOutside` is the lemma about the unsigned differences. It also
proves `AnswerIsRight` of `ReadableWalk` for every address space, by the invariant
that everything behind `p` is accessible.

`RelaySearch_proofs` proves the three properties of the search for every size of
address space, granule, limit and reach that satisfies `RelayAssumption`, through
lemmas on words. `CallReaches` is what a displacement must satisfy: it fits 32 bits,
and target, call size and displacement give the page, modulo the address space.
`SearchInv` says that every place nearer than the candidate has been refused.

`Logger_proofs` proves the three properties for all files, lines, limits, intervals
and widths of the counter; `StreamConserves` is the lemma that no stream makes
bytes, `LineFits` the one that the difference is exact, and `AgeInv` that the oldest
byte in the buffer is no older than the last flush, as long as nothing failed.

`PluginHost_proofs` also proves the three properties of `BuildIdentity`, for every
length of path, first and last buffer, file and chunk. `HeldInv` says which handles
are open at each step, `ReadInv` that the hash has seen no more than the file and
that a digest is of all of it. `RecognisedAlwaysFits` rests on `EveryBuildFits`, which
goes through the seven descriptors with their real numbers.

**Contracts between modules.** Where one module takes a step that another opens,
both sides are proved:

| one step, in | the contract | opened in |
|---|---|---|
| `Patch` of `HookLifecycle` (it uses the relation) | `TransactEffect` | `PatchTransaction`: `TransactHonoursContract` |
| `RepairLook`, `RepairPage`: `RepairsByContract` | `RepairEffect` | `PatchTransaction`: `TransactHonoursContract` |
| the freezes and `Thaw`: `FreezesAtomically` | `AtomicFreeze` | `ThreadFreeze`: `ImplementsAtomicFreeze` |
| `PluginHost`'s start and stop (it uses the relation) | `OwnerContract` | `OwnerCalls`: `ContractKept` |
| CAP4's memory as a `PatchMemory` | `PatchTransaction` | `Cap4Site`: `Cap4IsPatchTransaction` |

In `FreezesAtomically` the threads are those of `HookLifecycle`, and a thread is inside
if `freeze()` would refuse it where it is. A repair stays within its contract
although other owners act between its steps: it claims only what it has seen last.

**Bounds.** Liveness is beyond the prover, but what it comes down to in this code is
not: every call is a loop whose end must come nearer with each step. For each, a
number is defined that is shown never to leave its range and to fall at each step of
the call, whatever the other actors do:

| theorems | number | of |
|---|---|---|
| `CallsBounded`, `CallsAdvance` | at most 8 steps | a start or a stop of an owner; `ReclaimInv` is why the `stop` that calls itself does so once |
| `AcquireBounded`, `AcquireAdvances` | `N + 1 + MaxPasses * PassCost`, `N` the number of thread ids | `acquire` and the `release` after it |
| `TransactBounded` | 11 memory calls, 6 if it does not install | a transaction or a repair |
| `HostCallsBounded` | 10 steps | `init`, `shutdown` |
| `SearchBounded` | one granule of the distance per candidate | the search for a relay page |
| `ScanBounded` | sections times image size plus two, plus four | the validators |
| `WalkBounded` | the bytes asked for, plus two | `readable()` |
| `IdentityBounded` | what is left of buffer and file, plus 12 | the build identification |

What remains to be assumed is that the caller does take its steps, which is the
fairness of section 3; only that part is TLC's.

Every module with proofs has its type correctness proved; only the lifecycle's is
a property of a run as well.

Only model-checked: `CallReturns`, `AcquireAnswers` and `RefreshedForever`, since
liveness under fairness is beyond the prover. The first two rest on the bounds above,
the third on `OneTurnPerCycle`, which says that a cycle that is not disturbed
refreshes everyone.

## 5. Assumptions

* Threads are created only by running threads of the process, or by the caller
  outside `acquire`; a remote thread injected by another process between the last
  snapshot and the thaw is not excluded by the code either. A snapshot lists
  every thread that exists when it is taken. `ResumeThread` succeeds on a handle
  that is held. A thread id taken over by another process within one
  enumeration, and suspend counts of others, are not modelled.
* The other plugin replaces and restores the bytes in one step each, acts only
  while its threads are not suspended, puts back what it found, and removes its
  hook only when no thread is left in its own code.
* An instruction fetch sees one of the values written since the last flush. A
  flush of another plugin is not assumed.
* Another plugin does not act inside a transaction that runs under a freeze; in
  `Cap4Site` this holds also for the calls without one, which the controller
  never makes. Inside a repair it does act.
* Memory does not change its protection during a validation, and the executable
  does not change while it is hashed; a part of a file has another digest than
  the file of any known build.
* The log file is written by this process alone while it is open; a size that
  cannot be read counts as nothing, as in the code.
* `VirtualFree` and `VirtualProtect` that report failure have changed nothing.
* The host serializes calls (`lifecycle_mutex` in `main.cpp`), so one call is in
  progress at a time. Each owner has its own controller, site and target and
  shares only the pin with the other.

## 6. Not modelled

* Release packaging (`src/tools`) and the tests: not part of the running plugin.
* The bytes of the signatures; the texts that are logged, their time stamps and
  the conversions of paths, SDK versions and file times to text: nothing but the
  log depends on them.
* `abandon_until_exit`, which nothing calls, and `clear_continuation()` and
  `recording()`, which are empty in both owners.
* What Windows does behind its calls: locks inside the loader or the kernel that a
  suspended thread may hold, a thread id that passes to another process within
  one enumeration, `ResumeThread` failing on a handle that is held, an access
  right revoked between two calls. The first is listed as a hazard without a
  property, since nothing in this code decides it.
* The lease counter is 32 bits wide. It would wrap after 2^32 lost leases, each of
  which takes an exception out of the bridge; `MaxLeaks` bounds them.
* What a contained spread does to the game once CAP4 below it is gone. That it may
  come to this is modelled (section 2, `PluginHost`); nothing in the code says that
  it must not.

## 7. Plan

Done: all modules of section 2, and with them every component of section 1 but
packaging and tests.

Every safety property and every action property of the runs is proved for all values
of the constants, and every contract between two modules on both sides.

What could follow: the number of memory calls, Windows calls and steps added up over
the modules, for a bound on how long the game stands still during a freeze; and a
theorem that the two owners of `PluginHost`, as two instances of `OwnerCalls` that
share only the pin, keep its contracts together.
