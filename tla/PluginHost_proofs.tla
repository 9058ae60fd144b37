--------------------------- MODULE PluginHost_proofs ---------------------------
(***************************************************************************)
(* Proofs about the entry points, for every set of files and of refused    *)
(* settings, over any two owners that keep OwnerContract.                  *)
(***************************************************************************)
EXTENDS PluginHost, BuildIdentity, TLAPS

Starting == {"start_cap4", "start_spread", "complete"}

(* The configuration is always one that load_config makes of the file.     *)
ConfigOfIni ==
    \/ config = NoConfig
    \/ config = Loaded(ini)
    \/ config \in Interrupted(ini)

(* Only a configuration that passed every gate gets as far as an owner.    *)
PastGates == pc \in Starting => "enabled" \in config.on /\ ~PreflightRefused

Started(o) == status[o] = IF Requested(o, config) THEN "live" ELSE "none"

(* What the owners are at each part of an init: gone before it installs,   *)
(* then installed one by one.                                              *)
OwnersAtControl ==
    /\ pc \in {"arguments", "load", "gates", "start_cap4"} =>
          \A o \in Owners : status[o] = "none"
    /\ pc = "start_spread" => Started("cap4") /\ status["spread"] = "none"
    /\ pc = "complete" => \A o \in Owners : Started(o)
    /\ pc = "stop_second" =>
          status["spread"] # "live" /\ (stopped => status["spread"] = "none")

HInv == /\ TypeOK /\ ConfigOfIni /\ PastGates /\ OwnersAtControl
        /\ OkMeansAsConfigured /\ NoneLiveAfterFailure
        /\ InstalledAsAsked

USE DEF Owners, Status, MayBeLive, InForce, Goto, Return, StopFor

-----------------------------------------------------------------------------
(* What load_config makes of a file, of a part of it, and of no file.      *)
LEMMA LoadedType == ASSUME NEW i \in Ini PROVE Loaded(i) \in Config
<1>1. On(i) \in SUBSET Switches
  BY DEF On
<1>2. \A valid \in BOOLEAN, m \in SupportedMinutes, hook_valid \in BOOLEAN :
         [ini_found |-> TRUE, on |-> On(i), refresh_spread_minutes |-> m,
          config_valid |-> valid, hook_config_valid |-> hook_valid] \in Config
  BY <1>1 DEF Config
<1>3. (IF i.minutes \in SupportedMinutes THEN i.minutes ELSE "60") \in SupportedMinutes
  BY DEF SupportedMinutes
<1>4. QED BY <1>2, <1>3 DEF Loaded

LEMMA InterruptedType ==
  ASSUME NEW i, NEW c \in Interrupted(i)
  PROVE  c \in Config /\ ~c.config_valid
<1>1. PICK read : c = [NoConfig EXCEPT !.ini_found = TRUE,
                          !.on = (On(i) \cap read) \cup (@ \ read)]
  BY DEF Interrupted
<1>2. c = [ini_found |-> TRUE, on |-> (On(i) \cap read) \cup (NoConfig.on \ read),
           refresh_spread_minutes |-> "60",
           config_valid |-> FALSE, hook_config_valid |-> FALSE]
  BY <1>1 DEF NoConfig
<1>3. (On(i) \cap read) \cup (NoConfig.on \ read) \in SUBSET Switches
  BY DEF On, NoConfig, Switches, Safety
<1>4. QED BY <1>2, <1>3 DEF Config, SupportedMinutes

LEMMA NoConfigType == NoConfig \in Config
  BY DEF NoConfig, Config, Switches, Safety, SupportedMinutes

(* A configuration that reports itself valid was read to its end.          *)
LEMMA ValidIsLoaded == ConfigOfIni /\ config.config_valid => config = Loaded(ini)
  BY InterruptedType DEF ConfigOfIni, NoConfig

(* A request that no gate refused is one the file makes, value by value.   *)
LEMMA AcceptedIsAsked ==
  ASSUME ConfigOfIni, ~PreflightRefused, NEW o \in Owners, Requested(o, config)
  PROVE  AsksFor(o, ini) /\ Requested("cap4", config)
<1>1. ~Refusal(o, config)
  BY DEF PreflightRefused
<1>2. ~Cap4Refusal(config)
  BY <1>1 DEF Refusal, SpreadRefusal
<1>3. config = Loaded(ini) /\ config.config_valid /\ config.hook_config_valid
  BY <1>2, ValidIsLoaded DEF Cap4Refusal
<1>4. config.on = On(ini)
  BY <1>3 DEF Loaded
<1>5. /\ \A k \in Switches : Readable(ini, k)
      /\ ini.minutes \in SupportedMinutes
  BY <1>3 DEF Loaded
<1>6. /\ Cap4Gates \subseteq On(ini) /\ "enabled" \in On(ini)
      /\ On(ini) \cap Safety = {"target_this_build_only", "fail_closed"}
      /\ On(ini) \cap Observers = {}
  BY <1>2, <1>4 DEF Cap4Refusal
<1>7. On(ini) \subseteq Switches
  BY DEF On
<1>8. On(ini) \ SpreadGates = {"enabled", "target_this_build_only", "fail_closed"}
                              \cup Cap4Gates
  BY <1>6, <1>7 DEF Switches, Cap4Gates, SpreadGates, Safety
<1>9. On(ini) \cap SpreadGates = {} \/ SpreadGates \subseteq On(ini)
  BY <1>4 DEF PreflightRefused, Requested, Refusal, SpreadRefusal
<1>10. o = "spread" => SpreadGates \subseteq On(ini)
  BY <1>1, <1>4 DEF Refusal, SpreadRefusal
<1>11. Requested("cap4", config)
  BY <1>4, <1>6 DEF Requested, Cap4Gates
<1>12. /\ \A k \in Switches : ini.word[k] # "malformed"
       /\ \A k \in Switches \ Observers : ini.word[k] # "absent"
  BY <1>5 DEF Readable
<1>13. QED BY <1>5, <1>8, <1>9, <1>10, <1>11, <1>12 DEF AsksFor

-----------------------------------------------------------------------------
(* Before the first call.                                                  *)
LEMMA InitInv == Init => HInv
  BY NoConfigType DEF Init, HInv, TypeOK, ConfigOfIni, PastGates, Starting,
     OwnersAtControl, OkMeansAsConfigured, NoneLiveAfterFailure,
     InstalledAsAsked

(* The steps that touch neither an owner nor the configuration.            *)
LEMMA ControlInv ==
  HInv /\ (InitCall \/ Shutdown \/ Arguments \/ Gates \/ Complete \/ Exception)
    => HInv'
<1> SUFFICES ASSUME HInv,
                    InitCall \/ Shutdown \/ Arguments \/ Gates \/ Complete \/ Exception
             PROVE HInv'
  OBVIOUS
<1>1. UNCHANGED <<status, ini, config>>
  BY DEF InitCall, Shutdown, Arguments, Gates, Complete, Exception
<1>2. ConfigOfIni' /\ InstalledAsAsked'
  BY <1>1 DEF HInv, ConfigOfIni, InstalledAsAsked
<1>3. TypeOK'
  BY <1>1 DEF HInv, TypeOK, InitCall, Shutdown, Arguments, Gates, Complete, Exception
<1>4. PastGates' /\ OwnersAtControl'
  BY <1>1 DEF HInv, PastGates, Starting, PreflightRefused, OwnersAtControl, Started,
     InitCall, Shutdown, Arguments, Gates, Complete, Exception
<1>5. OkMeansAsConfigured' /\ NoneLiveAfterFailure'
  BY <1>1 DEF HInv, PastGates, Starting, OwnersAtControl, Started,
     OkMeansAsConfigured, NoneLiveAfterFailure,
     InitCall, Shutdown, Arguments, Gates, Complete, Exception
<1>6. QED BY <1>2, <1>3, <1>4, <1>5 DEF HInv

(* A new configuration is only read when both owners are gone.             *)
LEMMA LoadInv == HInv /\ Load => HInv'
<1> SUFFICES ASSUME HInv, Load PROVE HInv'
  OBVIOUS
<1>1. /\ pc = "load" /\ pc' = "gates" /\ UNCHANGED <<status, call, stopped, result>>
      /\ \A o \in Owners : status[o] = "none"
  BY DEF Load, HInv, OwnersAtControl
<1>2. /\ ini' \in Inis \cup {NoIni}
      /\ config' \in {NoConfig, Loaded(ini')} \cup Interrupted(ini')
      /\ ini' \in Inis \/ config' = NoConfig
  BY DEF Load
<1>3. config' \in Config
  BY <1>2, InisAssumption, NoConfigType, LoadedType, InterruptedType
<1>4. TypeOK'
  BY <1>1, <1>2, <1>3 DEF HInv, TypeOK
<1>5. ConfigOfIni'
  BY <1>2 DEF ConfigOfIni
<1>6. QED BY <1>1, <1>4, <1>5 DEF HInv, PastGates, Starting, OwnersAtControl,
          OkMeansAsConfigured, NoneLiveAfterFailure, InstalledAsAsked

(* Stopping: whatever an owner answers, it is no longer installed, and one  *)
(* that was not in force does not come back.                               *)
LEMMA StopInv == HInv /\ (StopFirst \/ StopSecond) => HInv'
<1> SUFFICES ASSUME HInv, StopFirst \/ StopSecond PROVE HInv'
  OBVIOUS
<1>0. StopsFirst = "spread" /\ StopsSecond = "cap4"
  BY DEF StopsFirst, StopsSecond
<1>1. CASE StopFirst
  <2>1. PICK after \in Status, answer \in BOOLEAN :
           /\ StopEffect(status["spread"], answer, after)
           /\ status' = [status EXCEPT !["spread"] = after]
           /\ stopped' = answer
    BY <1>0, <1>1 DEF StopFirst
  <2>2. pc = "stop_first" /\ pc' = "stop_second" /\ UNCHANGED <<ini, config, call, result>>
    BY <1>1 DEF StopFirst
  <2>3. /\ after # "live" /\ (answer => after = "none")
        /\ MayBeLive(after) => MayBeLive(status["spread"])
    BY <2>1 DEF StopEffect
  <2>4. TypeOK'
    BY <2>1, <2>2 DEF HInv, TypeOK
  <2>5. /\ status'["spread"] # "live" /\ status'["cap4"] = status["cap4"]
        /\ stopped' => status'["spread"] = "none"
        /\ InForce("spread")' => InForce("spread")
    BY <2>1, <2>3 DEF HInv, TypeOK
  <2>6. QED BY <2>2, <2>4, <2>5 DEF HInv, ConfigOfIni, PastGates, Starting,
            OwnersAtControl, OkMeansAsConfigured, NoneLiveAfterFailure,
            InstalledAsAsked
<1>2. CASE StopSecond
  <2>1. PICK answer \in BOOLEAN, after \in Status :
           /\ StopEffect(status["cap4"], answer, after)
           /\ status' = [status EXCEPT !["cap4"] = after]
           /\ stopped' = (stopped /\ answer)
           /\ AfterStop(stopped /\ answer)
    BY <1>0, <1>2 DEF StopSecond
  <2>2. pc = "stop_second" /\ UNCHANGED <<ini, config, call>>
    BY <1>2 DEF StopSecond
  <2>3. /\ after # "live" /\ (stopped /\ answer) \in BOOLEAN
        /\ MayBeLive(after) => MayBeLive(status["cap4"])
    BY <2>1 DEF StopEffect, HInv, TypeOK
  <2>4. \A o \in Owners : status'[o] # "live" /\ (InForce(o)' => InForce(o))
    BY <2>1, <2>2, <2>3 DEF HInv, TypeOK, OwnersAtControl
  <2>5. TypeOK'
    BY <2>1, <2>2, <2>3 DEF HInv, TypeOK, AfterStop
  <2>6. pc' \in {"idle", "arguments"} /\ (pc' = "idle" => result' # "ok")
    BY <2>1 DEF AfterStop
  <2>7. pc' = "arguments" => \A o \in Owners : status'[o] = "none"
    <3> SUFFICES ASSUME pc' = "arguments" PROVE \A o \in Owners : status'[o] = "none"
      OBVIOUS
    <3>1. stopped /\ answer
      BY <2>1 DEF AfterStop
    <3>2. status["spread"] = "none" /\ after = "none"
      BY <2>1, <2>2, <3>1 DEF HInv, OwnersAtControl, StopEffect
    <3>3. QED BY <2>1, <3>2 DEF HInv, TypeOK
  <2>8. OwnersAtControl' /\ PastGates'
    BY <2>6, <2>7 DEF OwnersAtControl, PastGates, Starting
  <2>9. OkMeansAsConfigured' /\ NoneLiveAfterFailure' /\ InstalledAsAsked'
    BY <2>2, <2>4, <2>6 DEF HInv, OkMeansAsConfigured, NoneLiveAfterFailure,
       InstalledAsAsked
  <2>10. QED BY <2>2, <2>5, <2>8, <2>9 DEF HInv, ConfigOfIni
<1>3. QED BY <1>1, <1>2

(* Starting one owner, over what the steps before it left.                 *)
LEMMA StartInv == HInv /\ (StartCap4 \/ StartSpread) => HInv'
<1> SUFFICES ASSUME HInv, StartCap4 \/ StartSpread PROVE HInv'
  OBVIOUS
<1>1. UNCHANGED <<ini, config, stopped, result>>
  BY DEF StartCap4, StartSpread
<1>2. PICK o \in Owners, next \in {"start_spread", "complete"} :
         /\ StartOwner(o, next)
         /\ \/ o = "cap4" /\ pc = "start_cap4" /\ next = "start_spread"
            \/ o = "spread" /\ pc = "start_spread" /\ next = "complete"
  <2>1. CASE StartCap4
    BY <2>1 DEF StartCap4
  <2>2. CASE StartSpread
    BY <2>2 DEF StartSpread
  <2>3. QED BY <2>1, <2>2
<1>3. /\ ConfigOfIni /\ ~PreflightRefused /\ "enabled" \in config.on
      /\ status[o] = "none"
      /\ o = "spread" => Started("cap4")
  BY <1>2 DEF HInv, PastGates, Starting, OwnersAtControl
<1>4. ConfigOfIni' /\ PastGates'
  <2>1. ConfigOfIni'
    BY <1>1, <1>3 DEF ConfigOfIni
  <2>2. PastGates'
    BY <1>1, <1>3 DEF PastGates, PreflightRefused
  <2>3. QED BY <2>1, <2>2
<1>5. CASE ~Requested(o, config)
  <2>1. pc' = next /\ UNCHANGED <<status, call>>
    BY <1>2, <1>5 DEF StartOwner
  <2>2. TypeOK'
    BY <1>1, <1>2, <2>1 DEF HInv, TypeOK
  <2>3. OwnersAtControl'
    <3>1. CASE o = "cap4"
      BY <1>1, <1>2, <1>3, <1>5, <2>1, <3>1 DEF HInv, OwnersAtControl, Started, Requested
    <3>2. CASE o = "spread"
      BY <1>1, <1>2, <1>3, <1>5, <2>1, <3>2 DEF HInv, OwnersAtControl, Started, Requested
    <3>3. QED BY <3>1, <3>2
  <2>4. QED BY <1>1, <1>2, <1>4, <2>1, <2>2, <2>3 DEF HInv, OkMeansAsConfigured,
            NoneLiveAfterFailure, InstalledAsAsked
<1>6. CASE Requested(o, config)
  <2>1. PICK answer \in BOOLEAN, after \in Status :
           /\ StartEffect(status[o], answer, after)
           /\ status' = [status EXCEPT ![o] = after]
           /\ IF answer THEN pc' = next /\ UNCHANGED call
                        ELSE call' = "failed" /\ pc' = "stop_first"
    BY <1>2, <1>6 DEF StartOwner
  <2>2. TypeOK'
    BY <1>1, <1>2, <2>1 DEF HInv, TypeOK
  <2>3. IF answer THEN after = "live" ELSE after \in {"none", "contained", "kept"}
    BY <1>3, <2>1 DEF StartEffect
  <2>4. status'[o] = after /\ \A p \in Owners \ {o} : status'[p] = status[p]
    BY <2>1 DEF HInv, TypeOK
  <2>5. AsksFor(o, ini) /\ Requested("cap4", config)
    BY <1>3, <1>6, AcceptedIsAsked
  <2>6. InstalledAsAsked'
    BY <1>1, <2>4, <2>5 DEF HInv, InstalledAsAsked
  <2>7. OwnersAtControl'
    BY <1>1, <1>2, <1>3, <1>6, <2>1, <2>3, <2>4 DEF HInv, OwnersAtControl, Started
  <2>8. OkMeansAsConfigured' /\ NoneLiveAfterFailure'
    BY <1>2, <2>1 DEF OkMeansAsConfigured, NoneLiveAfterFailure
  <2>9. QED BY <1>4, <2>2, <2>6, <2>7, <2>8 DEF HInv
<1>7. QED BY <1>5, <1>6

-----------------------------------------------------------------------------
(* The inductive invariant of the entry points.                            *)
THEOREM Inductive == Spec => []HInv
<1>1. HInv /\ UNCHANGED vars => HInv'
  BY DEF vars, HInv, TypeOK, ConfigOfIni, PastGates, Starting, PreflightRefused,
     OwnersAtControl, Started, OkMeansAsConfigured, NoneLiveAfterFailure,
     InstalledAsAsked
<1>2. HInv /\ [Next]_vars => HInv'
  BY <1>1, ControlInv, LoadInv, StopInv, StartInv DEF Next
<1>3. QED BY InitInv, <1>2, PTL DEF Spec

(* Every reachable state of the entry points is well typed.                *)
THEOREM TypeCorrect == Spec => []TypeOK
<1>1. HInv => TypeOK BY DEF HInv
<1>2. QED BY <1>1, Inductive, PTL

(* What init and shutdown answer is true of both owners: ok only with      *)
(* exactly the requested ones installed, a failure only with none running. *)
THEOREM AnswersTrueOfBoth == Spec => []InitAnswersTrue
<1>1. HInv => InitAnswersTrue BY DEF HInv, InitAnswersTrue
<1>2. QED BY <1>1, Inductive, PTL

(* The spread is put in force over an installed CAP4 only, and CAP4 is     *)
(* taken away under it only by a stop() in which the spread, asked first,  *)
(* refused: whatever fails, an installed spread has CAP4 below it.         *)
THEOREM SpreadOverCap4 == Spec => SpreadNeedsCap4
<1> DEFINE Kept == /\ ~InForce("spread") /\ InForce("spread")' =>
                         status["cap4"] = "live" /\ status'["cap4"] = "live"
                   /\ ~SpreadAlone /\ SpreadAlone' =>
                         pc = "stop_second" /\ ~stopped /\ status["spread"] = "contained"
<1>1. HInv /\ [Next]_vars => [Kept]_status
  <2> SUFFICES ASSUME HInv, [Next]_vars, ~UNCHANGED status PROVE Kept
    OBVIOUS
  <2> USE DEF SpreadAlone
  <2>0. StopsFirst = "spread" /\ StopsSecond = "cap4"
    BY DEF StopsFirst, StopsSecond
  <2>1. CASE StopFirst
    <3>1. /\ status'["cap4"] = status["cap4"]
          /\ InForce("spread")' => InForce("spread")
      BY <2>0, <2>1 DEF StopFirst, StopEffect, HInv, TypeOK
    <3>2. QED BY <3>1
  <2>2. CASE StopSecond
    <3>1. pc = "stop_second" /\ status'["spread"] = status["spread"]
      BY <2>0, <2>2 DEF StopSecond, HInv, TypeOK
    <3>2. InForce("spread") => ~stopped /\ status["spread"] = "contained"
      BY <3>1 DEF HInv, OwnersAtControl
    <3>3. QED BY <3>1, <3>2
  <2>3. CASE StartCap4
    <3>1. status'["spread"] = "none"
      BY <2>3 DEF StartCap4, StartOwner, HInv, TypeOK, OwnersAtControl
    <3>2. QED BY <3>1
  <2>4. CASE StartSpread
    <3>1. Requested("spread", config) /\ status'["cap4"] = status["cap4"]
      BY <2>4 DEF StartSpread, StartOwner, HInv, TypeOK
    <3>2. Requested("cap4", config)
      BY <2>4, <3>1, AcceptedIsAsked DEF StartSpread, HInv, PastGates, Starting
    <3>3. status["cap4"] = "live"
      BY <2>4, <3>2 DEF StartSpread, HInv, OwnersAtControl, Started
    <3>4. QED BY <3>1, <3>3
  <2>5. QED BY <2>1, <2>2, <2>3, <2>4 DEF Next, vars, InitCall, Shutdown, Arguments,
            Load, Gates, Complete, Exception
<1>2. QED BY <1>1, Inductive, PTL DEF Spec, SpreadNeedsCap4

(* No file but a complete and well-formed one that asks for it installs an *)
(* owner, whatever settings of earlier releases there are.                 *)
THEOREM OnlyAskedInstalled == Spec => []InstalledAsAsked
<1>1. HInv => InstalledAsAsked BY DEF HInv
<1>2. QED BY <1>1, Inductive, PTL

(* No owner comes in force beside one that still waits to be undone.       *)
THEOREM CleanGround == Spec => InstalledOnCleanGround
<1> DEFINE Clean == \A o \in Owners : ~InForce(o) /\ InForce(o)' =>
                       \A p \in Owners : status[p] \in {"none", "live"}
<1>1. HInv /\ [Next]_vars => [Clean]_status
  <2> SUFFICES ASSUME HInv, [Next]_vars, ~UNCHANGED status PROVE Clean
    OBVIOUS
  <2>1. CASE StopFirst \/ StopSecond
    <3>1. \A o \in Owners : InForce(o)' => InForce(o)
      BY <2>1 DEF StopFirst, StopSecond, StopEffect, HInv, TypeOK
    <3>2. QED BY <3>1
  <2>2. CASE StartCap4 \/ StartSpread
    <3>1. \A p \in Owners : status[p] \in {"none", "live"}
      BY <2>2 DEF StartCap4, StartSpread, HInv, OwnersAtControl, Started
    <3>2. QED BY <3>1
  <2>3. QED BY <2>1, <2>2 DEF Next, vars, InitCall, Shutdown, Arguments, Load, Gates,
            Complete, Exception
<1>2. QED BY <1>1, Inductive, PTL DEF Spec, InstalledOnCleanGround

-----------------------------------------------------------------------------
(* Which build of the game it is (BuildIdentity), for every length of path *)
(* and file, every size of the buffers and every table entry.              *)

(* What the hashing has open and has read at each of its steps.            *)
HeldInv ==
    /\ step \in {"path", "provider", "identify", "done"} => held = {}
    /\ step \in {"lengths", "object", "hash"} => held = {"algorithm"}
    /\ step = "open" => held = {"algorithm", "hash"}
    /\ step \in {"buffer", "read", "finish", "text"} => held = Handles
    /\ backed <=> step \in {"hash", "open", "buffer", "read", "finish", "text"}

ReadInv ==
    /\ path \in {0, file.path}
    /\ fed <= file.length
    /\ step \in {"finish", "text"} => fed = file.length
    /\ sha256 # "unavailable" =>
          /\ step \in {"identify", "done"}
          /\ fed = file.length /\ sha256 = file.is
    /\ step # "done" => build = "unsupported"
    /\ build # "unsupported" => build = sha256 /\ build \in supported(target)

IdentityInv == IdentityTypeOK /\ HeldInv /\ ReadInv

(* The path that fits a buffer with a character to spare is the whole one. *)
LEMMA FilenameKeepsInv ==
    ASSUME IdentityInv, ModuleFilename
    PROVE  IdentityInv'
<1>1. /\ step = "path" /\ UNCHANGED <<target, file, held, backed, fed, sha256, build>>
      /\ buffer \in Nat /\ path \in Nat /\ file.path \in Nat
  BY IdentityAssumption DEF ModuleFilename, IdentityInv, IdentityTypeOK
<1>2. ASSUME Fits(NameLength)
      PROVE  NameLength = file.path
  BY <1>1, <1>2 DEF Fits, NameLength
<1>3. /\ buffer' \in Nat /\ path' \in {0, file.path}
      /\ step' \in {"path", "provider"}
  BY <1>1, <1>2 DEF ModuleFilename, Continue, IdentityInv, ReadInv
<1>4. IdentityTypeOK'
  BY <1>1, <1>3 DEF IdentityInv, IdentityTypeOK
<1>5. HeldInv'
  BY <1>1, <1>3 DEF IdentityInv, HeldInv
<1>6. ReadInv'
  BY <1>1, <1>3 DEF IdentityInv, ReadInv
<1> QED BY <1>4, <1>5, <1>6 DEF IdentityInv

(* Every call of the hashing keeps it, however it ends.                    *)
LEMMA HashKeepsInv ==
    ASSUME IdentityInv, Hash
    PROVE  IdentityInv'
<1> USE DEF IdentityInv
<1>1. /\ UNCHANGED <<target, file, buffer, path, build>>
      /\ fed \in Nat /\ file.length \in Nat /\ held \subseteq Handles
      /\ sha256 = "unavailable" \/ step \in {"identify", "done"}
      /\ file \in [is : Builds \cup {"other"}, length : FileLengths, path : PathLengths]
  BY IdentityAssumption DEF Hash, IdentityTypeOK, ReadInv
<1>2. ASSUME Fail, step \notin {"identify", "done"}
      PROVE  IdentityInv'
  <2>1. held' = {} /\ backed' = FALSE /\ step' = "identify" /\ UNCHANGED <<fed, sha256>>
    BY <1>2 DEF Fail, Cleanup, Continue
  <2>2. IdentityTypeOK'
    BY <1>1, <2>1 DEF IdentityTypeOK
  <2>3. HeldInv'
    BY <2>1 DEF HeldInv
  <2>4. ReadInv'
    BY <1>1, <1>2, <2>1 DEF ReadInv
  <2> QED BY <2>2, <2>3, <2>4
<1>3. ASSUME Throw, step \notin {"identify", "done"}
      PROVE  IdentityInv'
  <2>1. backed' = FALSE /\ step' = "catch" /\ UNCHANGED <<held, fed, sha256>>
    BY <1>3 DEF Throw, Continue
  <2>2. IdentityTypeOK'
    BY <1>1, <2>1 DEF IdentityTypeOK
  <2>3. HeldInv'
    BY <2>1 DEF HeldInv
  <2>4. ReadInv'
    BY <1>1, <1>3, <2>1 DEF ReadInv
  <2> QED BY <2>2, <2>3, <2>4
<1>4. ASSUME NEW h \in Handles, held' = held \cup {h}, UNCHANGED <<backed, fed, sha256>>,
             <<step, h, step'>> \in {<<"provider", "algorithm", "lengths">>,
                                     <<"hash", "hash", "open">>, <<"open", "file", "buffer">>}
      PROVE  IdentityInv'
  <2>1. IdentityTypeOK'
    BY <1>1, <1>4 DEF IdentityTypeOK
  <2>2. HeldInv'
    BY <1>1, <1>4 DEF HeldInv, Handles
  <2>3. ReadInv'
    BY <1>1, <1>4 DEF ReadInv
  <2> QED BY <2>1, <2>2, <2>3
<1>5. ASSUME UNCHANGED <<held, fed, sha256>>, backed' = (step = "object" \/ backed),
             <<step, step'>> \in {<<"lengths", "object">>, <<"object", "hash">>,
                                  <<"buffer", "read">>, <<"finish", "text">>}
      PROVE  IdentityInv'
  <2>1. IdentityTypeOK'
    BY <1>1, <1>5 DEF IdentityTypeOK
  <2>2. HeldInv'
    BY <1>1, <1>5 DEF HeldInv, IdentityTypeOK
  <2>3. ReadInv'
    BY <1>1, <1>5 DEF ReadInv
  <2> QED BY <2>1, <2>2, <2>3
<1>6. CASE OpenProvider
  BY <1>2, <1>4, <1>6 DEF OpenProvider, Handles, Continue
<1>7. CASE ReadLengths
  BY <1>2, <1>5, <1>7 DEF ReadLengths, Continue, HeldInv, IdentityTypeOK
<1>8. CASE AllocateObject
  BY <1>3, <1>5, <1>8 DEF AllocateObject, Continue
<1>9. CASE CreateHash
  BY <1>2, <1>4, <1>9 DEF CreateHash, Handles, Continue
<1>10. CASE OpenFile
  BY <1>2, <1>4, <1>10 DEF OpenFile, Handles, Continue
<1>11. CASE AllocateBuffer
  BY <1>3, <1>5, <1>11 DEF AllocateBuffer, Continue, HeldInv, IdentityTypeOK
<1>12. CASE ReadChunk
  <2>1. CASE Fail
    BY <1>2, <1>12, <2>1 DEF ReadChunk
  <2>2. CASE /\ fed = file.length /\ step = "read" /\ step' = "finish"
             /\ UNCHANGED <<held, backed, fed, sha256>>
    <3>1. IdentityTypeOK'
      BY <1>1, <2>2 DEF IdentityTypeOK
    <3>2. HeldInv' /\ ReadInv'
      BY <1>1, <2>2 DEF HeldInv, ReadInv
    <3> QED BY <3>1, <3>2
  <2>3. CASE \E n \in 1 .. Chunk : /\ n <= file.length - fed /\ fed' = fed + n
                                   /\ step = "read" /\ UNCHANGED <<held, backed, sha256, step>>
    <3>1. fed' \in Nat /\ fed' <= file.length
      BY <1>1, <2>3, IdentityAssumption
    <3>2. IdentityTypeOK'
      BY <1>1, <2>3, <3>1 DEF IdentityTypeOK
    <3>3. HeldInv' /\ ReadInv'
      BY <1>1, <2>3, <3>1 DEF HeldInv, ReadInv
    <3> QED BY <3>2, <3>3
  <2> QED BY <1>12, <2>1, <2>2, <2>3 DEF ReadChunk, ReadFails, Continue
<1>13. CASE FinishHash
  BY <1>2, <1>5, <1>13 DEF FinishHash, Continue, HeldInv, IdentityTypeOK
<1>14. CASE MakeText
  <2>1. CASE Throw
    BY <1>3, <1>14, <2>1 DEF MakeText
  <2>2. CASE ~Throw
    <3>1. /\ step = "text" /\ step' = "identify" /\ held' = {} /\ backed' = FALSE
          /\ UNCHANGED fed /\ fed = file.length /\ sha256' = file.is
      BY <1>14, <2>2 DEF MakeText, Digest, Cleanup, Continue, ReadInv
    <3>2. IdentityTypeOK'
      BY <1>1, <3>1 DEF IdentityTypeOK
    <3>3. HeldInv'
      BY <3>1 DEF HeldInv
    <3>4. ReadInv'
      BY <1>1, <3>1 DEF ReadInv
    <3> QED BY <3>2, <3>3, <3>4
  <2> QED BY <2>1, <2>2
<1>15. CASE Catch
  <2>1. /\ step = "catch" /\ step' = "identify" /\ held' = {}
        /\ UNCHANGED <<backed, fed, sha256>>
    BY <1>15 DEF Catch, Cleanup, Continue
  <2>2. IdentityTypeOK'
    BY <1>1, <2>1 DEF IdentityTypeOK
  <2>3. HeldInv' /\ ReadInv'
    BY <1>1, <2>1 DEF HeldInv, ReadInv
  <2> QED BY <2>2, <2>3
<1> QED BY <1>6, <1>7, <1>8, <1>9, <1>10, <1>11, <1>12, <1>13, <1>14, <1>15 DEF Hash

(* The invariant holds throughout the identification.                      *)
LEMMA IdentityInductive == IdentitySpec => []IdentityInv
<1>1. IdentityInit => IdentityInv
  <2> SUFFICES ASSUME IdentityInit PROVE IdentityInv
    OBVIOUS
  <2>1. IdentityTypeOK
    BY IdentityAssumption DEF IdentityInit, IdentityTypeOK
  <2>2. HeldInv
    BY DEF IdentityInit, HeldInv
  <2>3. file.length \in Nat
    BY IdentityAssumption DEF IdentityInit
  <2>4. ReadInv
    BY <2>3 DEF IdentityInit, ReadInv
  <2> QED BY <2>1, <2>2, <2>4 DEF IdentityInv
<1>2. IdentityInv /\ [IdentityNext]_identityVars => IdentityInv'
  <2> SUFFICES ASSUME IdentityInv, [IdentityNext]_identityVars PROVE IdentityInv'
    OBVIOUS
  <2>1. CASE Identify
    <3>1. /\ step = "identify" /\ step' = "done"
          /\ UNCHANGED <<target, file, buffer, path, held, backed, fed, sha256>>
          /\ build' = IF sha256 \in supported(target) THEN sha256 ELSE "unsupported"
      BY <2>1 DEF Identify, Continue
    <3>2. supported(target) \subseteq Builds
      BY DEF IdentityInv, IdentityTypeOK, ReleaseTargets, supported, Builds, Table
    <3>3. IdentityTypeOK'
      BY <3>1, <3>2 DEF IdentityInv, IdentityTypeOK
    <3>4. HeldInv' /\ ReadInv'
      BY <3>1 DEF IdentityInv, HeldInv, ReadInv, supported
    <3> QED BY <3>3, <3>4 DEF IdentityInv
  <2>2. CASE UNCHANGED identityVars
    BY <2>2 DEF identityVars, IdentityInv, IdentityTypeOK, HeldInv, ReadInv, supported
  <2> QED BY <2>1, <2>2, FilenameKeepsInv, HashKeepsInv DEF IdentityNext
<1> QED BY <1>1, <1>2, PTL DEF IdentitySpec

(* The identification's variables keep their types.                        *)
THEOREM IdentityTypes == IdentitySpec => []IdentityTypeOK
<1>1. IdentityInv => IdentityTypeOK
  BY DEF IdentityInv
<1> QED BY <1>1, IdentityInductive, PTL

(* Every handle is closed on every way out, and the hash object's memory   *)
(* outlives it but for the handler of an exception.                        *)
THEOREM HandlesAlwaysInOrder == IdentitySpec => []HandlesInOrder
<1>1. IdentityInv => HandlesInOrder
  BY DEF IdentityInv, IdentityTypeOK, HeldInv, HandlesInOrder, NothingLeftOpen, HashHasItsMemory
<1> QED BY <1>1, IdentityInductive, PTL

(* What is recognised is the build of the whole file that runs, and one    *)
(* that this release is for.                                               *)
THEOREM OnlyRunningRecognised == IdentitySpec => []RecognisedIsRunning
<1>1. IdentityInv => RecognisedIsRunning
  <2> SUFFICES ASSUME IdentityInv PROVE RecognisedIsRunning
    OBVIOUS
  <2>1. build # "unsupported" => build = file.is /\ target \in {"none", build}
    <3> SUFFICES ASSUME build # "unsupported" PROVE build = file.is /\ target \in {"none", build}
      OBVIOUS
    <3>1. build = sha256 /\ build \in supported(target) /\ build \in Builds
      BY DEF IdentityInv, IdentityTypeOK, ReadInv
    <3>2. sha256 # "unavailable"
      BY <3>1 DEF Builds, Table
    <3> QED BY <3>1, <3>2 DEF IdentityInv, ReadInv, supported
  <2> QED BY <2>1 DEF IdentityInv, ReadInv, RecognisedIsRunning
<1> QED BY <1>1, IdentityInductive, PTL

-----------------------------------------------------------------------------
(* The numbers of a build's descriptor fit together.                       *)
FitsTogether(k) ==
    LET b == Table[k]
        spec == SpreadSignature[b.spread_strategy]
        layout == Layout[b.spread_strategy]
    IN  /\ Cap4SiteFits(b) /\ SpreadSiteFits(b)
        /\ spec.patch_offset + layout.span = LoopHead(spec)
        /\ SkipsTo(spec, layout) = LoopExit(spec)
        /\ b.sweep_end <= b.generator_begin

(* Those of every build in the table do: the validators' bounds admit both *)
(* places, each detour ends at its loop's head and skips to its exit, and  *)
(* an address with the exchanging strategy is even.                        *)
THEOREM EveryBuildFits == \A k \in Builds : FitsTogether(k)
<1> USE DEF Descriptor, FitsTogether, Cap4SiteFits, SpreadSiteFits, Range, SpreadSignature,
            Layout, LoopHead, LoopExit, SkipsTo
<1>1. Builds = {"v1572", "v1581", "v1591", "v1601", "v1610", "v1611", "v1619"}
  BY DEF Builds, Table
<1>2. FitsTogether("v1572")
  BY DEF Table
<1>3. FitsTogether("v1581")
  BY DEF Table
<1>4. FitsTogether("v1591")
  BY DEF Table
<1>5. FitsTogether("v1601")
  BY DEF Table
<1>6. FitsTogether("v1610")
  BY DEF Table
<1>7. FitsTogether("v1611")
  BY DEF Table
<1>8. FitsTogether("v1619")
  BY DEF Table
<1> HIDE DEF FitsTogether
<1> QED BY <1>1, <1>2, <1>3, <1>4, <1>5, <1>6, <1>7, <1>8

(* What is recognised can be patched.                                      *)
THEOREM RecognisedAlwaysFits == IdentitySpec => []RecognisedFits
<1>1. IdentityInv => RecognisedFits
  <2> SUFFICES ASSUME IdentityInv, build # "unsupported" PROVE FitsTogether(build)
    BY DEF RecognisedFits, FitsTogether
  <2>1. build \in Builds
    BY DEF IdentityInv, IdentityTypeOK
  <2> QED BY <2>1, EveryBuildFits
<1> QED BY <1>1, IdentityInductive, PTL

-----------------------------------------------------------------------------
(* How many steps a call of the host has still to take at most: an init    *)
(* stops the owners before it starts them, and once more if it fails.      *)
HostStepsLeft ==
    CASE pc = "idle" -> 0
      [] pc = "stop_second" -> IF call = "init" THEN 9 ELSE 1
      [] pc = "stop_first" -> IF call = "init" THEN 10 ELSE 2
      [] pc = "complete" -> 3
      [] pc = "start_spread" -> 4
      [] pc = "start_cap4" -> 5
      [] pc = "gates" -> 6
      [] pc = "load" -> 7
      [] pc = "arguments" -> 8

HostAdvances == pc # "idle" => HostStepsLeft' < HostStepsLeft

(* scs_telemetry_init and scs_telemetry_shutdown return to the game after  *)
(* at most ten steps, whichever owner fails to start or to stop and        *)
(* wherever an exception is raised; HookLifecycle bounds the calls into an *)
(* owner among them (CallsBounded).                                        *)
THEOREM HostCallsBounded ==
  Spec => [](HostStepsLeft \in 0 .. 10) /\ [][HostAdvances]_vars
<1>1. TypeOK => HostStepsLeft \in 0 .. 10
  BY DEF TypeOK, HostStepsLeft
<1>2. [Next]_vars => [HostAdvances]_vars
  <2> SUFFICES ASSUME Next PROVE HostAdvances
    OBVIOUS
  <2> USE DEF HostAdvances, HostStepsLeft, Goto, Return, StopFor
  <2>1. CASE InitCall \/ Shutdown
    BY <2>1 DEF InitCall, Shutdown
  <2>2. CASE StopFirst
    BY <2>2 DEF StopFirst
  <2>3. CASE StopSecond
    <3>1. /\ pc = "stop_second" /\ UNCHANGED call
          /\ \E all \in {TRUE, FALSE} : AfterStop(all)
      BY <2>3 DEF StopSecond
    <3>2. QED BY <3>1 DEF AfterStop
  <2>4. CASE Arguments \/ Load
    BY <2>4 DEF Arguments, Load
  <2>5. CASE Gates
    BY <2>5 DEF Gates
  <2>6. CASE StartCap4
    BY <2>6 DEF StartCap4, StartOwner
  <2>7. CASE StartSpread
    BY <2>7 DEF StartSpread, StartOwner
  <2>8. CASE Complete \/ Exception
    BY <2>8 DEF Complete, Exception
  <2>9. QED BY <2>1, <2>2, <2>3, <2>4, <2>5, <2>6, <2>7, <2>8 DEF Next
<1>3. QED BY <1>1, <1>2, TypeCorrect, PTL DEF Spec

-----------------------------------------------------------------------------
(* How many steps the identification has still to take at most: the path's *)
(* buffer grows, the rest of the file is read, and each other call is made *)
(* once.                                                                   *)
CallsAfter ==
    CASE step = "path" -> 12  [] step = "provider" -> 11  [] step = "lengths" -> 10
      [] step = "object" -> 9 [] step = "hash" -> 8       [] step = "open" -> 7
      [] step = "buffer" -> 6 [] step = "read" -> 5       [] step = "finish" -> 4
      [] step = "text" -> 3   [] step = "catch" -> 2      [] step = "identify" -> 1
      [] step = "done" -> 0

BufferLeft == IF step = "path" /\ buffer < LastBuffer THEN LastBuffer - buffer ELSE 0

IdentityLeft == CallsAfter + BufferLeft + (file.length - fed)

IdentityAdvances == IdentityLeft' < IdentityLeft

(* The loop over the buffers ends because none of them is empty.           *)
BufferInv == buffer # 0

LEMMA BufferStep == IdentityTypeOK /\ BufferInv /\ [IdentityNext]_identityVars => BufferInv'
<1> SUFFICES ASSUME IdentityTypeOK, BufferInv, [IdentityNext]_identityVars PROVE BufferInv'
  OBVIOUS
<1>1. buffer \in Nat
  BY DEF IdentityTypeOK
<1>2. buffer' = buffer \/ buffer' = 2 * buffer
  BY DEF IdentityNext, ModuleFilename, Hash, Identify, identityVars
<1>3. QED BY <1>1, <1>2 DEF BufferInv

(* Lower in one part and no higher in the others.                          *)
LEMMA SumLess ==
    ASSUME NEW a \in Nat, NEW b \in Nat, NEW c \in Nat,
           NEW d \in Nat, NEW e \in Nat, NEW f \in Nat,
           d <= a, e <= b, f <= c, d < a \/ e < b \/ f < c
    PROVE  d + e + f < a + b + c
  OBVIOUS

LEMMA FileRead ==
    ASSUME IdentityInv
    PROVE  file.length \in Nat /\ fed \in Nat /\ fed <= file.length /\ file.length - fed \in Nat
<1>1. /\ file \in [is : Builds \cup {"other"}, length : FileLengths, path : PathLengths]
      /\ fed \in Nat /\ fed <= file.length
  BY DEF IdentityInv, IdentityTypeOK, ReadInv
<1>2. file.length \in Nat
  BY <1>1, IdentityAssumption
<1>3. QED BY <1>1, <1>2

(* Each step brings the end nearer.                                        *)
LEMMA IdentityNearer == IdentityInv /\ BufferInv /\ IdentityNext => IdentityLeft' < IdentityLeft
<1> SUFFICES ASSUME IdentityInv, BufferInv, IdentityNext PROVE IdentityLeft' < IdentityLeft
  OBVIOUS
<1> DEFINE size == file.length
<1>1. /\ size \in Nat /\ fed \in Nat /\ fed <= size
      /\ buffer \in Nat /\ buffer > 0 /\ LastBuffer \in Nat
  BY IdentityAssumption, FileRead DEF IdentityInv, IdentityTypeOK, BufferInv
<1>2. file' = file
  BY DEF IdentityNext, ModuleFilename, Hash, Identify
<1>3. /\ IdentityLeft = CallsAfter + BufferLeft + (size - fed)
      /\ IdentityLeft' = CallsAfter' + BufferLeft' + (size - fed')
  BY <1>2 DEF IdentityLeft
<1> HIDE DEF size
<1>4. step # "path" => BufferLeft = 0
  BY DEF BufferLeft
<1>5. step' # "path" => BufferLeft' = 0
  BY DEF BufferLeft
<1>6. CASE ModuleFilename
  <2>1. step = "path" /\ UNCHANGED fed
    BY <1>6 DEF ModuleFilename
  <2>2. CASE step' = "provider"
    <3>1. CallsAfter = 12 /\ CallsAfter' = 11
      BY <2>1, <2>2 DEF CallsAfter
    <3>2. BufferLeft \in Nat
      BY <1>1 DEF BufferLeft
    <3>3. BufferLeft' = 0
      BY <1>5, <2>2
    <3>4. QED BY <1>1, <1>3, <2>1, <3>1, <3>2, <3>3
  <2>3. CASE buffer < LastBuffer /\ buffer' = 2 * buffer /\ step' = "path"
    <3>1. CallsAfter = 12 /\ CallsAfter' = 12
      BY <2>1, <2>3 DEF CallsAfter
    <3>2. BufferLeft \in Nat /\ BufferLeft' \in Nat /\ BufferLeft' < BufferLeft
      BY <1>1, <2>1, <2>3 DEF BufferLeft
    <3>3. size - fed \in Nat /\ size - fed' = size - fed
      BY <1>1, <2>1
    <3>4. QED BY <1>3, <3>1, <3>2, <3>3, SumLess
  <2>4. QED BY <1>6, <2>1, <2>2, <2>3 DEF ModuleFilename, Continue
<1>7. CASE Hash
  <2>1. step' # "path" /\ step # "path"
    BY <1>7 DEF Hash, OpenProvider, ReadLengths, AllocateObject, CreateHash, OpenFile,
                AllocateBuffer, ReadChunk, ReadFails, FinishHash, MakeText, Catch,
                Fail, Throw, Continue
  <2>2. BufferLeft = 0 /\ BufferLeft' = 0
    BY <1>4, <1>5, <2>1
  <2>3. CASE UNCHANGED fed /\ step' # step
    <3>1. CallsAfter \in Nat /\ CallsAfter' \in Nat /\ CallsAfter' < CallsAfter
      BY <1>7, <2>3 DEF Hash, OpenProvider, ReadLengths, AllocateObject, CreateHash, OpenFile,
                AllocateBuffer, ReadChunk, ReadFails, FinishHash, MakeText, Catch,
                Fail, Throw, Continue, CallsAfter
    <3>2. size - fed \in Nat /\ size - fed' = size - fed
      BY <1>1, <2>3
    <3>3. QED BY <1>3, <2>2, <3>1, <3>2, SumLess
  <2>4. CASE step = "read" /\ step' = "read"
    <3>1. PICK n \in 1 .. Chunk : n <= file.length - fed /\ fed' = fed + n
      BY <1>7, <2>4 DEF Hash, OpenProvider, ReadLengths, AllocateObject, CreateHash, OpenFile,
                AllocateBuffer, ReadChunk, ReadFails, FinishHash, MakeText, Catch,
                Fail, Throw, Continue
    <3>2. CallsAfter = 5 /\ CallsAfter' = 5
      BY <2>4 DEF CallsAfter
    <3>3. n \in Nat /\ n > 0
      BY <3>1, IdentityAssumption
    <3>4. QED BY <1>1, <1>3, <2>2, <3>1, <3>2, <3>3
  <2>5. QED
    BY <1>7, <2>3, <2>4 DEF Hash, OpenProvider, ReadLengths, AllocateObject, CreateHash, OpenFile,
                AllocateBuffer, ReadChunk, ReadFails, FinishHash, MakeText, Catch,
                Fail, Throw, Continue
<1>8. CASE Identify
  <2>1. step = "identify" /\ step' = "done" /\ UNCHANGED fed
    BY <1>8 DEF Identify, Continue
  <2>2. CallsAfter = 1 /\ CallsAfter' = 0 /\ BufferLeft = 0 /\ BufferLeft' = 0
    BY <2>1, <1>4, <1>5 DEF CallsAfter
  <2>3. QED BY <1>1, <1>3, <2>1, <2>2
<1>9. QED BY <1>6, <1>7, <1>8 DEF IdentityNext

(* The identification ends, however Windows cuts the file into reads and   *)
(* however long its path is: each step lowers a number that is never below *)
(* zero.  The buffer of the path is never empty, so that doubling it gets  *)
(* somewhere, and a read of nothing is the end of the file.                *)
THEOREM IdentityBounded ==
  IdentitySpec => [](IdentityLeft \in Nat) /\ [][IdentityAdvances]_identityVars
<1>1. IdentityInit => BufferInv
  BY IdentityAssumption DEF IdentityInit, BufferInv
<1>2. IdentityInv => IdentityTypeOK
  BY DEF IdentityInv
<1>3. IdentitySpec => []BufferInv
  BY <1>1, <1>2, BufferStep, IdentityInductive, PTL DEF IdentitySpec
<1>4. IdentityInv => IdentityLeft \in Nat
  <2> SUFFICES ASSUME IdentityInv PROVE IdentityLeft \in Nat
    OBVIOUS
  <2>1. /\ file.length - fed \in Nat
        /\ buffer \in Nat /\ LastBuffer \in Nat
        /\ step \in {"path", "provider", "lengths", "object", "hash", "open", "buffer",
                     "read", "finish", "text", "catch", "identify", "done"}
    BY IdentityAssumption, FileRead DEF IdentityInv, IdentityTypeOK
  <2>2. CallsAfter \in Nat
    BY <2>1 DEF CallsAfter
  <2>3. BufferLeft \in Nat
    BY <2>1 DEF BufferLeft
  <2>4. QED BY <2>1, <2>2, <2>3 DEF IdentityLeft
<1>5. IdentityInv /\ BufferInv /\ [IdentityNext]_identityVars => [IdentityAdvances]_identityVars
  BY IdentityNearer DEF IdentityAdvances
<1>6. QED BY <1>3, <1>4, <1>5, IdentityInductive, PTL DEF IdentitySpec
=============================================================================
