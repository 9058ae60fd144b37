------------------------------ MODULE PluginHost ------------------------------
(***************************************************************************)
(* The plugin's entry points (src/src/main.cpp): scs_telemetry_init and    *)
(* scs_telemetry_shutdown over the two owners, in any order and number.    *)
(*                                                                         *)
(* lifecycle_mutex admits one call at a time.  A step is one call into an  *)
(* owner, by OwnerContract, or a part of init without one.  Whether the    *)
(* executable is a known build is decided at each init.                    *)
(***************************************************************************)
EXTENDS PluginConfig, OwnerContract

CONSTANT Inis   \* the files the user may have put in place

ASSUME InisAssumption == Inis \subseteq Ini

Owners == {"cap4", "spread"}

VARIABLES
    status,   \* of each owner
    ini,      \* the file as last read
    config,   \* the configuration of the current or last init
    call,     \* why the owners are stopped: a new init, a failed one, or shutdown
    stopped,  \* all owners asked so far have stopped
    result,   \* what the last call answered; shutdown answers nothing
    pc

vars == <<status, ini, config, call, stopped, result, pc>>

TypeOK ==
    /\ status \in [Owners -> Status]
    /\ ini \in Inis \cup {NoIni} /\ config \in Config
    /\ call \in {"init", "failed", "shutdown"} /\ stopped \in BOOLEAN
    /\ result \in {"ok", "error", "down"}
    /\ pc \in {"idle", "stop_first", "stop_second", "arguments", "load", "gates",
               "start_cap4", "start_spread", "complete"}

Init ==
    /\ status = [o \in Owners |-> "none"]
    /\ ini = NoIni /\ config = NoConfig
    /\ call = "shutdown" /\ stopped = TRUE
    /\ result = "down" /\ pc = "idle"

Goto(label) == pc' = label
Return(value) == result' = value /\ Goto("idle")
StopFor(reason) == call' = reason /\ Goto("stop_first")

-----------------------------------------------------------------------------
(* stop(): the spread first, then CAP4 whatever became of the spread.      *)

StopsFirstSwapped == "cap4"                                           \* mutant
StopsFirst == "spread"
StopsSecond == CHOOSE o \in Owners : o # StopsFirst

StopFirst ==
    /\ pc = "stop_first"
    /\ \E answer \in BOOLEAN, after \in Status :
          /\ StopEffect(status[StopsFirst], answer, after)
          /\ stopped' = answer
          /\ status' = [status EXCEPT ![StopsFirst] = after]
    /\ Goto("stop_second")
    /\ UNCHANGED <<ini, config, call, result>>

(* Only a new init goes on, and only once both owners are gone.            *)
AfterStopRegardless(all) ==                                           \* mutant
    \/ call = "shutdown" /\ Return("down")
    \/ call = "failed" /\ Return("error")
    \/ call = "init" /\ Goto("arguments") /\ UNCHANGED result

AfterStop(all) ==
    \/ call = "shutdown" /\ Return("down")
    \/ call = "failed" /\ Return("error")
    \/ call = "init" /\ ~all /\ Return("error")
    \/ call = "init" /\ all /\ Goto("arguments") /\ UNCHANGED result

StopSecond ==
    /\ pc = "stop_second"
    /\ \E answer \in BOOLEAN, after \in Status :
          /\ StopEffect(status[StopsSecond], answer, after)
          /\ status' = [status EXCEPT ![StopsSecond] = after]
          /\ stopped' = (stopped /\ answer)
          /\ AfterStop(stopped /\ answer)
    /\ UNCHANGED <<ini, config, call>>

-----------------------------------------------------------------------------
(* scs_telemetry_init and scs_telemetry_shutdown                           *)

InitCall ==
    /\ pc = "idle"
    /\ StopFor("init")
    /\ UNCHANGED <<status, ini, config, stopped, result>>

Shutdown ==
    /\ pc = "idle"
    /\ StopFor("shutdown")
    /\ UNCHANGED <<status, ini, config, stopped, result>>

(* The module's path, the SDK version and the host's functions.            *)
Arguments ==
    /\ pc = "arguments"
    /\ \/ Return("error")
       \/ Goto("load") /\ UNCHANGED result
    /\ UNCHANGED <<status, ini, config, call, stopped>>

Load ==
    /\ pc = "load"
    /\ \/ ini' = NoIni /\ config' = NoConfig
       \/ /\ ini' \in Inis
          /\ config' \in {NoConfig, Loaded(ini')} \cup Interrupted(ini')
    /\ Goto("gates")
    /\ UNCHANGED <<status, call, stopped, result>>

AnyRequested == \E o \in Owners : Requested(o, config)

(* Both configurations are looked at before either owner may install.      *)
PreflightCap4Only == Requested("cap4", config) /\ Refusal("cap4", config) \* mutant
PreflightRefused == \E o \in Owners : Requested(o, config) /\ Refusal(o, config)

(* A request on an executable that is no known build is refused as well.   *)
Gates ==
    /\ pc = "gates"
    /\ \/ ~config.ini_found /\ Return("error")
       \/ config.ini_found /\ "enabled" \notin config.on /\ Return("ok")
       \/ /\ config.ini_found /\ "enabled" \in config.on
          /\ \/ (PreflightRefused \/ AnyRequested) /\ Return("error")
             \/ ~PreflightRefused /\ Goto("start_cap4") /\ UNCHANGED result
    /\ UNCHANGED <<status, ini, config, call, stopped>>

(* An owner is started if it is asked for; it looks at its configuration   *)
(* once more.  The first failure ends the init.                            *)
StartOwner(o, next) ==
    \/ /\ ~Requested(o, config)
       /\ Goto(next)
       /\ UNCHANGED <<status, call>>
    \/ /\ Requested(o, config)
       /\ \E answer \in BOOLEAN, after \in Status :
             /\ StartEffect(status[o], answer, after)
             /\ Refusal(o, config) => ~answer /\ after = status[o]
             /\ status' = [status EXCEPT ![o] = after]
             /\ IF answer THEN Goto(next) /\ UNCHANGED call
                          ELSE StopFor("failed")

StartCap4 == /\ pc = "start_cap4" /\ StartOwner("cap4", "start_spread")
             /\ UNCHANGED <<ini, config, stopped, result>>
StartSpread == /\ pc = "start_spread" /\ StartOwner("spread", "complete")
               /\ UNCHANGED <<ini, config, stopped, result>>

Complete ==
    /\ pc = "complete"
    /\ Return("ok")
    /\ UNCHANGED <<status, ini, config, call, stopped>>

(* Exceptions between the calls into the owners, which raise none.         *)
ExceptionUnstopped ==                                                 \* mutant
    /\ pc \in {"arguments", "load", "gates", "complete"}
    /\ Return("error")
    /\ UNCHANGED <<status, ini, config, call, stopped>>

Exception ==
    /\ pc \in {"arguments", "load", "gates", "complete"}
    /\ StopFor("failed")
    /\ UNCHANGED <<status, ini, config, stopped, result>>

Next == \/ InitCall \/ Shutdown \/ StopFirst \/ StopSecond
        \/ Arguments \/ Load \/ Gates \/ StartCap4 \/ StartSpread
        \/ Complete \/ Exception

Spec == Init /\ [][Next]_vars

-----------------------------------------------------------------------------
(* An init that answers ok has installed exactly the owners that its       *)
(* configuration asks for, and left nothing of an earlier session behind.  *)
OkMeansAsConfigured ==
    pc = "idle" /\ result = "ok" =>
        \A o \in Owners : status[o] =
            IF "enabled" \in config.on /\ Requested(o, config) THEN "live" ELSE "none"

(* After a failed init or a shutdown no owner is left installed: each is   *)
(* gone, or was asked to stop and could not, and then it may still act     *)
(* until a later stop succeeds.                                            *)
NoneLiveAfterFailure ==
    pc = "idle" /\ result # "ok" => \A o \in Owners : status[o] # "live"

(* The host can rely on what an init answers, and after a failed init or a *)
(* shutdown, which answers nothing, no owner is there that was not asked   *)
(* to stop, whichever owner's start or stop fails.                         *)
InitAnswersTrue == OkMeansAsConfigured /\ NoneLiveAfterFailure

(* The owner's detour may be in force, be it in containment.               *)
InForce(o) == MayBeLive(status[o])

SpreadAlone == InForce("spread") /\ ~InForce("cap4")

(* The spread's detour is only put in force over an installed CAP4, by a   *)
(* start that fails in containment no less than by one that succeeds       *)
(* ("requires_active_CAP4_and_all_observers_disabled").  stop() takes CAP4 *)
(* away whatever the spread answered, so that the spread may act alone     *)
(* then; but only a spread in containment, and only if it refused in the   *)
(* same stop: an installed one never does.                                 *)
SpreadNeedsCap4 ==
    [][/\ ~InForce("spread") /\ InForce("spread")' =>
             status["cap4"] = "live" /\ status'["cap4"] = "live"
       /\ ~SpreadAlone /\ SpreadAlone' =>
             pc = "stop_second" /\ ~stopped /\ status["spread"] = "contained"]_status

(* What the file must say for an owner to come in force, value by value:   *)
(* "unsupported/malformed settings fail closed, not clamped".  It is still *)
(* the file as last read while the owner is in force.                      *)
AsksFor(o, i) ==
    /\ On(i) \ SpreadGates = {"enabled", "target_this_build_only", "fail_closed"}
                             \cup Cap4Gates
    /\ \A k \in Switches : i.word[k] # "malformed"
    /\ \A k \in Switches \ Observers : i.word[k] # "absent"
    /\ i.minutes \in SupportedMinutes
    /\ On(i) \cap SpreadGates = {} \/ SpreadGates \subseteq On(i)
    /\ o = "spread" => SpreadGates \subseteq On(i)

InstalledAsAsked ==
    \A o \in Owners : InForce(o) => AsksFor(o, ini)

(* No owner's detour comes in force while an owner of an earlier session,  *)
(* or of the same init, is still waiting to be undone.                     *)
InstalledOnCleanGround ==
    [][\A o \in Owners : ~InForce(o) /\ InForce(o)' =>
          \A p \in Owners : status[p] \in {"none", "live"}]_status
=============================================================================
