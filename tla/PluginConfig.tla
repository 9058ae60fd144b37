---------------------------- MODULE PluginConfig ----------------------------
(***************************************************************************)
(* What load_config (src/src/config.cpp) makes of the INI file, and the    *)
(* two refusals of PluginConfig (src/src/config.h).                        *)
(*                                                                         *)
(* A value is what the reader tells apart: a Boolean word, one of the      *)
(* supported periods, no value, or anything else.  Settings that are on    *)
(* are kept as a set in place of one Boolean field each.                   *)
(***************************************************************************)
EXTENDS Naturals

CONSTANT Observers   \* the settings of earlier releases, refused when on

Cap4Gates == {"cap4_install", "cap4_enabled"}
SpreadGates == {"refresh_spread_install", "refresh_spread_enabled"}
Safety == {"target_this_build_only", "allow_unknown_build", "fail_closed"}
Switches == {"enabled"} \cup Cap4Gates \cup SpreadGates \cup Safety \cup Observers

SupportedMinutes == {"60", "120", "180", "1440"}

(* The file: a word for each switch, and the minutes.                      *)
Ini == [word : [Switches -> {"true", "false", "malformed", "absent"}],
        minutes : SupportedMinutes \cup {"malformed", "absent"}]

NoIni == [word |-> [k \in Switches |-> "absent"], minutes |-> "absent"]

Config == [ini_found : BOOLEAN, on : SUBSET Switches,
           refresh_spread_minutes : SupportedMinutes,
           config_valid : BOOLEAN, hook_config_valid : BOOLEAN]

(* Without a file, or when even looking for it fails.                      *)
NoConfig == [ini_found |-> FALSE, on |-> {"target_this_build_only", "fail_closed"},
             refresh_spread_minutes |-> "60",
             config_valid |-> FALSE, hook_config_valid |-> FALSE]

On(ini) == {k \in Switches : ini.word[k] = "true"}

Readable(ini, k) == \/ ini.word[k] \in {"true", "false"}
                    \/ ini.word[k] = "absent" /\ k \in Observers

Loaded(ini) ==
    LET valid == /\ \A k \in Switches \ Safety : Readable(ini, k)
                 /\ ini.minutes \in SupportedMinutes
    IN [ini_found |-> TRUE, on |-> On(ini),
        refresh_spread_minutes |->
            IF ini.minutes \in SupportedMinutes THEN ini.minutes ELSE "60",
        config_valid |-> valid,
        hook_config_valid |-> valid /\ \A k \in Safety : Readable(ini, k)]

(* An exception ends the reading: what was read by then stays, all valid   *)
(* flags are false, and settings not read have their defaults.             *)
Interrupted(ini) ==
    {[NoConfig EXCEPT !.ini_found = TRUE, !.on = (On(ini) \cap read) \cup (@ \ read)] :
        read \in {{}, {"enabled"}, {"enabled", "cap4_install"},
                  {"enabled"} \cup Cap4Gates,
                  {"enabled"} \cup Cap4Gates \cup {"refresh_spread_install"},
                  {"enabled"} \cup Cap4Gates \cup SpreadGates, Switches}}

Cap4Refusal(c) ==
    \/ ~(Cap4Gates \subseteq c.on)
    \/ ~c.ini_found \/ "enabled" \notin c.on
    \/ ~c.config_valid \/ ~c.hook_config_valid
    \/ c.on \cap Safety # {"target_this_build_only", "fail_closed"}
    \/ c.on \cap Observers # {}

SpreadRefusal(c) ==
    \/ ~(SpreadGates \subseteq c.on)
    \/ ~c.config_valid \/ c.refresh_spread_minutes \notin SupportedMinutes
    \/ Cap4Refusal(c)

Refusal(o, c) == IF o = "cap4" THEN Cap4Refusal(c) ELSE SpreadRefusal(c)

(* Either gate of an owner asks for it; only both together are accepted.   *)
Requested(o, c) == c.on \cap (IF o = "cap4" THEN Cap4Gates ELSE SpreadGates) # {}
=============================================================================
