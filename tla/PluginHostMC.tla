----------------------------- MODULE PluginHostMC -----------------------------
(* PluginHost with files that differ from the two example files of the     *)
(* repository, or from the one with CAP4 alone, in at most one setting.    *)
EXTENDS PluginHost, FiniteSets

ActiveWord == [k \in Switches |->
    IF k \in Observers THEN "absent"
    ELSE IF k = "allow_unknown_build" THEN "false" ELSE "true"]

Example(off) ==
    [word |-> [k \in Switches |-> IF k \in off THEN "false" ELSE ActiveWord[k]],
     minutes |-> "1440"]

(* Both patches, CAP4 alone, none.                                         *)
Examples == {Example({}), Example(SpreadGates), Example(Cap4Gates \cup SpreadGates)}

Changed(i) == {[i EXCEPT !.word[k] = w] :
                 k \in Switches, w \in {"true", "false", "malformed", "absent"}}
              \cup {[i EXCEPT !.minutes = m] : m \in {"60", "malformed", "absent"}}

OneChange == UNION {Changed(i) : i \in Examples}
=============================================================================
