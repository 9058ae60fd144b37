----------------------------- MODULE AtomicFreeze -----------------------------
(***************************************************************************)
(* What Site::freeze and Site::thaw promise the hook lifecycle, which      *)
(* models a freeze as one step: the process is suspended as a whole, at a  *)
(* moment when no thread is in a forbidden range, or it is not suspended.  *)
(***************************************************************************)
CONSTANT Threads

VARIABLES
    alive,   \* the threads of the process, the caller excepted
    inside,  \* those that are in a forbidden range
    frozen

vars == <<alive, inside, frozen>>

Init == alive \subseteq Threads /\ inside \subseteq alive /\ frozen = FALSE

(* Threads are created, end, and move while the process is not suspended.  *)
Run == /\ ~frozen
       /\ alive' \in SUBSET Threads
       /\ inside' \in SUBSET alive'
       /\ UNCHANGED frozen

Freeze == inside = {} /\ frozen' = TRUE /\ UNCHANGED <<alive, inside>>

Thaw == frozen' = FALSE /\ UNCHANGED <<alive, inside>>

Next == Run \/ Freeze \/ Thaw

Spec == Init /\ [][Next]_vars
=============================================================================
