----------------------------- MODULE OwnerCalls -----------------------------
(***************************************************************************)
(* HookLifecycle seen from the entry points, call by call: it keeps        *)
(* OwnerContract, on which PluginHost builds.                              *)
(***************************************************************************)
EXTENDS HookLifecycle, OwnerContract

VARIABLE before   \* history: the owner's status when its last call began

callVars == <<vars, before>>

OwnerStatus == CASE ~site -> "none"
                 [] site /\ phase = "installed" -> "live"
                 [] site /\ phase = "containment" -> "contained"
                 [] site /\ phase = "retained_until_exit" -> "lost"
                 [] OTHER -> "kept"

CallsInit == Init /\ before = "none"

CallsNext ==
    /\ Next
    /\ before' = IF pc = "idle" /\ pc' # "idle" THEN OwnerStatus ELSE before

(* A call runs on the host's thread, which nothing in the process blocks:  *)
(* freeze() suspends every thread but this one.                            *)
CallsFairness == WF_callVars(Proceed /\ CallsNext)

CallsSpec == CallsInit /\ [][CallsNext]_callVars /\ CallsFairness

(* Every call of start or stop answers and leaves the owner as the entry   *)
(* points expect: an owner that could not be undone is never reported or   *)
(* treated as gone, nor one that runs as failed.                           *)
KeepsOwnerContract ==
    [][pc = "return" =>
          IF call = "install" THEN StartEffect(before, answer, OwnerStatus')
                              ELSE StopEffect(before, answer, OwnerStatus')]_pc

(* Every call returns to the entry point, whichever of its steps fail: a   *)
(* stop that calls itself again to repair the page, and does so from a     *)
(* late cleanup, never does so endlessly.                                  *)
CallReturns == (pc # "idle") ~> (pc = "idle")
=============================================================================
