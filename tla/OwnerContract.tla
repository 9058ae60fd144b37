---------------------------- MODULE OwnerContract ----------------------------
(***************************************************************************)
(* What one call of an owner (RefreshSpread or Cap4Patch) does, as seen by *)
(* the plugin's entry points: the owner before the call, the answer, and   *)
(* the owner after it.                                                     *)
(***************************************************************************)

(*   none       no site: nothing was started, or all of it was undone      *)
(*   live       installed                                                  *)
(*   contained  a rollback or a stop failed: the detour may still be there *)
(*              and is served, until a stop succeeds                       *)
(*   kept       detached, with a resource or a page protection to give     *)
(*              back                                                       *)
(*   lost       detached and retained until the process exits: no stop     *)
(*              will succeed                                               *)
Status == {"none", "live", "contained", "kept", "lost"}

(* The game may run through the owner's detour.                            *)
MayBeLive(s) == s \in {"live", "contained"}

(* A refused start leaves the owner as it was; one that fails later may    *)
(* leave its detour behind.                                                *)
StartEffect(before, answer, after) ==
    \/ ~answer /\ after = before
    \/ before = "none" /\ after \in IF answer THEN {"live"} ELSE {"contained", "kept"}

(* A failed stop never brings a detached owner back, and an owner is only  *)
(* retained until exit once it was found detached.                         *)
StopEffect(before, answer, after) ==
    \/ answer /\ before # "lost" /\ after = "none"
    \/ /\ ~answer /\ before # "none"
       /\ after \in IF MayBeLive(before) THEN {"contained", "kept"}
                    ELSE {"lost", before}
=============================================================================
