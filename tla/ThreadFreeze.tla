----------------------------- MODULE ThreadFreeze -----------------------------
(***************************************************************************)
(* SuspendedThreads (src/src/hook_quiescence.h): acquire suspends every    *)
(* other thread of the process, pass after pass over fresh snapshots,      *)
(* while the threads it has not reached yet run, create threads and end.   *)
(*                                                                         *)
(* One step is one Windows call with what the code concludes from it.  The *)
(* entries of other processes and of the calling thread, which the loop    *)
(* skips, are left out of the snapshots.  The order of handles_ is not     *)
(* told apart: release resumes them in any order.                          *)
(***************************************************************************)
EXTENDS Naturals, FiniteSets

CONSTANTS
    Threads,   \* thread ids of the process, the caller's excepted
    Capacity,  \* kMaximumSuspendedThreads
    MaxPasses  \* closure attempts, 4 in the code

ASSUME ThreadsAssumption == IsFiniteSet(Threads)
ASSUME CapacityAssumption == Capacity \in Nat
ASSUME MaxPassesAssumption == MaxPasses \in Nat \ {0}

VARIABLES
    thread,    \* what each id stands for
    inside,    \* the threads that are in a forbidden range
    handles,   \* ids_ and handles_, as a set
    snapshot,  \* entries of the current snapshot not enumerated yet
    pass, added,
    current,   \* the thread whose context is read next
    pc

process == <<thread, inside>>
progress == <<pass, added, current>>
vars == <<process, handles, snapshot, progress, pc>>

(*   absent    no thread has this id                                       *)
(*   stopping  SuspendThread has returned, the thread may still run on     *)
(*   stopped   it runs no more: its context has been read                  *)
(*   ended     gone, but an open handle keeps its id from being reused     *)
States == {"absent", "running", "stopping", "stopped", "ended"}

Alive == {t \in Threads : thread[t] \in {"running", "stopping", "stopped"}}
Runs(t) == thread[t] \in {"running", "stopping"}

TypeOK ==
    /\ thread \in [Threads -> States]
    /\ inside \in SUBSET Threads
    /\ handles \in SUBSET Threads
    /\ snapshot \in SUBSET Threads
    /\ pass \in 0 .. MaxPasses - 1
    /\ added \in BOOLEAN
    /\ current \in Threads \cup {"none"}
    /\ pc \in {"idle", "snapshot", "entry", "context", "release", "held"}

Init ==
    /\ thread \in [Threads -> {"absent", "running"}]
    /\ inside \in SUBSET Alive
    /\ handles = {} /\ snapshot = {}
    /\ pass = 0 /\ added = FALSE /\ current = "none"
    /\ pc = "idle"

Goto(label) == pc' = label

-----------------------------------------------------------------------------
(* acquire                                                                 *)

Acquire ==
    /\ pc = "idle"
    /\ pass' = 0
    /\ Goto("snapshot")
    /\ UNCHANGED <<process, handles, snapshot, added, current>>

TakeSnapshot ==
    /\ pc = "snapshot"
    /\ snapshot' = Alive
    /\ added' = FALSE
    /\ Goto("entry")
    /\ UNCHANGED <<process, handles, pass, current>>

(* A snapshot that cannot be taken or enumerated, a thread that cannot be  *)
(* opened, suspended or looked at: all it has suspended is released.       *)
GiveUp ==
    /\ pc \in {"snapshot", "entry", "context"}
    /\ Goto("release")
    /\ UNCHANGED <<process, handles, snapshot, progress>>

SkipKnown ==
    /\ pc = "entry"
    /\ \E t \in snapshot \cap handles : snapshot' = snapshot \ {t}
    /\ UNCHANGED <<process, handles, progress, pc>>

HasRoom == Cardinality(handles) < Capacity

(* OpenThread and SuspendThread of an entry that still is a thread.        *)
Suspend ==
    /\ pc = "entry"
    /\ HasRoom
    /\ \E t \in snapshot \ handles :
          /\ thread[t] = "running"
          /\ thread' = [thread EXCEPT ![t] = "stopping"]
          /\ handles' = handles \cup {t}
          /\ snapshot' = snapshot \ {t}
          /\ current' = t
    /\ added' = TRUE
    /\ Goto("context")
    /\ UNCHANGED <<inside, pass>>

(* GetThreadContext returns once the thread has stopped, and tells where.  *)
ReadContext ==
    /\ pc = "context"
    /\ thread' = [thread EXCEPT ![current] = IF @ = "stopping" THEN "stopped" ELSE @]
    /\ Goto(IF current \in inside THEN "release" ELSE "entry")
    /\ UNCHANGED <<inside, handles, snapshot, progress>>

StableAfterTwo == pass # 0                                            \* mutant
Stable == pass # 0 /\ ~added

EndPassUncounted ==                                                   \* mutant
    /\ pc = "entry" /\ snapshot = {}
    /\ Goto(IF Stable THEN "held" ELSE "snapshot")
    /\ UNCHANGED <<process, handles, snapshot, progress>>

EndPass ==
    /\ pc = "entry" /\ snapshot = {}
    /\ \/ /\ Stable
          /\ Goto("held") /\ UNCHANGED pass
       \/ /\ ~Stable /\ pass + 1 < MaxPasses
          /\ pass' = pass + 1
          /\ Goto("snapshot")
       \/ /\ ~Stable /\ pass + 1 = MaxPasses
          /\ Goto("release") /\ UNCHANGED pass
    /\ UNCHANGED <<process, handles, snapshot, added, current>>

-----------------------------------------------------------------------------
(* release, at the end of a failed acquire or by the owner's thaw.         *)

Thaw ==
    /\ pc = "held"
    /\ Goto("release")
    /\ UNCHANGED <<process, handles, snapshot, progress>>

Resumed(state) == IF state = "ended" THEN "absent" ELSE "running"

Resume ==
    /\ pc = "release"
    /\ \E t \in handles :
          /\ thread' = [thread EXCEPT ![t] = Resumed(@)]
          /\ handles' = handles \ {t}
    /\ UNCHANGED <<inside, snapshot, progress, pc>>

ReleasedAtOnce ==                                                     \* mutant
    /\ pc = "release"
    /\ handles' = {}
    /\ Goto("idle")
    /\ UNCHANGED <<process, snapshot, progress>>

Released ==
    /\ pc = "release" /\ handles = {}
    /\ Goto("idle")
    /\ UNCHANGED <<process, handles, snapshot, progress>>

-----------------------------------------------------------------------------
(* The threads of the process.                                             *)

Move ==
    /\ \E t \in Threads :
          /\ Runs(t)
          /\ inside' \in {inside \cup {t}, inside \ {t}}
    /\ UNCHANGED <<thread, handles, snapshot, progress, pc>>

(* Threads are created by a running one, or by the caller outside acquire. *)
Create ==
    /\ pc = "idle" \/ \E t \in Threads : Runs(t)
    /\ \E t \in Threads :
          /\ thread[t] = "absent"
          /\ thread' = [thread EXCEPT ![t] = "running"]
    /\ UNCHANGED <<inside, handles, snapshot, progress, pc>>

End ==
    /\ \E t \in Threads :
          /\ Runs(t)
          /\ thread' = [thread EXCEPT ![t] = IF t \in handles THEN "ended" ELSE "absent"]
          /\ inside' = inside \ {t}
    /\ UNCHANGED <<handles, snapshot, progress, pc>>

Process == Move \/ Create \/ End

Proceed == \/ TakeSnapshot \/ GiveUp \/ SkipKnown \/ Suspend \/ ReadContext
           \/ EndPass \/ Resume \/ Released

Next == Process \/ Acquire \/ Thaw \/ Proceed

Spec == Init /\ [][Next]_vars /\ WF_vars(Proceed)

-----------------------------------------------------------------------------
(* When acquire has reported success, every thread of the process has      *)
(* stopped, outside the forbidden ranges: none that was created while the  *)
(* passes went on was missed, and none runs on after its suspension.       *)
HeldMeansQuiet ==
    pc = "held" => \A t \in Alive : thread[t] = "stopped" /\ t \notin inside

(* A thread is suspended only as long as its handle is kept: no path out   *)
(* of acquire, at its limits or after a failure, leaves one behind.        *)
NoneLeftSuspended ==
    \A t \in Threads : thread[t] \in {"stopping", "stopped"} =>
        t \in handles /\ pc # "idle"

(* acquire is the one atomic freeze that the hook lifecycle takes it for.  *)
Atomic == INSTANCE AtomicFreeze WITH alive <- Alive, frozen <- pc = "held"
IsAtomicFreeze == Atomic!Spec

(* However the threads come and go, acquire comes to an answer.            *)
AcquireAnswers == pc = "snapshot" ~> pc \in {"held", "idle"}
=============================================================================
