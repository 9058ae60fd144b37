-------------------------- MODULE ThreadFreeze_proofs --------------------------
(***************************************************************************)
(* For every set of threads, every capacity and every number of passes: a  *)
(* successful acquire has stopped all threads outside the forbidden        *)
(* ranges, no thread stays suspended without its handle, acquire with      *)
(* release implements the atomic freeze of the hook lifecycle, and comes   *)
(* to its end within a number of calls that is known beforehand.           *)
(***************************************************************************)
EXTENDS ThreadFreeze, FiniteSetTheorems, TLAPS

(* A handle is open exactly for the threads that were suspended.           *)
HandlesMatch ==
    \A t \in Threads : t \in handles <=> thread[t] \in {"stopping", "stopped", "ended"}

(* Only the thread whose context is read next may still run suspended.     *)
OneStopping ==
    \A t \in Threads : thread[t] = "stopping" =>
        (pc = "context" /\ t = current) \/ pc = "release"

(* A thread found inside ends the freeze.                                  *)
StoppedOutside ==
    pc # "release" => \A t \in Threads : thread[t] = "stopped" => t \notin inside

(* Why a complete pass without a new thread is enough: as long as a thread *)
(* runs, and may create others, such a pass has an unknown entry left.     *)
RunningIsListed ==
    pc = "entry" /\ ~added /\ (\E t \in Threads : thread[t] = "running")
        => snapshot \ handles # {}

AtControl ==
    /\ pc = "idle" => handles = {}
    /\ pc = "context" => current \in handles /\ added
    /\ pc = "held" => \A t \in Threads : thread[t] # "running"

IInv == /\ TypeOK /\ inside \subseteq Alive
        /\ HandlesMatch /\ OneStopping /\ StoppedOutside
        /\ RunningIsListed /\ AtControl

USE DEF Goto

(* Before the first acquire no thread is suspended.                        *)
LEMMA InitInv == Init => IInv
<1> SUFFICES ASSUME Init PROVE IInv
  OBVIOUS
<1>1. thread \in [Threads -> States]
      /\ \A t \in Threads : thread[t] \in {"absent", "running"}
  BY DEF Init, States
<1>2. TypeOK
  <2>1. inside \in SUBSET Threads
    BY DEF Init, Alive
  <2>2. pass \in 0 .. MaxPasses - 1
    BY MaxPassesAssumption DEF Init
  <2>3. QED BY <1>1, <2>1, <2>2 DEF Init, TypeOK
<1>3. inside \subseteq Alive /\ AtControl
  BY DEF Init, AtControl
<1>4. HandlesMatch /\ OneStopping /\ StoppedOutside /\ RunningIsListed
  BY <1>1 DEF Init, HandlesMatch, OneStopping, StoppedOutside, RunningIsListed
<1>5. QED BY <1>2, <1>3, <1>4 DEF IInv

(* The steps of acquire that look at the process.                          *)
LEMMA AcquireInv ==
  IInv /\ (Acquire \/ TakeSnapshot \/ GiveUp \/ SkipKnown) => IInv'
<1> SUFFICES ASSUME IInv, Acquire \/ TakeSnapshot \/ GiveUp \/ SkipKnown PROVE IInv'
  OBVIOUS
<1> USE DEF IInv, TypeOK, States, Alive, HandlesMatch, OneStopping,
            StoppedOutside, RunningIsListed, AtControl, process, progress
<1>1. CASE Acquire
  BY <1>1, MaxPassesAssumption DEF Acquire
<1>2. CASE TakeSnapshot
  BY <1>2 DEF TakeSnapshot
<1>3. CASE GiveUp
  BY <1>3 DEF GiveUp
<1>4. CASE SkipKnown
  BY <1>4 DEF SkipKnown
<1>5. QED BY <1>1, <1>2, <1>3, <1>4

(* The steps of acquire that suspend a thread and wait until it stopped.   *)
LEMMA SuspendInv == IInv /\ (Suspend \/ ReadContext) => IInv'
<1> SUFFICES ASSUME IInv, Suspend \/ ReadContext PROVE IInv'
  OBVIOUS
<1> USE DEF IInv, TypeOK, States, Alive, HandlesMatch, OneStopping,
            StoppedOutside, RunningIsListed, AtControl, process, progress
<1>1. CASE Suspend
  <2>1. PICK t \in snapshot \ handles :
          /\ thread[t] = "running"
          /\ thread' = [thread EXCEPT ![t] = "stopping"]
          /\ handles' = handles \cup {t}
          /\ snapshot' = snapshot \ {t}
          /\ current' = t
    BY <1>1 DEF Suspend
  <2>2. /\ pc = "entry" /\ pc' = "context" /\ added' = TRUE
        /\ UNCHANGED <<inside, pass>>
    BY <1>1 DEF Suspend
  <2>3. t \in Threads /\ thread'[t] = "stopping"
        /\ \A u \in Threads \ {t} : thread'[u] = thread[u]
    BY <2>1
  <2>4. TypeOK'
    BY <2>1, <2>2
  <2>5. (inside \subseteq Alive)' /\ StoppedOutside'
    BY <2>2, <2>3
  <2>6. HandlesMatch' /\ OneStopping'
    BY <2>1, <2>2, <2>3
  <2>7. RunningIsListed' /\ AtControl'
    BY <2>1, <2>2
  <2>8. QED BY <2>4, <2>5, <2>6, <2>7
<1>2. CASE ReadContext
  BY <1>2 DEF ReadContext
<1>3. QED BY <1>1, <1>2

(* The end of a pass: success only when no thread is running any more.     *)
LEMMA EndPassInv == IInv /\ EndPass => IInv'
<1> SUFFICES ASSUME IInv, EndPass PROVE IInv'
  OBVIOUS
<1> USE DEF IInv, TypeOK, States, Alive, HandlesMatch, OneStopping,
            StoppedOutside, RunningIsListed, AtControl, process, progress
<1>1. pass' \in 0 .. MaxPasses - 1
  BY MaxPassesAssumption DEF EndPass
<1>2. QED BY <1>1 DEF EndPass, Stable

(* release and the owner's thaw.                                           *)
LEMMA ReleaseInv == IInv /\ (Thaw \/ Resume \/ Released) => IInv'
<1> SUFFICES ASSUME IInv, Thaw \/ Resume \/ Released PROVE IInv'
  OBVIOUS
<1> USE DEF IInv, TypeOK, States, Alive, HandlesMatch, OneStopping,
            StoppedOutside, RunningIsListed, AtControl, process, progress
<1>1. CASE Thaw
  BY <1>1 DEF Thaw
<1>2. CASE Resume
  BY <1>2 DEF Resume, Resumed
<1>3. CASE Released
  BY <1>3 DEF Released
<1>4. QED BY <1>1, <1>2, <1>3

(* The threads of the process, which do nothing once acquire succeeded.    *)
LEMMA ProcessInv == IInv /\ Process => IInv'
<1> SUFFICES ASSUME IInv, Process PROVE IInv'
  OBVIOUS
<1> USE DEF IInv, TypeOK, States, Alive, HandlesMatch, OneStopping,
            StoppedOutside, RunningIsListed, AtControl, Runs, progress
<1>1. CASE Move
  BY <1>1 DEF Move
<1>2. CASE Create
  BY <1>2 DEF Create
<1>3. CASE End
  BY <1>3 DEF End
<1>4. QED BY <1>1, <1>2, <1>3 DEF Process

(* The inductive invariant of acquire and release.                         *)
THEOREM Inductive == Spec => []IInv
<1>1. IInv /\ [Next]_vars => IInv'
  <2>1. IInv /\ UNCHANGED vars => IInv'
    BY DEF vars, process, progress, IInv, TypeOK, Alive, HandlesMatch,
       OneStopping, StoppedOutside, RunningIsListed, AtControl
  <2>2. QED BY <2>1, AcquireInv, SuspendInv, EndPassInv, ReleaseInv, ProcessInv
            DEF Next, Proceed
<1>2. QED BY InitInv, <1>1, PTL DEF Spec

(* Every reachable state of SuspendedThreads is well typed.                *)
THEOREM TypeCorrect == Spec => []TypeOK
<1>1. IInv => TypeOK BY DEF IInv
<1>2. QED BY <1>1, Inductive, PTL

(* acquire returns true only with every other thread of the process        *)
(* stopped outside the forbidden ranges, for any number of threads that    *)
(* come and go during the passes.                                          *)
THEOREM HeldIsQuiet == Spec => []HeldMeansQuiet
<1>1. IInv => HeldMeansQuiet
  BY DEF IInv, HeldMeansQuiet, Alive, OneStopping, StoppedOutside, AtControl
<1>2. QED BY <1>1, Inductive, PTL

(* No way out of acquire leaves a thread suspended.                        *)
THEOREM NobodyLeftSuspended == Spec => []NoneLeftSuspended
<1>1. IInv => NoneLeftSuspended
  BY DEF IInv, NoneLeftSuspended, HandlesMatch, AtControl
<1>2. QED BY <1>1, Inductive, PTL

(* acquire and release implement the atomic freeze and thaw: a step of the *)
(* threads, the step that returns true, the step that begins to release,   *)
(* or no step at all.                                                      *)
THEOREM ImplementsAtomicFreeze == Spec => IsAtomicFreeze
<1>1. Init => Atomic!Init
  BY DEF Init, Atomic!Init, Alive
<1>2. IInv /\ IInv' /\ [Next]_vars => [Atomic!Next]_(Atomic!vars)
  <2> SUFFICES ASSUME IInv, IInv', [Next]_vars PROVE [Atomic!Next]_(Atomic!vars)
    OBVIOUS
  <2> USE DEF Atomic!Next, Atomic!vars, process, progress
  <2>1. ASSUME UNCHANGED Alive, UNCHANGED inside PROVE [Atomic!Next]_(Atomic!vars)
    <3>1. pc' = "held" /\ pc # "held" => inside = {}
      BY <2>1 DEF IInv, Alive, OneStopping, StoppedOutside, AtControl
    <3>2. QED BY <2>1, <3>1 DEF Atomic!Freeze, Atomic!Thaw
  <2>2. ASSUME pc # "held", pc' # "held" PROVE [Atomic!Next]_(Atomic!vars)
    BY <2>2 DEF Atomic!Run, IInv, Alive
  <2>3. CASE Process
    <3>1. pc # "held"
      BY <2>3 DEF Process, Move, Create, End, Runs, IInv, OneStopping, AtControl
    <3>2. pc' = pc
      BY <2>3 DEF Process, Move, Create, End
    <3>3. QED BY <3>1, <3>2, <2>2
  <2>4. CASE Acquire \/ TakeSnapshot \/ GiveUp \/ SkipKnown \/ EndPass \/ Thaw \/ Released
    <3>1. UNCHANGED <<thread, inside>>
      BY <2>4 DEF Acquire, TakeSnapshot, GiveUp, SkipKnown, EndPass, Thaw, Released
    <3>2. QED BY <3>1, <2>1 DEF Alive
  <2>5. CASE Suspend \/ ReadContext \/ Resume
    <3>1. pc # "held" /\ pc' # "held"
      BY <2>5 DEF Suspend, ReadContext, Resume
    <3>2. QED BY <3>1, <2>2
  <2>6. CASE UNCHANGED vars
    BY <2>6, <2>1 DEF vars, Alive
  <2>7. QED BY <2>3, <2>4, <2>5, <2>6 DEF Next, Proceed
<1>3. QED BY <1>1, <1>2, Inductive, PTL DEF Spec, Atomic!Spec, IsAtomicFreeze

-----------------------------------------------------------------------------
(* How many calls an acquire or a release has still to make at most: two   *)
(* for every entry of the snapshot, two for every pass, and in the end one *)
(* for every handle that is open.                                          *)
N == Cardinality(Threads)
PassCost == 2 * N + 2
InPass == IF pc = "snapshot" THEN 2 * N + 1
          ELSE 2 * Cardinality(snapshot) + (IF pc = "context" THEN 1 ELSE 0)
StepsLeft ==
    IF pc \in {"idle", "held"} THEN 0
    ELSE IF pc = "release" THEN 1 + Cardinality(handles)
    ELSE N + 2 + (MaxPasses - 1 - pass) * PassCost + InPass

(* The sets of threads that acquire keeps are finite.                      *)
LEMMA Sizes ==
  ASSUME NEW S \in SUBSET Threads
  PROVE  IsFiniteSet(S) /\ Cardinality(S) \in 0 .. N /\ N \in Nat
<1>1. IsFiniteSet(S) /\ Cardinality(S) <= Cardinality(Threads)
  BY ThreadsAssumption, FS_Subset
<1>2. Cardinality(S) \in Nat /\ Cardinality(Threads) \in Nat
  BY <1>1, ThreadsAssumption, FS_CardinalityType
<1>3. QED BY <1>1, <1>2 DEF N

(* An element less is one less to count.                                   *)
LEMMA OneLess ==
  ASSUME NEW S \in SUBSET Threads, NEW t \in S
  PROVE  Cardinality(S \ {t}) = Cardinality(S) - 1
BY Sizes, FS_RemoveElement

(* Another pass costs as much as the pass that it follows.                 *)
LEMMA NextPass ==
  ASSUME NEW m \in Nat, NEW k \in Nat
  PROVE  (m + 1) * k = m * k + k /\ m * k \in Nat
OBVIOUS

(* The passes that are left cost something.                                *)
LEMMA PassesLeft ==
  TypeOK => /\ MaxPasses - 1 - pass \in Nat /\ PassCost \in Nat /\ N \in Nat
            /\ (MaxPasses - 1 - pass) * PassCost \in 0 .. (MaxPasses - 1) * PassCost
<1> SUFFICES ASSUME TypeOK
             PROVE /\ MaxPasses - 1 - pass \in Nat /\ PassCost \in Nat /\ N \in Nat
                   /\ (MaxPasses - 1 - pass) * PassCost \in 0 .. (MaxPasses - 1) * PassCost
  OBVIOUS
<1>1. N \in Nat
  BY Sizes
<1>2. PassCost \in Nat
  BY <1>1 DEF PassCost
<1>3. pass \in Nat /\ MaxPasses - 1 - pass \in Nat
  BY MaxPassesAssumption DEF TypeOK
<1>4. (MaxPasses - 1 - pass) * PassCost \in Nat /\ pass * PassCost \in Nat
  BY <1>2, <1>3, NextPass
<1>5. (MaxPasses - 1) * PassCost = (MaxPasses - 1 - pass) * PassCost + pass * PassCost
  <2> DEFINE a == MaxPasses - 1 - pass
  <2>1. ASSUME NEW x \in Nat, NEW y \in Nat, NEW k \in Nat PROVE (x + y) * k = x * k + y * k
    OBVIOUS
  <2>2. (a + pass) * PassCost = a * PassCost + pass * PassCost
    BY <2>1, <1>2, <1>3
  <2>3. a + pass = MaxPasses - 1
    BY <1>3, MaxPassesAssumption
  <2>4. QED BY <2>2, <2>3
<1>6. QED BY <1>1, <1>2, <1>3, <1>4, <1>5

(* An acquire with the release that follows a failure makes at most this   *)
(* many calls, however many threads come and go: the code's passes are     *)
(* bounded, and so is what it does in each of them.                        *)
LEMMA Bounded == TypeOK => StepsLeft \in 0 .. N + 1 + MaxPasses * PassCost
<1> SUFFICES ASSUME TypeOK PROVE StepsLeft \in 0 .. N + 1 + MaxPasses * PassCost
  OBVIOUS
<1>1. Cardinality(snapshot) \in 0 .. N /\ Cardinality(handles) \in 0 .. N /\ N \in Nat
  BY Sizes DEF TypeOK
<1>2. MaxPasses * PassCost = (MaxPasses - 1) * PassCost + PassCost
      /\ (MaxPasses - 1) * PassCost \in Nat
  <2>1. MaxPasses - 1 \in Nat /\ (MaxPasses - 1) + 1 = MaxPasses
    BY MaxPassesAssumption
  <2>2. QED BY <2>1, NextPass, PassesLeft
<1> DEFINE rest == (MaxPasses - 1 - pass) * PassCost
           most == (MaxPasses - 1) * PassCost
           all == MaxPasses * PassCost
<1>3. rest \in 0 .. most
  BY PassesLeft
<1>4. PassCost = 2 * N + 2
  BY DEF PassCost
<1>5. InPass \in 0 .. 2 * N + 1
  BY <1>1 DEF InPass
<1>6. StepsLeft = (IF pc \in {"idle", "held"} THEN 0
                   ELSE IF pc = "release" THEN 1 + Cardinality(handles)
                   ELSE N + 2 + rest + InPass)
  BY DEF StepsLeft
<1>7. all = most + 2 * N + 2 /\ most \in Nat
  BY <1>1, <1>2, <1>4
<1> HIDE DEF rest, most, all
<1>8. StepsLeft \in 0 .. N + 1 + all
  BY <1>1, <1>3, <1>5, <1>6, <1>7
<1>9. QED BY <1>8 DEF all

(* Every call of acquire and release brings the end nearer.                *)
LEMMA Nearer == IInv /\ Proceed => StepsLeft' < StepsLeft
<1> SUFFICES ASSUME IInv, Proceed PROVE StepsLeft' < StepsLeft
  OBVIOUS
<1>1. TypeOK
  BY DEF IInv
<1>2. Cardinality(snapshot) \in 0 .. N /\ Cardinality(handles) \in 0 .. N /\ N \in Nat
  BY <1>1, Sizes DEF TypeOK
<1>3. PassCost \in Nat /\ (MaxPasses - 1 - pass) * PassCost \in Nat
  BY <1>1, PassesLeft
<1> DEFINE rest == (MaxPasses - 1 - pass) * PassCost
<1>4. rest \in Nat
  BY <1>3
<1>5. UNCHANGED pass => rest' = rest
  BY DEF PassCost, N
<1>6. StepsLeft = (IF pc \in {"idle", "held"} THEN 0
                   ELSE IF pc = "release" THEN 1 + Cardinality(handles)
                   ELSE N + 2 + rest + InPass)
  BY DEF StepsLeft
<1>7. StepsLeft' = (IF pc' \in {"idle", "held"} THEN 0
                    ELSE IF pc' = "release" THEN 1 + Cardinality(handles')
                    ELSE N + 2 + rest' + InPass')
  BY DEF StepsLeft, PassCost, N
<1>8. InPass' = (IF pc' = "snapshot" THEN 2 * N + 1
                 ELSE 2 * Cardinality(snapshot') + (IF pc' = "context" THEN 1 ELSE 0))
  BY DEF InPass, N
<1> USE DEF InPass
<1>9. CASE TakeSnapshot
  <2>1. Alive \in SUBSET Threads
    BY DEF Alive
  <2>2. Cardinality(Alive) \in 0 .. N
    BY <2>1, Sizes
  <2>3. /\ pc = "snapshot" /\ pc' = "entry" /\ snapshot' = Alive /\ UNCHANGED pass
    BY <1>9 DEF TakeSnapshot
  <2> HIDE DEF rest
  <2>4. QED BY <1>2, <1>4, <1>5, <1>6, <1>7, <1>8, <2>2, <2>3
<1>10. CASE GiveUp
  <2>1. /\ pc \in {"snapshot", "entry", "context"} /\ pc' = "release"
        /\ UNCHANGED handles
    BY <1>10 DEF GiveUp
  <2> HIDE DEF rest
  <2>2. InPass \in Nat
    BY <1>2
  <2>3. QED BY <1>2, <1>4, <1>6, <1>7, <2>1, <2>2
<1>11. CASE SkipKnown
  <2>1. PICK t \in snapshot \cap handles : snapshot' = snapshot \ {t}
    BY <1>11 DEF SkipKnown
  <2>2. Cardinality(snapshot') = Cardinality(snapshot) - 1
    BY <1>1, <2>1, OneLess DEF TypeOK
  <2>3. pc = "entry" /\ pc' = "entry" /\ UNCHANGED pass
    BY <1>11 DEF SkipKnown, progress
  <2> HIDE DEF rest
  <2>4. QED BY <1>2, <1>4, <1>5, <1>6, <1>7, <1>8, <2>2, <2>3
<1>12. CASE Suspend
  <2>1. PICK t \in snapshot : snapshot' = snapshot \ {t}
    BY <1>12 DEF Suspend
  <2>2. Cardinality(snapshot') = Cardinality(snapshot) - 1
    BY <1>1, <2>1, OneLess DEF TypeOK
  <2>3. pc = "entry" /\ pc' = "context" /\ UNCHANGED pass
    BY <1>12 DEF Suspend
  <2> HIDE DEF rest
  <2>4. QED BY <1>2, <1>4, <1>5, <1>6, <1>7, <1>8, <2>2, <2>3
<1>13. CASE ReadContext
  <2>1. /\ pc = "context" /\ pc' \in {"entry", "release"}
        /\ UNCHANGED <<pass, handles, snapshot>>
    BY <1>13 DEF ReadContext, progress
  <2> HIDE DEF rest
  <2>2. QED BY <1>2, <1>4, <1>5, <1>6, <1>7, <1>8, <2>1
<1>14. CASE EndPass
  <2>1. CASE pc' = "held"
    <3>1. pc = "entry"
      BY <1>14 DEF EndPass
    <3>2. StepsLeft' = 0
      BY <1>7, <2>1
    <3> HIDE DEF rest
    <3>3. QED BY <1>2, <1>4, <1>6, <3>1, <3>2
  <2>2. CASE pc' = "snapshot"
    <3>1. /\ pc = "entry" /\ pass' = pass + 1 /\ pass + 1 < MaxPasses
      BY <1>14, <2>2 DEF EndPass
    <3>2. rest = rest' + PassCost /\ rest' \in Nat
      <4>1. MaxPasses - 1 - pass' \in Nat
            /\ (MaxPasses - 1 - pass') + 1 = MaxPasses - 1 - pass
        BY <1>1, <3>1, MaxPassesAssumption DEF TypeOK
      <4>2. rest' = (MaxPasses - 1 - pass') * PassCost
        BY DEF PassCost, N
      <4>3. QED BY <1>3, <4>1, <4>2, NextPass
    <3>3. PassCost = 2 * N + 2
      BY DEF PassCost
    <3> HIDE DEF rest
    <3>4. QED BY <1>2, <1>6, <1>7, <1>8, <2>2, <3>1, <3>2, <3>3
  <2>3. CASE pc' = "release"
    <3>1. pc = "entry" /\ UNCHANGED handles
      BY <1>14, <2>3 DEF EndPass
    <3> HIDE DEF rest
    <3>2. QED BY <1>2, <1>4, <1>6, <1>7, <2>3, <3>1
  <2>4. QED BY <1>14, <2>1, <2>2, <2>3 DEF EndPass
<1>15. CASE Resume
  <2>1. PICK t \in handles : handles' = handles \ {t}
    BY <1>15 DEF Resume
  <2>2. Cardinality(handles') = Cardinality(handles) - 1
    BY <1>1, <2>1, OneLess DEF TypeOK
  <2>3. pc = "release" /\ pc' = "release"
    BY <1>15 DEF Resume
  <2> HIDE DEF rest
  <2>4. QED BY <1>2, <1>6, <1>7, <2>2, <2>3
<1>16. CASE Released
  <2>1. pc = "release" /\ pc' = "idle"
    BY <1>16 DEF Released
  <2> HIDE DEF rest
  <2>2. QED BY <1>2, <1>6, <1>7, <2>1
<1>17. QED BY <1>9, <1>10, <1>11, <1>12, <1>13, <1>14, <1>15, <1>16 DEF Proceed

(* acquire is never held up for good: whatever the other threads do, it    *)
(* has at most this many calls to make until it has answered or released   *)
(* all it suspended.                                                       *)
THEOREM AcquireBounded == Spec => [](StepsLeft \in 0 .. N + 1 + MaxPasses * PassCost)
BY TypeCorrect, Bounded, PTL

(* A call of acquire or release brings the end nearer, a step of the       *)
(* threads leaves it where it is.                                          *)
Advances == /\ Proceed => StepsLeft' < StepsLeft
            /\ Process => StepsLeft' = StepsLeft

(* Nothing the other threads do puts the end of an acquire off: with the   *)
(* bound above, what AcquireAnswers rests on.                              *)
THEOREM AcquireAdvances == Spec => [][Advances]_vars
<1>1. Process => StepsLeft' = StepsLeft
  <2>1. Process => UNCHANGED <<pc, handles, snapshot, pass>>
    BY DEF Process, Move, Create, End, progress
  <2>2. QED BY <2>1 DEF StepsLeft, InPass, PassCost, N
<1>2. IInv /\ [Next]_vars => [Advances]_vars
  BY <1>1, Nearer DEF Advances
<1>3. QED BY <1>2, Inductive, PTL DEF Spec
=============================================================================
