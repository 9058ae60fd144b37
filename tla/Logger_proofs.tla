----------------------------- MODULE Logger_proofs -----------------------------
(***************************************************************************)
(* Proofs about Logger, for all sets of files, line lengths, limits and    *)
(* intervals and every width of the byte counts.                           *)
(***************************************************************************)
EXTENDS Logger, TLAPS

(* Before a failure, the oldest byte came after the last flush.            *)
AgeInv == good => oldest <= since

IInv == TypeOK /\ RemainingIsExact /\ CountCoversFile /\ AgeInv

-----------------------------------------------------------------------------
LEMMA Unwrapped == ASSUME NEW w \in Nat, NEW x \in 0 .. w - 1 PROVE x % w = x
  OBVIOUS

(* While the log goes on, the difference of unsigned numbers is exact, and *)
(* a line that fits can be counted without wrapping.                       *)
LEMMA LineFits ==
    ASSUME TypeOK, RemainingIsExact, ~size_limit_reached, NEW n \in Lengths, n <= Remaining
    PROVE  (current_bytes + n) % Word = current_bytes + n /\ current_bytes + n <= max_bytes
<1>1. /\ Word \in Nat /\ n \in Nat /\ max_bytes \in 0 .. Word - 1 /\ current_bytes \in Nat
      /\ current_bytes <= max_bytes
  BY LoggerAssumption DEF TypeOK, RemainingIsExact
<1>2. Remaining = max_bytes - current_bytes
  <2>1. max_bytes - current_bytes \in 0 .. Word - 1
    BY <1>1
  <2> QED BY <1>1, <2>1, Unwrapped DEF Remaining
<1>3. current_bytes + n \in 0 .. Word - 1 /\ current_bytes + n <= max_bytes
  BY <1>1, <1>2
<1> QED BY <1>1, <1>3, Unwrapped

(* Whatever becomes of the bytes in the stream, file and stream together   *)
(* have no more than before and what was put in; a synced stream that has  *)
(* not failed is empty.                                                    *)
LEMMA StreamConserves ==
    ASSUME TypeOK, is_open, NEW n \in Nat, NEW synced \in BOOLEAN, Stream(n, synced)
    PROVE  /\ good' \in BOOLEAN /\ buffered' \in Nat /\ disk' \in [Paths -> Nat]
           /\ disk'[path] + buffered' <= disk[path] + buffered + n
           /\ oldest' \in 0 .. Long
           /\ good' => good /\ (synced => buffered' = 0)
           /\ good' => oldest' = 0 \/ (oldest' = oldest /\ ~synced)
<1> PICK stored \in 0 .. buffered + n, kept \in 0 .. buffered + n, ok \in BOOLEAN :
          /\ IF good THEN Puts(buffered + n, synced, stored, kept, ok)
                     ELSE Unput(stored, kept, ok)
          /\ good' = ok
          /\ disk' = Growing(stored) /\ buffered' = kept
          /\ oldest' = IF kept = 0 \/ buffered = 0 THEN 0 ELSE oldest
  BY DEF Stream
<1>0. /\ path \in Paths /\ disk \in [Paths -> Nat] /\ buffered \in Nat
      /\ since \in 0 .. Long /\ oldest \in 0 .. Long /\ Long \in Nat
  BY LoggerAssumption DEF TypeOK, is_open
<1>1. stored + kept <= buffered + n /\ stored \in Nat /\ kept \in Nat
  BY <1>0 DEF Puts, Unput
<1>2. ok => good /\ (synced => kept = 0)
  BY DEF Puts, Unput
<1>3. disk' \in [Paths -> Nat] /\ disk'[path] = disk[path] + stored
  BY <1>0, <1>1 DEF Growing
<1>4. disk[path] \in Nat
  BY <1>0
<1> QED BY <1>0, <1>1, <1>2, <1>3, <1>4

LEMMA SyncedStream ==
    ASSUME TypeOK, is_open, Stream(0, TRUE), path' = path
    PROVE  /\ good' \in BOOLEAN /\ buffered' \in Nat /\ disk' \in [Paths -> Nat]
           /\ disk'[path] + buffered' <= disk[path] + buffered
           /\ oldest' \in 0 .. Long
           /\ good' => buffered' = 0 /\ oldest' = 0
           /\ disk[path] \in Nat /\ disk'[path] \in Nat /\ buffered \in Nat
<1>1. /\ good' \in BOOLEAN /\ buffered' \in Nat /\ disk' \in [Paths -> Nat]
      /\ disk'[path] + buffered' <= disk[path] + buffered + 0
      /\ oldest' \in 0 .. Long
      /\ good' => buffered' = 0
      /\ good' => oldest' = 0
  BY StreamConserves, 0 \in Nat, TRUE \in BOOLEAN
<1>2. /\ disk[path] \in Nat /\ disk'[path] \in Nat /\ buffered \in Nat
  BY <1>1 DEF TypeOK, is_open
<1> QED BY <1>1, <1>2

-----------------------------------------------------------------------------
LEMMA ClosedInvariant ==
    ASSUME TypeOK, Closed, disk' \in [Paths -> Nat],
           max_bytes' \in Limits, flush_interval' \in Intervals
    PROVE  IInv'
<1>0. 0 \in 0 .. Word - 1 /\ Long \in Nat /\ max_bytes' \in Nat
  BY LoggerAssumption
<1>1. TypeOK'
  <2>1. /\ path' = NoPath /\ good' = TRUE /\ buffered' = 0 /\ lines' = 0
        /\ current_bytes' = 0 /\ size_limit_reached' = FALSE
        /\ since' = Long /\ measured' = FALSE /\ oldest' = 0
    BY DEF Closed
  <2>2. Long \in 0 .. Long /\ 0 \in 0 .. Long
    BY <1>0
  <2> QED BY <1>0, <2>1, <2>2 DEF TypeOK
<1>2. RemainingIsExact' /\ CountCoversFile' /\ AgeInv'
  BY <1>0 DEF Closed, RemainingIsExact, CountCoversFile, AgeInv, is_open
<1> QED BY <1>1, <1>2 DEF IInv

LEMMA OpenedInvariant ==
    ASSUME TypeOK, NEW p \in Paths, Opened(p, disk'), disk' \in [Paths -> Nat],
           UNCHANGED settings
    PROVE  IInv'
<1>1. disk'[p] \in Nat /\ Word \in Nat \ {0} /\ Long \in Nat /\ p # NoPath
  BY LoggerAssumption
<1>2. measured' \in BOOLEAN /\ (measured' => disk'[p] < Word)
  BY DEF Opened
<1>3. current_bytes' \in 0 .. Word - 1
  BY <1>1, <1>2 DEF Opened
<1>4. max_bytes' = max_bytes /\ flush_interval' = flush_interval /\ max_bytes \in Nat
  BY LoggerAssumption DEF settings, TypeOK
<1>5. TypeOK'
  BY <1>1, <1>2, <1>3, <1>4 DEF TypeOK, Opened
<1>6. RemainingIsExact' /\ CountCoversFile' /\ AgeInv'
  BY <1>1, <1>2, <1>3, <1>4 DEF Opened, RemainingIsExact, CountCoversFile, AgeInv
<1> QED BY <1>5, <1>6 DEF IInv

LEMMA LeftBehindIsDisk == ASSUME TypeOK, NEW d \in LeftBehind PROVE d \in [Paths -> Nat]
<1>1. CASE is_open
  <2> PICK stored \in 0 .. buffered : d = Growing(stored)
    BY <1>1 DEF LeftBehind
  <2> QED BY <1>1 DEF Growing, TypeOK, is_open
<1>2. CASE ~is_open
  BY <1>2 DEF LeftBehind, TypeOK
<1> QED BY <1>1, <1>2

LEMMA OpenInvariant ==
    ASSUME IInv, NEW p \in Paths \cup {NoPath}, NEW f \in Paths \cup {NoPath}, Open(p, f)
    PROVE  IInv'
<1>1. TypeOK /\ disk' \in [Paths -> Nat] /\ UNCHANGED settings
  BY LeftBehindIsDisk DEF IInv, Open
<1>2. CASE Closed
  BY <1>1, <1>2, ClosedInvariant DEF settings, TypeOK
<1>3. CASE \E q \in {p, f} \ {NoPath} : Opened(q, disk')
  BY <1>1, <1>3, OpenedInvariant
<1> QED BY <1>2, <1>3 DEF Open

LEMMA WriteInvariant == ASSUME IInv, NEW n \in Lengths, Write(n) PROVE IInv'
<1> USE DEF IInv
<1>0. /\ is_open /\ ~size_limit_reached /\ UNCHANGED <<path, settings, measured>>
      /\ n \in Nat /\ FlushDue \in BOOLEAN /\ path \in Paths
  BY LoggerAssumption DEF Write, FlushDue, TypeOK, is_open
<1>1. /\ max_bytes' = max_bytes /\ flush_interval' = flush_interval
      /\ current_bytes \in Nat /\ lines \in Nat /\ buffered \in Nat /\ disk[path] \in Nat
  BY <1>0, LoggerAssumption DEF settings, TypeOK
<1>2. CASE n > Remaining
  <2>1. size_limit_reached' = TRUE /\ Stream(0, TRUE) /\ UNCHANGED <<current_bytes, lines, since>>
    BY <1>2 DEF Write
  <2>a. path' = path /\ measured' = measured
    BY <1>0
  <2>2. TypeOK' /\ AgeInv'
    BY <1>0, <1>1, <2>1, <2>a, SyncedStream, LoggerAssumption DEF TypeOK, AgeInv
  <2>3. RemainingIsExact'
    BY <2>1 DEF RemainingIsExact
  <2>4. CountCoversFile'
    BY <1>0, <1>1, <2>1, <2>a, SyncedStream DEF CountCoversFile, is_open
  <2> QED BY <2>2, <2>3, <2>4
<1>3. CASE ~(n > Remaining)
  <2>1. /\ current_bytes' = (current_bytes + n) % Word /\ lines' = lines + 1
        /\ Stream(n + 1, FlushDue) /\ UNCHANGED size_limit_reached
        /\ since' = IF FlushDue THEN 0 ELSE since
    BY <1>3 DEF Write
  <2>2. n <= Remaining
    BY <1>0, <1>1, <1>3, LoggerAssumption DEF Remaining, TypeOK
  <2>3. current_bytes' = current_bytes + n /\ current_bytes' <= max_bytes
    BY <1>0, <2>1, <2>2, LineFits
  <2>4. TypeOK'
    BY <1>0, <1>1, <2>1, <2>3, StreamConserves, LoggerAssumption DEF TypeOK
  <2>5. AgeInv'
    BY <1>0, <1>1, <2>1, StreamConserves DEF TypeOK, AgeInv
  <2>6. RemainingIsExact'
    BY <1>1, <2>3 DEF RemainingIsExact
  <2>7. disk'[path] + buffered' <= disk[path] + buffered + (n + 1)
    BY <1>0, <2>1, StreamConserves
  <2>8. CountCoversFile'
    BY <1>0, <1>1, <2>1, <2>3, <2>4, <2>7 DEF CountCoversFile, TypeOK, is_open
  <2> QED BY <2>4, <2>5, <2>6, <2>8
<1> QED BY <1>2, <1>3

LEMMA FlushInvariant == ASSUME IInv, Flush PROVE IInv'
<1> USE DEF IInv
<1>0. /\ is_open /\ Stream(0, TRUE) /\ since' = 0 /\ path' = path /\ path \in Paths
      /\ UNCHANGED <<current_bytes, size_limit_reached, max_bytes, flush_interval, measured, lines>>
  BY DEF Flush, count, settings, history, TypeOK, is_open
<1>1. TypeOK' /\ AgeInv'
  BY <1>0, SyncedStream, LoggerAssumption DEF TypeOK, AgeInv
<1>2. RemainingIsExact'
  BY <1>0 DEF RemainingIsExact
<1>3. CountCoversFile'
  <2>1. current_bytes \in Nat /\ lines \in Nat
    BY LoggerAssumption DEF TypeOK
  <2> QED BY <1>0, <2>1, SyncedStream DEF CountCoversFile, is_open
<1> QED BY <1>1, <1>2, <1>3

LEMMA ConfigureInvariant ==
    ASSUME IInv, NEW i \in Intervals, NEW m \in Limits, Configure(i, m) PROVE IInv'
<1> USE DEF IInv
<1>1. TypeOK'
  BY DEF Configure, count, history, TypeOK
<1>2. RemainingIsExact'
  <2>1. current_bytes \in Nat /\ m \in Nat
    BY LoggerAssumption DEF TypeOK
  <2>2. /\ current_bytes' = current_bytes /\ max_bytes' = m
        /\ size_limit_reached' = (m = 0 \/ current_bytes >= m)
    BY DEF Configure
  <2>3. ~size_limit_reached' => ~(current_bytes >= m)
    BY <2>2, Zenon
  <2> QED BY <2>1, <2>2, <2>3 DEF RemainingIsExact
<1>3. CountCoversFile' /\ AgeInv'
  BY DEF Configure, history, CountCoversFile, AgeInv, is_open
<1> QED BY <1>1, <1>2, <1>3

LEMMA TickInvariant == ASSUME IInv, Tick PROVE IInv'
<1> USE DEF IInv
<1>1. TypeOK' /\ AgeInv'
  BY LoggerAssumption DEF Tick, Older, count, settings, history, TypeOK, AgeInv
<1>2. RemainingIsExact' /\ CountCoversFile'
  BY DEF Tick, count, settings, history, RemainingIsExact, CountCoversFile, is_open
<1> QED BY <1>1, <1>2

LEMMA EditInvariant == ASSUME IInv, NEW p \in Paths, Edit(p) PROVE IInv'
<1> USE DEF IInv
<1>0. PICK size \in Edits : disk' = [disk EXCEPT ![p] = size]
  BY DEF Edit
<1>1. TypeOK' /\ AgeInv'
  BY <1>0, LoggerAssumption DEF Edit, count, settings, history, TypeOK, AgeInv
<1>2. is_open => disk'[path] = disk[path]
  BY <1>0 DEF Edit, TypeOK, is_open
<1>3. RemainingIsExact' /\ CountCoversFile'
  BY <1>2 DEF Edit, count, settings, history, RemainingIsExact, CountCoversFile, is_open
<1> QED BY <1>1, <1>3

LEMMA SpecIInv == Spec => []IInv
<1>1. Init => IInv
  <2> SUFFICES ASSUME Init PROVE IInv
    OBVIOUS
  <2>1. 0 \in 0 .. Word - 1 /\ Long \in Nat /\ max_bytes \in Nat /\ Edits \subseteq Nat
    BY LoggerAssumption DEF Init
  <2>2. Long \in 0 .. Long /\ 0 \in 0 .. Long
    BY <2>1
  <2>5. disk \in [Paths -> Nat]
    <3>1. disk \in [Paths -> Edits]
      BY DEF Init
    <3> QED BY <2>1, <3>1
  <2>3. TypeOK
    BY <2>1, <2>2, <2>5 DEF Init, TypeOK
  <2>4. RemainingIsExact /\ CountCoversFile /\ AgeInv
    BY <2>1 DEF Init, RemainingIsExact, CountCoversFile, AgeInv, is_open
  <2> QED BY <2>3, <2>4 DEF IInv
<1>2. IInv /\ [Next]_vars => IInv'
  <2>1. ASSUME IInv, Close \/ Crash PROVE IInv'
    <3>1. TypeOK /\ Closed /\ disk' \in [Paths -> Nat] /\ max_bytes' \in Limits
          /\ flush_interval' \in Intervals
      BY <2>1, LeftBehindIsDisk DEF IInv, Close, Crash, settings, TypeOK
    <3> QED BY <3>1, ClosedInvariant
  <2>2. ASSUME IInv, UNCHANGED vars PROVE IInv'
    BY <2>2 DEF vars, count, settings, history, IInv, TypeOK, RemainingIsExact,
       CountCoversFile, AgeInv, is_open
  <2> QED
    BY <2>1, <2>2, OpenInvariant, WriteInvariant, FlushInvariant, ConfigureInvariant,
       TickInvariant, EditInvariant DEF Next
<1> QED BY <1>1, <1>2, PTL DEF Spec

-----------------------------------------------------------------------------
(* The logger's members keep their types; the count of bytes its width.    *)
THEOREM LoggerTypes == Spec => []TypeOK
<1>1. IInv => TypeOK
  BY DEF IInv
<1> QED BY <1>1, SpecIInv, PTL

(* write never takes a difference of sizes that wraps, and the count is    *)
(* behind the file by no more than this session's carriage returns.        *)
THEOREM CountAlwaysRight == Spec => []CountIsRight
<1>1. IInv => CountIsRight
  BY DEF IInv, CountIsRight
<1> QED BY <1>1, SpecIInv, PTL

(* max_bytes bounds the file, but for the carriage returns.                *)
THEOREM LimitKept == Spec => GrowsWithinLimit
<1> DEFINE Grown == measured /\ path' = path /\ lines' = lines + 1
                      => disk'[path] + buffered' <= max_bytes + lines'
<1>1. IInv /\ [Next]_vars => [Grown]_vars
  <2> SUFFICES ASSUME IInv, Next, measured, path' = path, lines' = lines + 1 PROVE Grown
    OBVIOUS
  <2>0. lines \in Nat /\ lines' # 0 /\ lines' # lines
    BY DEF IInv, TypeOK
  <2>1. PICK n \in Lengths : Write(n)
    BY <2>0 DEF Next, Open, Opened, Closed, Configure, Flush, Close, Tick, Crash, Edit, history
  <2>2. ~(n > Remaining)
    BY <2>0, <2>1 DEF Write
  <2>3. /\ is_open /\ ~size_limit_reached /\ n \in Nat /\ path \in Paths
        /\ Stream(n + 1, FlushDue) /\ FlushDue \in BOOLEAN
    BY <2>1, <2>2, LoggerAssumption DEF Write, FlushDue, IInv, TypeOK, is_open
  <2>4. current_bytes + n <= max_bytes
    <3>1. n <= Remaining
      BY <2>2, <2>3, LoggerAssumption DEF Remaining, IInv, TypeOK
    <3> QED BY <2>3, <3>1, LineFits DEF IInv
  <2>5. disk'[path] + buffered' <= disk[path] + buffered + (n + 1)
    BY <2>3, StreamConserves DEF IInv
  <2>6. /\ disk[path] \in Nat /\ buffered \in Nat /\ current_bytes \in Nat /\ max_bytes \in Nat
        /\ disk'[path] \in Nat /\ buffered' \in Nat
    BY <2>3, StreamConserves, LoggerAssumption DEF IInv, TypeOK
  <2>7. disk[path] + buffered <= current_bytes + lines
    BY <2>3 DEF IInv, CountCoversFile
  <2> QED BY <2>0, <2>3, <2>4, <2>5, <2>6, <2>7
<1> QED BY <1>1, SpecIInv, PTL DEF Spec, GrowsWithinLimit

(* What a write leaves in the buffer is younger than the flush interval.   *)
THEOREM BufferIsYoung == Spec => NoStaleLines
<1> DEFINE Young == (\E n \in Lengths : Write(n)) /\ good' /\ buffered' > 0
                      => oldest' < flush_interval /\ ~size_limit_reached'
<1>1. IInv /\ [Next]_vars => [Young]_vars
  <2> SUFFICES ASSUME IInv, NEW n \in Lengths, Write(n), good', buffered' > 0
               PROVE  oldest' < flush_interval /\ ~size_limit_reached'
    OBVIOUS
  <2>0. is_open /\ ~size_limit_reached /\ n \in Nat /\ FlushDue \in BOOLEAN /\ TypeOK
    BY LoggerAssumption DEF Write, FlushDue, IInv
  <2>1. CASE n > Remaining
    BY <2>0, <2>1, SyncedStream DEF Write
  <2>2. CASE ~(n > Remaining)
    <3>1. Stream(n + 1, FlushDue) /\ size_limit_reached' = size_limit_reached
      BY <2>2 DEF Write
    <3>2. /\ good /\ ~FlushDue
          /\ oldest' = 0 \/ oldest' = oldest
      BY <2>0, <3>1, StreamConserves
    <3>3. oldest <= since /\ since < flush_interval /\ 0 < flush_interval
      BY <2>0, <3>2, LoggerAssumption DEF IInv, AgeInv, FlushDue, TypeOK
    <3> QED BY <2>0, <3>1, <3>2, <3>3, LoggerAssumption DEF TypeOK
  <2> QED BY <2>1, <2>2
<1> QED BY <1>1, SpecIInv, PTL DEF Spec, NoStaleLines
=============================================================================
