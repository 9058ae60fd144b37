-------------------------------- MODULE Logger --------------------------------
(***************************************************************************)
(* The plugin's log file (src/src/logger.cpp): an appending text stream    *)
(* with a size limit that the logger keeps by its own count of bytes.      *)
(*                                                                         *)
(* Sizes are in bytes; a line is known by its length.  The stream is a     *)
(* C++ text stream: what is put into it reaches the file when the runtime  *)
(* likes, at the latest by a flush, and every line takes one byte more in  *)
(* the file than in memory, because '\n' is stored as CR LF.  Writing may  *)
(* fail at any time; a failed stream raises nothing and ignores what       *)
(* follows until it is opened again.                                       *)
(***************************************************************************)
EXTENDS Integers

CONSTANTS
    Paths,      \* where a log file may be
    NoPath,     \* the empty path
    Lengths,    \* of lines, time stamp and newline included
    Limits,     \* values of max_bytes
    Intervals,  \* values of flush_interval_ms
    Word,       \* 2^64: counts of bytes wrap
    Edits,      \* sizes the user may leave a file with
    Long        \* ages are counted up to this one

ASSUME LoggerAssumption ==
    /\ NoPath \notin Paths
    /\ Word \in Nat \ {0} /\ Long \in Nat
    /\ Lengths \subseteq 1 .. Word - 1
    /\ Limits \subseteq 0 .. Word - 1 /\ Limits # {}
    /\ Intervals \subseteq 0 .. Long /\ Intervals # {}
    /\ Edits \subseteq 0 .. Word - 1

VARIABLES
    path,                \* path_; the stream is open iff it is not NoPath
    good,                \* the stream has not failed
    buffered,            \* bytes in the stream that are not in the file
    current_bytes,
    max_bytes,
    size_limit_reached,
    flush_interval,
    since,               \* the age of last_flush_
    disk,                \* the size of each file
    measured, lines,     \* history: file_size succeeded, lines since the open
    oldest               \* history: the age of the oldest byte in the stream

count == <<current_bytes, size_limit_reached>>
settings == <<max_bytes, flush_interval>>
history == <<measured, lines>>
vars == <<path, good, buffered, count, settings, since, disk, history, oldest>>

TypeOK ==
    /\ path \in Paths \cup {NoPath} /\ good \in BOOLEAN
    /\ buffered \in Nat
    /\ current_bytes \in 0 .. Word - 1 /\ size_limit_reached \in BOOLEAN
    /\ max_bytes \in Limits /\ flush_interval \in Intervals
    /\ since \in 0 .. Long /\ oldest \in 0 .. Long
    /\ disk \in [Paths -> Nat]
    /\ measured \in BOOLEAN /\ lines \in Nat

is_open == path # NoPath

(* The members of a logger that has just been made; a process starts with  *)
(* one, and with the files that are there.                                 *)
Init ==
    /\ path = NoPath /\ good = TRUE /\ buffered = 0
    /\ current_bytes = 0 /\ size_limit_reached = FALSE
    /\ max_bytes \in Limits /\ flush_interval \in Intervals
    /\ since = Long /\ measured = FALSE /\ lines = 0 /\ oldest = 0
    /\ disk \in [Paths -> Edits]

-----------------------------------------------------------------------------
(* What becomes of total bytes in the stream: stored go to the file, kept  *)
(* stay; if all is well none is lost, and none is kept when synced.  A     *)
(* failed stream does nothing.                                             *)
Puts(total, synced, stored, kept, ok) ==
    /\ stored \in 0 .. total /\ kept \in 0 .. total - stored
    /\ ok => stored + kept = total /\ (synced => kept = 0)

Unput(stored, kept, ok) == stored = 0 /\ kept = buffered /\ ~ok

Growing(stored) == [disk EXCEPT ![path] = @ + stored]

(* close_unlocked: the members after it.                                   *)
Closed ==
    /\ path' = NoPath /\ good' = TRUE /\ buffered' = 0
    /\ current_bytes' = 0 /\ size_limit_reached' = FALSE
    /\ since' = Long /\ measured' = FALSE /\ lines' = 0 /\ oldest' = 0

(* What the file has once the stream is closed: the rest, or less.         *)
LeftBehind == IF is_open THEN {Growing(stored) : stored \in 0 .. buffered} ELSE {disk}

(* Either path may be empty.  A failed attempt leaves a closed logger; a   *)
(* size that cannot be read counts as nothing.                             *)
OpenedCountingTooEarly(p, files) ==                                   \* mutant
    /\ path' = p /\ good' = TRUE /\ buffered' = 0
    /\ measured' \in BOOLEAN /\ (measured' => disk[p] < Word)
    /\ current_bytes' = IF measured' THEN disk[p] ELSE 0
    /\ size_limit_reached' = (current_bytes' >= max_bytes)
    /\ since' = 0 /\ lines' = 0 /\ oldest' = 0
Opened(p, files) ==
    /\ path' = p /\ good' = TRUE /\ buffered' = 0
    /\ measured' \in BOOLEAN /\ (measured' => files[p] < Word)
    /\ current_bytes' = IF measured' THEN files[p] ELSE 0
    /\ size_limit_reached' = (current_bytes' >= max_bytes)
    /\ since' = 0 /\ lines' = 0 /\ oldest' = 0

Open(preferred, fallback) ==
    /\ disk' \in LeftBehind
    /\ \/ \E p \in {preferred, fallback} \ {NoPath} : Opened(p, disk')
       \/ Closed
    /\ UNCHANGED settings

Close ==
    /\ disk' \in LeftBehind
    /\ Closed
    /\ UNCHANGED settings

Configure(interval, limit) ==
    /\ flush_interval' = interval /\ max_bytes' = limit
    /\ size_limit_reached' = (limit = 0 \/ current_bytes >= limit)
    /\ UNCHANGED <<path, good, buffered, current_bytes, since, disk, history, oldest>>

(* What is left of the limit, in the code's unsigned arithmetic.           *)
Remaining == (max_bytes - current_bytes) % Word

FlushDueNever == FALSE                                                \* mutant
FlushDue == flush_interval = 0 \/ since >= flush_interval

(* The stream after a step that put n more bytes into it.                  *)
Stream(n, synced) ==
    /\ \E stored, kept \in 0 .. buffered + n, ok \in BOOLEAN :
          /\ IF good THEN Puts(buffered + n, synced, stored, kept, ok)
                     ELSE Unput(stored, kept, ok)
          /\ good' = ok
          /\ disk' = Growing(stored) /\ buffered' = kept
          /\ oldest' = IF kept = 0 \/ buffered = 0 THEN 0 ELSE oldest

(* A line that does not fit ends the log, with a flush that last_flush_    *)
(* does not hear of; otherwise it counts, whether the stream takes it or   *)
(* not.                                                                    *)
WriteCountingWhenFlushed(n) ==                                                \* mutant
    /\ is_open /\ ~size_limit_reached
    /\ n <= Remaining
    /\ current_bytes' = IF FlushDue THEN (current_bytes + n) % Word ELSE current_bytes
    /\ lines' = lines + 1
    /\ Stream(n + 1, FlushDue)
    /\ since' = IF FlushDue THEN 0 ELSE since
    /\ UNCHANGED <<path, size_limit_reached, settings, measured>>
Write(n) ==
    /\ is_open /\ ~size_limit_reached
    /\ IF n > Remaining
       THEN /\ size_limit_reached' = TRUE
            /\ Stream(0, TRUE)
            /\ UNCHANGED <<current_bytes, lines, since>>
       ELSE /\ current_bytes' = (current_bytes + n) % Word
            /\ lines' = lines + 1
            /\ Stream(n + 1, FlushDue)
            /\ since' = IF FlushDue THEN 0 ELSE since
            /\ UNCHANGED size_limit_reached
    /\ UNCHANGED <<path, settings, measured>>

Flush ==
    /\ is_open
    /\ Stream(0, TRUE) /\ since' = 0
    /\ UNCHANGED <<path, count, settings, history>>

-----------------------------------------------------------------------------
(* The clock; the end of the process, which takes the buffer with it; and  *)
(* the user, who may shorten or replace a file that is not open.           *)
Older(age) == IF age < Long THEN age + 1 ELSE age

Tick ==
    /\ since' = Older(since)
    /\ oldest' = IF buffered = 0 THEN 0 ELSE Older(oldest)
    /\ UNCHANGED <<path, good, buffered, count, settings, disk, history>>

Crash ==
    /\ Closed
    /\ max_bytes' \in Limits /\ flush_interval' \in Intervals
    /\ UNCHANGED disk

Edit(p) ==
    /\ p # path
    /\ \E size \in Edits : disk' = [disk EXCEPT ![p] = size]
    /\ UNCHANGED <<path, good, buffered, count, settings, since, history, oldest>>

Next ==
    \/ \E p, f \in Paths \cup {NoPath} : Open(p, f)
    \/ \E i \in Intervals, m \in Limits : Configure(i, m)
    \/ \E n \in Lengths : Write(n)
    \/ Flush \/ Close
    \/ Tick \/ Crash \/ \E p \in Paths : Edit(p)

Spec == Init /\ [][Next]_vars

-----------------------------------------------------------------------------
(* The difference of unsigned numbers in write is taken only when it does  *)
(* not wrap: after no order of open, configure, write and close is the     *)
(* count above the limit with the log still going on.                      *)
RemainingIsExact == ~size_limit_reached => current_bytes <= max_bytes

(* The count is never behind the file by more than the carriage return of  *)
(* each line of this session, through failed writes, lost buffers, crashes *)
(* and opening the same file again while bytes for it are still buffered.  *)
CountCoversFile ==
    is_open /\ measured => disk[path] + buffered <= current_bytes + lines

(* The count that the limit is kept by can be relied on.                   *)
CountIsRight == RemainingIsExact /\ CountCoversFile

(* The promise of max_bytes, as it is kept: a line is only added to a file *)
(* that stays within the limit, but for the carriage returns of this       *)
(* session, if its size could be read when it was opened.                  *)
GrowsWithinLimit ==
    [][ measured /\ path' = path /\ lines' = lines + 1
          => disk'[path] + buffered' <= max_bytes + lines' ]_vars

(* A line that is taken leaves none in the buffer that is as old as the    *)
(* flush interval, and the line that ends the log leaves none at all: what *)
(* a crash can lose is bounded by the writes, not by a timer.              *)
NoStaleLines ==
    [][ (\E n \in Lengths : Write(n)) /\ good' /\ buffered' > 0
          => oldest' < flush_interval /\ ~size_limit_reached' ]_vars
=============================================================================
