------------------------------ MODULE LogCapture ------------------------------
(***************************************************************************)
(* The collectors of one service's log: internal/runtime/log_capture.go.   *)
(* A collector copies what its service prints to the log and notes, in an  *)
(* index beside the log, when each chunk arrived; the Web dashboard looks  *)
(* up in that index the time of a line that carries none.  A restarted     *)
(* service has a collector of its own while the children of the old one    *)
(* may keep the old collector alive, and the program appends lines of its  *)
(* own to the log without any collector.                                   *)
(*                                                                         *)
(* A byte of the log is the moment it was collected, or 0.                 *)
(***************************************************************************)
EXTENDS Naturals, Sequences

CONSTANTS
  Collectors,  \* the collectors that may come to be
  ChunkSizes,  \* the sizes of what one read of the pipe returns
  LogSize      \* bound: bytes of the log

ASSUME CaptureAssumption == ChunkSizes \subseteq Nat \ {0} /\ "none" \notin Collectors

VARIABLES
  log,        \* when each byte of the log was collected
  index,      \* the records of the index
  ragged,     \* a part of a record follows them
  collector,  \* what each collector is doing
  lock,       \* the collector that holds the lock of the log, or "none"
  clock,      \* bound with LogSize: one moment per chunk
  disturbed   \* two collectors have met, or a record was not written

captureVars == <<log, index, ragged, collector, lock, clock, disturbed>>

Hole == [start |-> 0, end |-> 0, at |-> 0]
Unborn == [pc |-> "unborn", position |-> 0, seen |-> 0, end |-> 0, size |-> 0]

Collecting(c) == collector[c].pc \in {"opening", "copying", "noting"}

CaptureInit ==
  /\ log = <<>> /\ index = <<>> /\ ragged = FALSE
  /\ collector = [c \in Collectors |-> Unborn]
  /\ lock = "none" /\ clock = 0 /\ disturbed = FALSE

\* The index is opened for a log of a given size ...
Stat(c) ==
  /\ collector[c].pc = "unborn"
  /\ collector' = [collector EXCEPT ![c].pc = "opening", ![c].seen = Len(log)]
  /\ disturbed' = (disturbed \/ \E d \in Collectors : Collecting(d))
  /\ UNCHANGED <<log, index, ragged, lock, clock>>

\* ... and loses a partial record and the last records of bytes past that size.
OpenIndex(c) ==
  /\ collector[c].pc = "opening"
  /\ \E n \in 0 .. Len(index) :
       /\ \A m \in {n} \ {0} : index[m].end <= collector[c].seen
       /\ \A m \in (n + 1) .. Len(index) : index[m].end > collector[c].seen
       /\ index' = SubSeq(index, 1, n)
       /\ collector' = [collector EXCEPT ![c].pc = "copying", ![c].position = n + 1]
  /\ ragged' = FALSE
  /\ UNCHANGED <<log, lock, clock, disturbed>>

\* A chunk read from the pipe is appended under the lock.
Copy(c, n) ==
  /\ collector[c].pc = "copying"
  /\ lock = "none"
  /\ Len(log) + n <= LogSize
  /\ log' = log \o [i \in 1 .. n |-> clock + 1]
  /\ clock' = clock + 1
  /\ lock' = c
  /\ collector' = [collector EXCEPT ![c].pc = "noting", ![c].end = Len(log) + n,
                                    ![c].size = n]
  /\ UNCHANGED <<index, ragged, disturbed>>

\* The index with a record written at a position, which may lie past its end.
Recorded(position, record) ==
  [i \in 1 .. (IF position > Len(index) THEN position ELSE Len(index)) |->
     IF i = position THEN record ELSE IF i <= Len(index) THEN index[i] ELSE Hole]

\* Mutant: a record starts where the log ended when the collector began.
NoteFromSeen(c) ==
  /\ collector[c].pc = "noting"
  /\ lock' = "none"
  /\ index' = Recorded(collector[c].position,
                       [start |-> collector[c].seen, end |-> collector[c].end, at |-> clock])
  /\ collector' = [collector EXCEPT ![c].pc = "copying", ![c].position = @ + 1]
  /\ UNCHANGED <<log, ragged, clock, disturbed>>

\* Its record follows, still under the lock.  A record that cannot be written,
\* or only in part because the disk is full, is the last this collector tries;
\* position 0 stands for the index it has given up.
Note(c) ==
  /\ collector[c].pc = "noting"
  /\ lock' = "none"
  /\ LET k == collector[c]
         r == [start |-> k.end - k.size, end |-> k.end, at |-> clock]
     IN  \/ /\ k.position > 0
            /\ index' = Recorded(k.position, r)
            /\ ragged' = (ragged /\ k.position <= Len(index))
            /\ collector' = [collector EXCEPT ![c].pc = "copying", ![c].position = @ + 1]
            /\ UNCHANGED disturbed
         \/ /\ k.position \notin DOMAIN index
            /\ ragged' \in {ragged, ragged \/ k.position = Len(index) + 1}
            /\ collector' = [collector EXCEPT ![c].pc = "copying", ![c].position = 0]
            /\ disturbed' = TRUE
            /\ UNCHANGED index
  /\ UNCHANGED <<log, clock>>

\* The service and its children have closed their output.
Drained(c) ==
  /\ collector[c].pc = "copying"
  /\ collector' = [collector EXCEPT ![c] = [Unborn EXCEPT !.pc = "gone"]]
  /\ UNCHANGED <<log, index, ragged, lock, clock, disturbed>>

\* A killed collector releases the lock, its chunk recorded or not.
Killed(c) ==
  /\ Collecting(c)
  /\ collector' = [collector EXCEPT ![c] = [Unborn EXCEPT !.pc = "gone"]]
  /\ lock' = IF lock = c THEN "none" ELSE lock
  /\ disturbed' = (disturbed \/ collector[c].pc = "noting")
  /\ UNCHANGED <<log, index, ragged, clock>>

\* A restart marker, isolation evidence or the output of a hot reload.
AppendBare ==
  /\ Len(log) < LogSize
  /\ log' = Append(log, 0)
  /\ UNCHANGED <<index, ragged, collector, lock, clock, disturbed>>

\* A new session removes the log with its index; a collector that is left goes
\* on writing to files that have no name.
RemoveLogs ==
  /\ log # <<>>
  /\ log' = <<>> /\ index' = <<>> /\ ragged' = FALSE /\ lock' = "none"
  /\ collector' = [c \in Collectors |->
                     IF Collecting(c) THEN [Unborn EXCEPT !.pc = "gone"] ELSE collector[c]]
  /\ disturbed' = FALSE
  /\ UNCHANGED clock

CaptureNext ==
  \/ \E c \in Collectors : \/ Stat(c) \/ OpenIndex(c) \/ Note(c) \/ Drained(c) \/ Killed(c)
                           \/ \E n \in ChunkSizes : Copy(c, n)
  \/ AppendBare \/ RemoveLogs

CaptureSpec == CaptureInit /\ [][CaptureNext]_captureVars

\* The record in the middle of those after the first s[1] up to s[2].
Middle(s) == s[1] + ((s[2] - s[1]) \div 2) + 1

\* collectedLogTime: a binary search of the records for the byte at an offset.
\* 0 is no time.
CollectedTime(offset) ==
  LET search[s \in (0 .. Len(index)) \X (0 .. Len(index))] ==
        LET mid == Middle(s)
        IN  IF s[1] >= s[2] THEN 0
            ELSE IF offset < index[mid].start THEN search[<<s[1], mid - 1>>]
            ELSE IF offset >= index[mid].end THEN search[<<mid, s[2]>>]
            ELSE index[mid].at
  IN  search[<<0, Len(index)>>]
-----------------------------------------------------------------------------
\* The dashboard never shows a line with another moment than the one at which
\* it was collected, nor any for a line no collector wrote, whatever collectors
\* overlap, die between a chunk and its record or run out of disk; and as long
\* as none of that happens it knows the moment of every collected line.  It
\* looks under the lock, so never between a chunk and its record.
CollectedTimesAreTrue ==
  lock = "none" =>
    \A i \in DOMAIN log :
      /\ CollectedTime(i - 1) \in {0, log[i]}
      /\ ~disturbed => CollectedTime(i - 1) = log[i]
=============================================================================
