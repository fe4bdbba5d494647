------------------------------ MODULE LogStream ------------------------------
(***************************************************************************)
(* Following the logs of a session: internal/runtime/logs.go.  One         *)
(* follower per log reads a snapshot of its last lines and then polls from *)
(* the end of that snapshot; all of them feed one bounded channel, which   *)
(* one reader empties.                                                     *)
(*                                                                         *)
(* A byte is "x" or the newline "n", and is known by its position among    *)
(* all the bytes ever written to its log, so that a line is the sequence   *)
(* of the positions it shows.  A truncated log has lost its first bytes:   *)
(* base counts them, and an offset in the file is a position less base.    *)
(* What a line shows is settled when it is cut from the log; from there on *)
(* the model only counts lines.                                            *)
(***************************************************************************)
EXTENDS Orders, Sequences, Functions

CONSTANTS
  Named,          \* the services' logs, in the order of their names
  Connection,     \* the connection's log, the only one opened truncated
  Watched,        \* any service's log, for which the refinement is stated
  Selections,     \* the sequences of names the command may be called with
  LineLimit,      \* logLineBytes
  ReadChunk,      \* logReadChunkBytes
  SnapshotBytes,  \* logFollowSnapshotBytes, for all logs together
  InitialLines,   \* logFollowLines, for all logs together
  ChannelSize,    \* the buffer of the entries channel
  MaxBytes        \* bound: bytes written to each log

Services == Range(Named)
Logs == Services \cup {Connection}

ASSUME StreamAssumption ==
  /\ Named \in Seq(Services) /\ IsInjective(Named)
  /\ Connection \notin Services
  /\ Watched \in Services
  /\ Selections \subseteq Seq(Services)
  /\ {LineLimit, ReadChunk, SnapshotBytes, ChannelSize} \subseteq Nat \ {0}
  /\ InitialLines \in Nat
  /\ MaxBytes \in [Logs -> Nat]

VARIABLES
  written,   \* log -> every byte ever written to it
  base,      \* log -> bytes removed by the last truncation
  present,   \* log -> the file exists
  selected,  \* the logs being followed, in order
  follower,  \* log -> its follower
  channel,   \* the logs of the entries on their way to the reader
  shown,     \* log -> how many lines the reader has printed
  reader,    \* what the reader is doing
  interrupted, \* the context of the stream is done
  failures   \* errors the followers have reported

streamVars == <<written, base, present, selected, follower, channel, shown,
                reader, interrupted, failures>>

Byte(l, p) == written[l][p]
Positions(from, to) == [i \in 1 .. (to - from) |-> from + i]

\* A line keeps its first LineLimit bytes.
Truncated(line) == IF Len(line) <= LineLimit THEN line ELSE SubSeq(line, 1, LineLimit)

\* The newlines of log l after one position up to another.
Newlines(l, from, to) == Sorted({p \in from + 1 .. to : Byte(l, p) = "n"})

\* What is after from up to to is cut at the newlines ends: the k-th part goes
\* from the newline before it, or from from, to its own, or to the end.
Before(from, ends, k) == IF k = 1 THEN from ELSE ends[k - 1]
Piece(from, to, ends, k) ==
  Positions(Before(from, ends, k), IF k > Len(ends) THEN to ELSE ends[k] - 1)

\* A budget shared among the n logs of the stream: the first ones take the
\* remainder.
Share(n, total, i) == (total \div n) + (IF i <= total % n THEN 1 ELSE 0)

\* The last count lines of the bytes of log l up to boundary, reading no more
\* than limit of them; a limit that leaves a first line cut drops that line.
\* A part after the last newline that is empty is no line.
LastLines(l, boundary, count, limit) ==
  LET start == base[l] + (IF boundary > limit THEN boundary - limit ELSE 0)
      end   == base[l] + boundary
      ends  == Newlines(l, start, end)
      upto  == Len(ends) + (IF Before(start, ends, Len(ends) + 1) = end THEN 0 ELSE 1)
      cut   == IF boundary > limit /\ ends # <<>> THEN 1 ELSE 0
      skip  == IF upto - cut > count THEN upto - count ELSE cut
  IN  [k \in 1 .. (upto - skip) |-> Truncated(Piece(start, end, ends, skip + k))]

\* What the bytes after from up to to, with newlines at ends, add to a follower
\* that holds an unfinished line, or is discarding the rest of one that grew past
\* the limit: a line for each newline, the first one going on from what was held
\* or falling away with what was discarded, and one for what is now too long.
Consume(pending, discarding, from, to, ends) ==
  LET n     == Len(ends)
      line  == [k \in 1 .. n + 1 |->
                  (IF k = 1 THEN pending ELSE <<>>) \o Piece(from, to, ends, k)]
      skip  == discarding /\ n = 0
      long  == ~skip /\ Len(line[n + 1]) > LineLimit
      first == IF discarding THEN 2 ELSE 1
      last  == IF long THEN n + 1 ELSE n
  IN  [lines      |-> [k \in 1 .. (last + 1 - first) |-> Truncated(line[k + first - 1])],
       pending    |-> IF skip \/ long THEN <<>> ELSE line[n + 1],
       discarding |-> skip \/ long]

\* The logs a call with these names follows: the named services, all of them
\* when none is named, and the connection's log only when as many were asked
\* for as there are.
SelectLogs(names) ==
  LET wanted == IF names = <<>> THEN Named ELSE names
  IN  wanted \o (IF Len(wanted) = Len(Named) THEN <<Connection>> ELSE <<>>)

\* outbox counts the lines still to be sent.  The last five fields remember,
\* for the properties, the snapshot, the positions put in lines, and whether
\* each of them came after all before it.
Idle == [pc |-> "idle", offset |-> 0, pending |-> <<>>, discarding |-> FALSE,
         outbox |-> 0, began |-> FALSE, boundary |-> 0, initial |-> 0,
         given |-> {}, inOrder |-> TRUE]

\* Each position of lines comes after those before it and all that were given.
GoesOn(given, lines) ==
  \A k \in DOMAIN lines : \A i \in DOMAIN lines[k] :
    /\ \A p \in given : p < lines[k][i]
    /\ \A h \in 1 .. (i - 1) : lines[k][h] < lines[k][i]
    /\ \A j \in 1 .. (k - 1) : \A p \in Range(lines[j]) : p < lines[k][i]

\* The follower f with the lines cut from the log since it last read it.
Gave(f, lines) ==
  [f EXCEPT !.pc = "sending", !.outbox = Len(lines),
            !.given = @ \cup UNION {Range(lines[k]) : k \in DOMAIN lines},
            !.inOrder = @ /\ GoesOn(f.given, lines)]

StreamInit ==
  /\ written = [l \in Logs |-> <<>>]
  /\ present = [l \in Logs |-> FALSE]
  /\ base = [l \in Logs |-> 0]
  /\ selected = <<>>
  /\ follower = [l \in Logs |-> Idle]
  /\ channel = <<>>
  /\ shown = [l \in Logs |-> 0]
  /\ reader = "choosing"
  /\ interrupted = FALSE
  /\ failures = 0

\* A service, its collector or the connection writes one byte more.  Bound:
\* nothing is written once the stream is over, when nobody reads it.
Live == reader \in {"choosing", "reading"} /\ ~interrupted /\ failures = 0

Write(l, b) ==
  /\ Live
  /\ Len(written[l]) < MaxBytes[l]
  /\ written' = [written EXCEPT ![l] = Append(@, b)]
  /\ present' = [present EXCEPT ![l] = TRUE]
  /\ UNCHANGED <<base, selected, follower, channel, shown, reader, interrupted, failures>>

\* A new connection opens its log fresh.
OpenFresh ==
  /\ Live
  /\ base[Connection] < Len(written[Connection])
  /\ base' = [base EXCEPT ![Connection] = Len(written[Connection])]
  /\ UNCHANGED <<written, present, selected, follower, channel, shown, reader,
                 interrupted, failures>>

\* The command: the followers are started and the reader begins to read.
Follow(names) ==
  /\ reader = "choosing"
  /\ selected' = SelectLogs(names)
  /\ reader' = "reading"
  /\ follower' = [l \in Logs |->
                    IF l \in Range(SelectLogs(names)) THEN [Idle EXCEPT !.pc = "start"]
                    ELSE Idle]
  /\ UNCHANGED <<written, base, present, channel, shown, interrupted, failures>>

Size(l) == Len(written[l]) - base[l]
Place(l) == CHOOSE i \in DOMAIN selected : selected[i] = l

\* The snapshot: the last lines up to the size the file has now, and that size
\* as the offset to go on from.
SnapshotLines(l) ==
  IF present[l]
    THEN LastLines(l, Size(l), Share(Len(selected), InitialLines, Place(l)),
                   Share(Len(selected), SnapshotBytes, Place(l)))
    ELSE <<>>

\* Mutant: the polls begin at the start of the file.
SnapshotFromStart(l) ==
  /\ follower[l].pc = "start"
  /\ \E lines \in {SnapshotLines(l)} :
       follower' = [follower EXCEPT ![l] =
                      [Gave(@, lines) EXCEPT !.began = TRUE, !.initial = Len(lines)]]
  /\ UNCHANGED <<written, base, present, selected, channel, shown, reader,
                 interrupted, failures>>

Snapshot(l) ==
  /\ follower[l].pc = "start"
  /\ \E lines \in {SnapshotLines(l)} :
       follower' = [follower EXCEPT ![l] =
                      [Gave(@, lines) EXCEPT !.offset = Size(l), !.began = TRUE,
                         !.boundary = base[l] + Size(l), !.initial = Len(lines)]]
  /\ UNCHANGED <<written, base, present, selected, channel, shown, reader,
                 interrupted, failures>>

\* Mutant: a line for which the channel has no room is dropped.
SendOrDrop(l) ==
  /\ follower[l].pc = "sending"
  /\ IF follower[l].outbox = 0
       THEN /\ follower' = [follower EXCEPT ![l].pc = "waiting"]
            /\ UNCHANGED channel
       ELSE /\ channel' = IF Len(channel) < ChannelSize THEN Append(channel, l)
                          ELSE channel
            /\ follower' = [follower EXCEPT ![l].outbox = @ - 1]
  /\ UNCHANGED <<written, base, present, selected, shown, reader, interrupted, failures>>

\* A line goes into the channel as soon as there is room for it.
Send(l) ==
  /\ follower[l].pc = "sending"
  /\ IF follower[l].outbox = 0
       THEN /\ follower' = [follower EXCEPT ![l].pc = "waiting"]
            /\ UNCHANGED channel
       ELSE /\ Len(channel) < ChannelSize
            /\ channel' = Append(channel, l)
            /\ follower' = [follower EXCEPT ![l].outbox = @ - 1]
  /\ UNCHANGED <<written, base, present, selected, shown, reader, interrupted, failures>>

\* A tick: what the file has gained since the last one, a chunk at most.  A
\* file that has become shorter is read from its beginning.
Poll(l) ==
  /\ follower[l].pc = "waiting"
  /\ present[l]
  /\ LET f    == follower[l]
         from == IF Size(l) < f.offset THEN 0 ELSE f.offset
         next == IF from + ReadChunk < Size(l) THEN from + ReadChunk ELSE Size(l)
     IN  /\ next # f.offset
         /\ \E start \in {base[l] + from}, end \in {base[l] + next} :
            \E ends \in {Newlines(l, start, end)} :
            \E out \in {Consume(f.pending, f.discarding, start, end, ends)} :
              follower' = [follower EXCEPT ![l] =
                IF start = end THEN [f EXCEPT !.offset = next]
                ELSE [Gave(f, out.lines) EXCEPT !.offset = next, !.pending = out.pending,
                                                !.discarding = out.discarding]]
  /\ UNCHANGED <<written, base, present, selected, channel, shown, reader,
                 interrupted, failures>>

\* A file that cannot be read ends its follower, which reports the error.
Fail(l) ==
  /\ follower[l].pc \in {"start", "waiting"}
  /\ failures = 0
  /\ follower' = [follower EXCEPT ![l] = [Idle EXCEPT !.pc = "ended"]]
  /\ failures' = failures + 1
  /\ UNCHANGED <<written, base, present, selected, channel, shown, reader, interrupted>>

\* Mutant: a follower that waits for room does not see that it is interrupted.
QuitWaiting(l) ==
  /\ interrupted
  /\ follower[l].pc = "waiting"
  /\ follower' = [follower EXCEPT ![l] = [Idle EXCEPT !.pc = "ended"]]
  /\ UNCHANGED <<written, base, present, selected, channel, shown, reader,
                 interrupted, failures>>

\* A follower that waits for room or for a tick sees that it is interrupted.
Quit(l) ==
  /\ interrupted
  /\ follower[l].pc \in {"sending", "waiting"}
  /\ follower' = [follower EXCEPT ![l] = [Idle EXCEPT !.pc = "ended"]]
  /\ UNCHANGED <<written, base, present, selected, channel, shown, reader,
                 interrupted, failures>>

\* The reader leaves, with an error or not, and cancels the followers.  What it
\* has shown is of no use to the properties from there on.
LeaveReader ==
  /\ reader' = "left"
  /\ interrupted' = TRUE
  /\ shown' = [l \in Logs |-> 0]

\* The reader prints the next entry; a failed print ends it.
Emit ==
  /\ reader = "reading"
  /\ channel # <<>>
  /\ channel' = Tail(channel)
  /\ \/ /\ shown' = [shown EXCEPT ![Head(channel)] = @ + 1]
        /\ UNCHANGED <<reader, interrupted>>
     \/ LeaveReader
  /\ UNCHANGED <<written, base, present, selected, follower, failures>>

\* An error of a follower ends the stream, entries left in the channel or not.
Report ==
  /\ reader = "reading"
  /\ failures > 0
  /\ LeaveReader
  /\ UNCHANGED <<written, base, present, selected, follower, channel, failures>>

Interrupt ==
  /\ reader = "reading"
  /\ ~interrupted
  /\ interrupted' = TRUE
  /\ UNCHANGED <<written, base, present, selected, follower, channel, shown, reader,
                 failures>>

Leave ==
  /\ reader = "reading"
  /\ interrupted
  /\ LeaveReader
  /\ UNCHANGED <<written, base, present, selected, follower, channel, failures>>

FollowerStep(l) == Snapshot(l) \/ Send(l) \/ Poll(l) \/ Quit(l)
ReaderStep == Emit \/ Report \/ Leave

StreamNext ==
  \/ \E names \in Selections : Follow(names)
  \/ \E l \in Logs : FollowerStep(l) \/ Fail(l) \/ \E b \in {"x", "n"} : Write(l, b)
  \/ ReaderStep \/ OpenFresh \/ Interrupt

StreamSpec == /\ StreamInit
              /\ [][StreamNext]_streamVars
              /\ \A l \in Logs : WF_streamVars(FollowerStep(l))
              /\ WF_streamVars(ReaderStep)
-----------------------------------------------------------------------------
\* The bytes that began a line since the snapshot and that the limit lets
\* through: at most LineLimit bytes after the newline, or the snapshot, before.
Kept(l) ==
  LET from == follower[l].boundary
  IN  {p \in (from + 1) .. (base[l] + follower[l].offset) :
         /\ Byte(l, p) = "x"
         /\ \E q \in from .. (p - 1) :
              /\ q = from \/ Byte(l, q) = "n"
              /\ \A r \in (q + 1) .. p : Byte(l, r) = "x"
              /\ p - q <= LineLimit}

\* The lines of a log show its bytes in their order and none of them twice,
\* whatever is truncated between two polls; and while a log only grows, every
\* byte its follower has gone past is in a line it gave, in the unfinished line
\* it holds, or beyond the limit of an oversized one.
NothingSkippedOrRepeated ==
  \A l \in Logs :
    LET f == follower[l]
    IN  /\ f.inOrder /\ GoesOn(f.given, <<f.pending>>)
        /\ (base[l] = 0 /\ f.pc \in {"sending", "waiting"}) =>
             Kept(l) \subseteq f.given \cup Range(f.pending)

\* When the reader has gone, no follower stays behind, even one that was
\* waiting for room in the channel.
NoFollowerLeaks ==
  reader = "left" ~> \A l \in Logs : follower[l].pc \in {"idle", "ended"}

\* The lines of log l that have become complete, or too long to wait for,
\* since the snapshot of its follower.
Due(l) ==
  IF ~follower[l].began THEN 0
  ELSE LET from  == follower[l].boundary
           after == {p \in (from + 1) .. Len(written[l]) : Byte(l, p) = "n"}
           last  == IF after = {} THEN from ELSE CHOOSE p \in after : \A q \in after : q <= p
       IN  Cardinality(after) + (IF Len(written[l]) - last > LineLimit THEN 1 ELSE 0)

Delivered(l) ==
  IF shown[l] > follower[l].initial THEN shown[l] - follower[l].initial ELSE 0

Watching == INSTANCE LogTail WITH
              due <- IF Live THEN Due(Watched) ELSE 0,
              delivered <- IF Live THEN Delivered(Watched) ELSE 0,
              open <- Live

\* Following the log of a service, which is only ever appended to, implements
\* the abstract tail: each line of it once, in order, and each in the end.
FollowingIsTailing == Watching!TailSpec
=============================================================================
