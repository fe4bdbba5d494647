------------------------------- MODULE WebLogs -------------------------------
(***************************************************************************)
(* The pages of the Web log view: WebLogs in internal/runtime/web_data.go. *)
(* The browser asks for page after page with the cursor it was given; the  *)
(* viewer keeps nothing.  Between two pages the logs grow, a service is    *)
(* restarted in its log, the session ends and its logs are read from the   *)
(* diagnostic record, or a new session has new files.                      *)
(*                                                                         *)
(* A byte is "x", the newline "n", or "k", which alone on a line names a   *)
(* secret whose value is on the next line.                                 *)
(***************************************************************************)
EXTENDS Integers, Sequences, FiniteSets, SequencesExt

CONSTANTS
  Sources,      \* the services and the connection, in order
  Requests,     \* the lists of names the browser may ask for; none is all
  Filters,      \* what a query may match: sets of "text" and "redacted"
  LineBytes,    \* webLogLineBytes
  PageLines,    \* webLogPageLines
  ScanBytes,    \* webLogScanBytes
  MaxSessions,  \* bound
  MaxBytes      \* bound: session -> source -> bytes written to its log

\* The constants of the code allow 64 sources a line and its newline each.
ASSUME WebLogsAssumption ==
  /\ LineBytes \in Nat \ {0}
  /\ ScanBytes >= Len(Sources) * (LineBytes + 1)
  /\ PageLines >= Len(Sources)

VARIABLES
  bytes,    \* source -> its log, or what the diagnostic record kept of it
  minimum,  \* source -> where the log of its process begins
  session,  \* the number of the session
  ended,    \* it has ended, and the record is what is left
  cursor,   \* what the browser sends with its next request
  filter,   \* the query it sends with it
  view,     \* source -> what the browser shows of it, and from where
  still     \* the last page went no further, and nothing has changed since

pageVars == <<bytes, minimum, session, ended, cursor, filter, view, still>>

Names == ToSet(Sources)
NoPosition == [generation |-> <<>>, offset |-> 0, pending |-> FALSE, discarding |-> FALSE]
NoCursor == [services |-> <<>>, at |-> [s \in Names |-> NoPosition], sent |-> FALSE]
\* torn: the process that wrote from here found the viewer within a line of
\* the one before.
NoView == [from |-> 0, lines |-> <<>>, torn |-> FALSE]

PageInit ==
  /\ bytes = [s \in Names |-> <<>>]
  /\ minimum = [s \in Names |-> 0]
  /\ session = 1 /\ ended = FALSE
  /\ cursor = NoCursor /\ filter \in Filters
  /\ view = [s \in Names |-> NoView]
  /\ still = FALSE

-----------------------------------------------------------------------------
\* webLogSources: what is asked for, of a session; of its record, only logs
\* that are not empty.
SourcesOf(names) ==
  LET wanted == IF names = <<>> THEN Sources ELSE names
  IN  IF ended THEN SelectSeq(wanted, LAMBDA s : bytes[s] # <<>>) ELSE wanted

\* A file is known by its inode, a kept tail by its attempt.
Generation(s) == <<IF ended THEN "record" ELSE "file", session>>

Size(s) == Len(bytes[s])
Least(a, b) == IF a <= b THEN a ELSE b
Most(a, b) == IF a >= b THEN a ELSE b

\* Where a page of source s goes on from position p: from the beginning when
\* the file is another or has become shorter, not before its process began, and
\* for a first page no further back than the limit.
Start(s, p, first, limit) ==
  LET other   == p.generation # <<>> /\ (p.generation # Generation(s) \/ p.offset > Size(s))
      q       == IF other THEN NoPosition ELSE p
      floor   == IF ended THEN 0 ELSE Least(minimum[s], Size(s))
      jumped  == q.offset < floor
      offset  == Most(q.offset, floor)
      initial == first \/ other \/ jumped
      cut     == initial /\ Size(s) - offset > limit
      start   == IF cut THEN Size(s) - limit ELSE offset
  IN  [position |-> [q EXCEPT !.generation = Generation(s), !.offset = start,
                              !.pending = @ /\ ~cut],
       cut      |-> cut,
       torn     |-> jumped /\ (q.discarding \/ q.pending),
       anew     |-> p.generation = <<>> \/ initial,
       reset    |-> other \/ (jumped /\ q.offset > 0)]

\* The positions of the newlines of source s after `from' and up to `upto'.
Newlines(s, from, upto) ==
  SelectSeq([i \in 1 .. (upto - from) |-> from + i], LAMBDA p : bytes[s][p] = "n")

\* parseWebLogLine, of line k of those of s that end at `ends' and begin after
\* `from': it is redacted when the line before it named a secret.
TooLong(from, ends, k) == ends[k] - (IF k = 1 THEN from ELSE ends[k - 1]) - 1 > LineBytes
NamesSecret(s, from, ends, k) ==
  LET before == IF k = 1 THEN from ELSE ends[k - 1]
  IN  ends[k] = before + 2 /\ bytes[s][before + 1] = "k"

\* Mutant: the page before is forgotten.
PendingForgotten(s, from, ends, pending) ==
  LET due[k \in 1 .. Len(ends) + 1] ==
        k > 1 /\ ~TooLong(from, ends, k - 1) /\ ~due[k - 1]
              /\ NamesSecret(s, from, ends, k - 1)
  IN  due

\* Whether line k is due to be redacted, for each line and the one after.
Pending(s, from, ends, pending) ==
  LET due[k \in 1 .. Len(ends) + 1] ==
        IF k = 1 THEN pending
        ELSE ~TooLong(from, ends, k - 1) /\ ~due[k - 1] /\ NamesSecret(s, from, ends, k - 1)
  IN  due

\* The entry a line makes, by the offset at which it begins.
Entry(s, from, ends, due, k) ==
  [at   |-> IF k = 1 THEN from ELSE ends[k - 1],
   kind |-> IF due[k] THEN "redacted" ELSE "text"]

\* webLogMatches, and the lines that are too long to show.
Matching(s, from, ends, due) ==
  SelectSeq([k \in 1 .. Len(ends) |-> k],
            LAMBDA k : /\ ~TooLong(from, ends, k)
                       /\ Entry(s, from, ends, due, k).kind \in filter)

\* readWebLogSource: a page of one source, of `lines' entries and `limit' bytes
\* at most.  It begins after the line it was discarding, and after the one in
\* which a first page was cut; it ends with the last line that is complete, or
\* with what has grown longer than a line may.
TakeLines(s, start, lines, upto, from, ends, due, match) ==
  LET full == Len(match) >= lines
      taken == IF full THEN match[lines] ELSE Len(ends)
      done == IF taken = 0 THEN from ELSE ends[taken]
      long == ~full /\ upto - done > LineBytes
  IN  [entries  |-> [i \in 1 .. Least(lines, Len(match)) |->
                       Entry(s, from, ends, due, match[i])],
       position |-> [start.position EXCEPT !.offset = IF long THEN upto ELSE done,
                                           !.pending = due[taken + 1],
                                           !.discarding = long],
       from     |-> from,
       torn     |-> start.torn,
       anew     |-> start.anew,
       reset    |-> start.reset,
       scanned  |-> upto - start.position.offset]

Skip(start) == (IF start.position.discarding THEN 1 ELSE 0) + (IF start.cut THEN 1 ELSE 0)

ReadLines(s, start, lines, upto, from, ends, due) ==
  TakeLines(s, start, lines, upto, from, ends, due, Matching(s, from, ends, due))

\* None of the lines it has to skip is complete.
ReadNothing(start, upto, news) ==
  [entries  |-> <<>>,
   position |-> [start.position EXCEPT
                   !.offset = upto, !.discarding = @ /\ news = <<>>,
                   !.pending = @ /\ (start.position.discarding => news = <<>>)],
   from     |-> upto,
   torn     |-> start.torn,
   anew     |-> start.anew,
   reset    |-> start.reset,
   scanned  |-> upto - start.position.offset]

ReadAfter(s, start, lines, upto, from, ends) ==
  ReadLines(s, start, lines, upto, from, ends,
            Pending(s, from, ends, start.position.pending /\ ~start.position.discarding))

ReadNews(s, start, lines, upto, news) ==
  IF Len(news) < Skip(start) THEN ReadNothing(start, upto, news)
  ELSE ReadAfter(s, start, lines, upto,
                 IF Skip(start) = 0 THEN start.position.offset ELSE news[Skip(start)],
                 SubSeq(news, Skip(start) + 1, Len(news)))

ReadUpTo(s, start, lines, upto) ==
  ReadNews(s, start, lines, upto, Newlines(s, start.position.offset, upto))

ReadFrom(s, start, lines, limit) ==
  ReadUpTo(s, start, lines, Least(Size(s), start.position.offset + limit))

ReadSource(s, p, first, lines, limit) == ReadFrom(s, Start(s, p, first, limit), lines, limit)

\* WebLogs: the sources one after the other, each with its share of the lines
\* and bytes those before it have left.
PageOf(sources, at, first) ==
  LET n == Len(sources)
      read[i \in 0 .. n] ==
        IF i = 0 THEN [lines |-> PageLines, bytes |-> ScanBytes, of |-> <<>>]
        ELSE LET r == read[i - 1]
                 one == ReadSource(sources[i], at[sources[i]], first,
                                   Most(r.lines \div (n - i + 1), 1),
                                   Most(r.bytes \div (n - i + 1), 1))
             IN  IF r.lines <= 0 \/ r.bytes <= 0 THEN r
                 ELSE [lines |-> r.lines - Len(one.entries),
                       bytes |-> r.bytes - one.scanned,
                       of    |-> Append(r.of, one)]
  IN  read[n].of

\* A cursor of other sources is worth nothing, and the page says so.
Page(names) ==
  \E sources \in {SourcesOf(names)} :
  \E same \in {cursor.sent /\ cursor.services = sources} :
  \E at \in {IF same THEN cursor.at ELSE NoCursor.at} :
  \E page \in {PageOf(sources, at, ~cursor.sent)} :
    LET Of(s) == page[CHOOSE i \in DOMAIN page : sources[i] = s]
        read  == {sources[i] : i \in DOMAIN page}
        reset == (cursor.sent /\ ~same) \/ \E i \in DOMAIN page : page[i].reset
        next  == [s \in Names |-> IF s \in read THEN Of(s).position ELSE at[s]]
    IN  /\ cursor' = [services |-> sources, at |-> next, sent |-> TRUE]
        /\ view' = [s \in Names |->
             IF s \notin read THEN IF s \in ToSet(sources) THEN view[s] ELSE NoView
             ELSE IF ~same \/ Of(s).anew
               THEN [from |-> Of(s).from, lines |-> Of(s).entries, torn |-> Of(s).torn]
               ELSE [view[s] EXCEPT !.lines = @ \o Of(s).entries]]
        /\ still' = (same /\ next = at)
  /\ UNCHANGED <<bytes, minimum, session, ended, filter>>

\* The browser drops its cursor: it is opened anew, or asks another query.
Reopen ==
  /\ cursor.sent
  /\ cursor' = NoCursor
  /\ filter' \in Filters
  /\ view' = [s \in Names |-> NoView]
  /\ still' = FALSE
  /\ UNCHANGED <<bytes, minimum, session, ended>>

Write(s, b) ==
  /\ ~ended
  /\ Size(s) < MaxBytes[session][s]
  /\ bytes' = [bytes EXCEPT ![s] = Append(@, b)]
  /\ still' = FALSE
  /\ UNCHANGED <<minimum, session, ended, cursor, filter, view>>

\* A restarted service goes on in its log.
Restart(s) ==
  /\ ~ended
  /\ minimum[s] < Size(s)
  /\ minimum' = [minimum EXCEPT ![s] = Size(s)]
  /\ still' = FALSE
  /\ UNCHANGED <<bytes, session, ended, cursor, filter, view>>

\* The session's logs are read from its diagnostic record, where the last line
\* is complete.  What is shown of other files matters no longer.
EndSession ==
  /\ ~ended
  /\ ended' = TRUE
  /\ bytes' = [s \in Names |->
                 IF bytes[s] = <<>> \/ Last(bytes[s]) = "n" THEN bytes[s]
                 ELSE Append(bytes[s], "n")]
  /\ minimum' = [s \in Names |-> 0]
  /\ view' = [s \in Names |-> NoView]
  /\ still' = FALSE
  /\ UNCHANGED <<session, cursor, filter>>

StartSession ==
  /\ ended
  /\ session < MaxSessions
  /\ ended' = FALSE
  /\ session' = session + 1
  /\ bytes' = [s \in Names |-> <<>>]
  /\ view' = [s \in Names |-> NoView]
  /\ still' = FALSE
  /\ UNCHANGED <<minimum, cursor, filter>>

PageNext ==
  \/ \E names \in Requests : Page(names)
  \/ \E s \in Names : Restart(s) \/ \E b \in {"x", "n", "k"} : Write(s, b)
  \/ Reopen \/ EndSession \/ StartSession

PageSpec == PageInit /\ [][PageNext]_pageVars
-----------------------------------------------------------------------------
\* What one reading of source s from `from' up to `upto' shows.
Whole(s, from, upto) ==
  LET ends == Newlines(s, from, upto)
      due  == Pending(s, from, ends, FALSE)
      match == Matching(s, from, ends, due)
  IN  [i \in DOMAIN match |-> Entry(s, from, ends, due, match[i])]

\* However the log is cut into pages, and whatever share a page has, the
\* browser shows what one reading would: each line that is not too long once,
\* in order, and the line after one that names a secret redacted even when the
\* two are on different pages.  And as long as nothing changes, the pages only
\* come to a halt when no line is left that they could show.
PagesAreTheLog ==
  \A s \in ToSet(cursor.services) :
    LET p == cursor.at[s]
    IN  p.generation = Generation(s) =>
          /\ ~view[s].torn => view[s].lines = Whole(s, view[s].from, p.offset)
          /\ still => /\ Newlines(s, p.offset, Size(s)) = <<>>
                      /\ Size(s) - p.offset <= LineBytes
=============================================================================
