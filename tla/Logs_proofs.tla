------------------------------ MODULE Logs_proofs ------------------------------
(***************************************************************************)
(* Proofs about how the lines of a service reach who reads them, and the   *)
(* keys of the reader the dashboard; any collectors, sizes of reads, logs  *)
(* and keys.                                                               *)
(*                                                                         *)
(* LogCapture: the records of the index are true of the bytes they name    *)
(* because the lock is held from the bytes to their record; and as long as *)
(* one collector is alone, in order and without a gap, so that the binary  *)
(* search finds the record of every collected byte.  What a search among   *)
(* some of the records finds is proved by the smallest range for which it  *)
(* would be wrong.                                                         *)
(*                                                                         *)
(* DashboardInput: what was pressed is, in order, the events that are out, *)
(* the one that waits and the keys whose bytes are still to be decoded; a  *)
(* key begins those bytes and no other reading of them is possible.        *)
(*                                                                         *)
(* LogDashboard: the history is the lines of the view after those let go,  *)
(* the view rests at a row that leaves the screen full, the match and the  *)
(* selection are of lines the history has, and the screen is the whole     *)
(* frame of the rows last drawn.  A scrolled screen is the one a whole     *)
(* frame would give because a row is known by its line, its first          *)
(* character and the width.                                                *)
(***************************************************************************)
EXTENDS LogCapture, DashboardInput, LogDashboard, Orders_proofs, SequenceTheorems

-----------------------------------------------------------------------------
(* LogCapture                                                                *)

Spans == (0 .. Len(index)) \X (0 .. Len(index))

\* What a search among some of the records comes to, given what those among fewer do
Turn(f, offset, s) ==
  IF s[1] >= s[2] THEN 0
  ELSE IF offset < index[Middle(s)].start THEN f[<<s[1], Middle(s) - 1>>]
  ELSE IF offset >= index[Middle(s)].end THEN f[<<Middle(s), s[2]>>]
  ELSE index[Middle(s)].at

Reach(s) == s[2] - s[1]

LEMMA MiddleIsBetween ==
  ASSUME NEW s \in Spans, Len(index) \in Nat, s[1] < s[2]
  PROVE  /\ Middle(s) \in s[1] + 1 .. s[2] /\ Middle(s) \in 1 .. Len(index)
         /\ <<s[1], Middle(s) - 1>> \in Spans /\ <<Middle(s), s[2]>> \in Spans
         /\ Reach(<<s[1], Middle(s) - 1>>) \in 0 .. Reach(s) - 1
         /\ Reach(<<Middle(s), s[2]>>) \in 0 .. Reach(s) - 1
         /\ Reach(s) \in Nat
  <1>. DEFINE a == s[1]
              b == s[2]
              m == Middle(s)
  <1>1. a \in 0 .. Len(index) /\ b \in 0 .. Len(index) /\ a < b
    BY DEF Spans
  <1>2. m = a + ((b - a) \div 2) + 1
    BY DEF Middle
  <1>. HIDE DEF a, b, m
  <1>3. (b - a) \div 2 \in 0 .. b - a - 1
    <2>. DEFINE d == b - a
    <2>1. d \in Nat /\ d >= 1
      BY <1>1
    <2>. HIDE DEF d
    <2>2. d \div 2 \in 0 .. d - 1
      BY <2>1
    <2>. QED
      BY <2>2 DEF d
  <1>4. m \in a + 1 .. b /\ m \in 1 .. Len(index) /\ m - 1 \in 0 .. Len(index)
    BY <1>1, <1>2, <1>3
  <1>5. (m - 1) - a \in 0 .. (b - a) - 1 /\ b - m \in 0 .. (b - a) - 1 /\ b - a \in Nat
    BY <1>1, <1>4
  <1>. QED
    BY <1>1, <1>4, <1>5 DEF a, b, m, Spans, Reach

LEMMA SearchExists ==
  ASSUME NEW offset, Len(index) \in Nat
  PROVE  \E f : f = [s \in Spans |-> Turn(f, offset, s)]
  <1>. DEFINE Good(n, f) == \A s \in Spans : Reach(s) <= n => f[s] = Turn(f, offset, s)
              Bad == {n \in Nat : \A f : f = [s \in Spans |-> f[s]] => ~Good(n, f)}
  <1>0. \A s \in Spans : Reach(s) \in Int /\ Reach(s) <= Len(index)
    BY DEF Spans, Reach
  <1>1. Bad = {}
    <2>. SUFFICES ASSUME Bad # {} PROVE FALSE
      OBVIOUS
    <2>1. PICK n \in Bad : \A k \in Bad : n <= k
      <3>1. Bad \in SUBSET Nat
        OBVIOUS
      <3>. HIDE DEF Bad
      <3>. QED
        BY <3>1, SmallestOf
    <2>2. CASE n = 0
      <3>. DEFINE f == [s \in Spans |-> 0]
      <3>1. \A s \in Spans : Reach(s) <= 0 => s[1] >= s[2]
        BY DEF Spans, Reach
      <3>2. Good(0, f)
        BY <3>1 DEF Turn
      <3>3. f = [s \in Spans |-> f[s]]
        OBVIOUS
      <3>. HIDE DEF f, Good
      <3>. QED
        BY <2>1, <2>2, <3>2, <3>3
    <2>3. CASE n # 0
      <3>1. n - 1 \in Nat /\ n - 1 \notin Bad
        BY <2>1, <2>3
      <3>2. PICK f : f = [s \in Spans |-> f[s]] /\ Good(n - 1, f)
        <4>. HIDE DEF Good
        <4>. QED
          BY <3>1
      <3>. DEFINE g == [s \in Spans |-> Turn(f, offset, s)]
      <3>3. ASSUME NEW s \in Spans, Reach(s) <= n PROVE g[s] = Turn(g, offset, s)
        <4>1. CASE s[1] >= s[2]
          BY <4>1 DEF Turn
        <4>2. CASE ~(s[1] >= s[2])
          <5>. DEFINE l == <<s[1], Middle(s) - 1>>
                      r == <<Middle(s), s[2]>>
          <5>0. s[1] < s[2]
            BY <4>2 DEF Spans
          <5>1. l \in Spans /\ r \in Spans /\ Reach(l) <= n - 1 /\ Reach(r) <= n - 1
            <6>1. /\ l \in Spans /\ r \in Spans /\ Reach(s) \in Nat
                  /\ Reach(l) \in 0 .. Reach(s) - 1 /\ Reach(r) \in 0 .. Reach(s) - 1
              BY <5>0, MiddleIsBetween
            <6>. QED
              BY <6>1, <3>3, <3>1
          <5>2. f[l] = Turn(f, offset, l) /\ f[r] = Turn(f, offset, r)
            BY <5>1, <3>2
          <5>3. g[l] = f[l] /\ g[r] = f[r]
            BY <5>1, <5>2
          <5>. HIDE DEF g
          <5>4. Turn(g, offset, s) = Turn(f, offset, s)
            BY <5>3 DEF Turn
          <5>. QED
            BY <5>4 DEF g
        <4>. QED
          BY <4>1, <4>2
      <3>4. Good(n, g)
        BY <3>3
      <3>5. g = [s \in Spans |-> g[s]]
        OBVIOUS
      <3>. HIDE DEF g, Good
      <3>. QED
        BY <2>1, <3>4, <3>5
    <2>. QED
      BY <2>2, <2>3
  <1>2. PICK f : f = [s \in Spans |-> f[s]] /\ Good(Len(index), f)
    <2>. HIDE DEF Good
    <2>. QED
      BY <1>1
  <1>3. f = [s \in Spans |-> Turn(f, offset, s)]
    <2>1. \A s \in Spans : f[s] = Turn(f, offset, s)
      BY <1>0, <1>2
    <2>. QED
      BY <1>2, <2>1, Zenon
  <1>. QED
    BY <1>3

LEMMA SearchIs ==
  ASSUME NEW offset, Len(index) \in Nat
  PROVE  \E f : /\ \A s \in Spans : f[s] = Turn(f, offset, s)
                /\ CollectedTime(offset) = f[<<0, Len(index)>>]
  <1>. DEFINE f == CHOOSE g : g = [s \in Spans |-> Turn(g, offset, s)]
  <1>1. f = [s \in Spans |-> Turn(f, offset, s)]
    BY SearchExists, Zenon
  <1>2. CollectedTime(offset) = f[<<0, Len(index)>>]
    BY Zenon DEF CollectedTime, Spans, Turn
  <1>3. \A s \in Spans : f[s] = Turn(f, offset, s)
    <2>. HIDE DEF f
    <2>. QED
      BY <1>1, Zenon
  <1>. QED
    BY <1>2, <1>3, Zenon

\* The records of a byte
Holding(offset) ==
  {m \in 1 .. Len(index) : index[m].start <= offset /\ offset < index[m].end}

RecordType == [start : Nat, end : Nat, at : Nat]

LEMMA RecordsOfIndex ==
  ASSUME index \in Seq(RecordType), NEW i \in 1 .. Len(index)
  PROVE  index[i].start \in Nat /\ index[i].end \in Nat /\ index[i].at \in Nat
  <1>1. index[i] \in RecordType
    BY ElementOfSeq
  <1>. QED
    BY <1>1 DEF RecordType

\* A time that is found is that of a record of the byte ...
LEMMA FoundIsRecorded ==
  ASSUME NEW offset \in Nat, index \in Seq(RecordType)
  PROVE  CollectedTime(offset) = 0 \/ \E m \in Holding(offset) : CollectedTime(offset) = index[m].at
  <1>0. Len(index) \in Nat
    OBVIOUS
  <1>1. PICK f : /\ \A s \in Spans : f[s] = Turn(f, offset, s)
                 /\ CollectedTime(offset) = f[<<0, Len(index)>>]
    BY <1>0, SearchIs
  <1>. DEFINE Right(s) == f[s] = 0 \/ \E m \in Holding(offset) : f[s] = index[m].at
              Bad == {n \in Nat : \E s \in Spans : Reach(s) = n /\ ~Right(s)}
  <1>2. Bad = {}
    <2>. SUFFICES ASSUME Bad # {} PROVE FALSE
      OBVIOUS
    <2>1. PICK n \in Bad : \A k \in Bad : n <= k
      <3>1. Bad \in SUBSET Nat
        OBVIOUS
      <3>. HIDE DEF Bad
      <3>. QED
        BY <3>1, SmallestOf
    <2>2. PICK s \in Spans : Reach(s) = n /\ ~Right(s)
      OBVIOUS
    <2>3. s[1] < s[2]
      <3>1. s[1] \in Int /\ s[2] \in Int
        BY DEF Spans
      <3>2. s[1] >= s[2] => f[s] = 0
        BY <1>1 DEF Turn
      <3>. QED
        BY <3>1, <3>2, <2>2
    <2>. DEFINE l == <<s[1], Middle(s) - 1>>
                r == <<Middle(s), s[2]>>
    <2>4. /\ Middle(s) \in 1 .. Len(index) /\ l \in Spans /\ r \in Spans
          /\ Reach(l) \in 0 .. n - 1 /\ Reach(r) \in 0 .. n - 1
      BY <1>0, <2>2, <2>3, MiddleIsBetween
    <2>5. Right(l) /\ Right(r)
      <3>1. n \in Nat /\ Reach(l) \in Nat /\ Reach(r) \in Nat /\ ~(n <= Reach(l)) /\ ~(n <= Reach(r))
        BY <2>4
      <3>2. Reach(l) \notin Bad /\ Reach(r) \notin Bad
        <4>. HIDE DEF Bad
        <4>. QED
          BY <2>1, <3>1
      <3>. HIDE DEF Right
      <3>. QED
        BY <2>4, <3>1, <3>2
    <2>6. Right(s)
      <3>. HIDE DEF l, r
      <3>0. /\ index[Middle(s)].start \in Nat /\ index[Middle(s)].end \in Nat
        BY <2>4, RecordsOfIndex
      <3>1. f[s] = IF offset < index[Middle(s)].start THEN f[l]
                   ELSE IF offset >= index[Middle(s)].end THEN f[r]
                   ELSE index[Middle(s)].at
        BY <1>1, <2>3, SMTT(60) DEF Turn, l, r, Spans
      <3>2. CASE offset < index[Middle(s)].start
        BY <2>5, <3>1, <3>2
      <3>3. CASE offset >= index[Middle(s)].start /\ offset >= index[Middle(s)].end
        BY <2>5, <3>0, <3>1, <3>3
      <3>4. CASE offset >= index[Middle(s)].start /\ offset < index[Middle(s)].end
        <4>1. Middle(s) \in Holding(offset)
          BY <2>4, <3>0, <3>4 DEF Holding
        <4>2. f[s] = index[Middle(s)].at
          BY <3>0, <3>1, <3>4
        <4>. QED
          BY <4>1, <4>2
      <3>. QED
        BY <3>0, <3>2, <3>3, <3>4
    <2>. QED
      BY <2>2, <2>6
  <1>3. <<0, Len(index)>> \in Spans /\ Reach(<<0, Len(index)>>) \in Nat
    BY <1>0 DEF Spans, Reach
  <1>4. Right(<<0, Len(index)>>)
    <2>. HIDE DEF Right
    <2>. QED
      BY <1>2, <1>3
  <1>. QED
    BY <1>1, <1>4

\* ... and when the records are in order and apart, the record of a byte is found.
Apart == \A i, j \in 1 .. Len(index) : i < j => index[i].end <= index[j].start

LEMMA RecordedIsFound ==
  ASSUME NEW offset \in Nat, index \in Seq(RecordType), Apart, NEW m \in Holding(offset),
         \A i \in 1 .. Len(index) : index[i].start <= index[i].end
  PROVE  CollectedTime(offset) = index[m].at
  <1>0. Len(index) \in Nat
    OBVIOUS
  <1>1. PICK f : /\ \A s \in Spans : f[s] = Turn(f, offset, s)
                 /\ CollectedTime(offset) = f[<<0, Len(index)>>]
    BY <1>0, SearchIs
  <1>. DEFINE Within(s) == s[1] < m /\ m <= s[2]
              Bad == {n \in Nat : \E s \in Spans : Reach(s) = n /\ Within(s) /\ f[s] # index[m].at}
  <1>2. Bad = {}
    <2>. SUFFICES ASSUME Bad # {} PROVE FALSE
      OBVIOUS
    <2>1. PICK n \in Bad : \A k \in Bad : n <= k
      <3>1. Bad \in SUBSET Nat
        OBVIOUS
      <3>. HIDE DEF Bad
      <3>. QED
        BY <3>1, SmallestOf
    <2>2. PICK s \in Spans : Reach(s) = n /\ Within(s) /\ f[s] # index[m].at
      OBVIOUS
    <2>3. /\ s[1] \in Int /\ s[2] \in Int /\ s[1] < s[2] /\ m \in 1 .. Len(index)
          /\ index[m].start <= offset /\ offset < index[m].end
      BY <2>2 DEF Spans, Holding
    <2>. DEFINE mid == Middle(s)
                l == <<s[1], mid - 1>>
                r == <<mid, s[2]>>
    <2>4. /\ mid \in 1 .. Len(index) /\ l \in Spans /\ r \in Spans /\ mid \in s[1] + 1 .. s[2]
          /\ Reach(l) \in 0 .. n - 1 /\ Reach(r) \in 0 .. n - 1
      BY <1>0, <2>2, <2>3, MiddleIsBetween
    <2>5. (Within(l) => f[l] = index[m].at) /\ (Within(r) => f[r] = index[m].at)
      <3>1. n \in Nat /\ Reach(l) \in Nat /\ Reach(r) \in Nat /\ ~(n <= Reach(l)) /\ ~(n <= Reach(r))
        BY <2>4
      <3>2. Reach(l) \notin Bad /\ Reach(r) \notin Bad
        <4>. HIDE DEF Bad
        <4>. QED
          BY <2>1, <3>1
      <3>. HIDE DEF Within
      <3>. QED
        BY <2>4, <3>1, <3>2
    <2>6. Within(l) <=> m <= mid - 1
      BY <2>2
    <2>7. Within(r) <=> mid < m
      BY <2>2
    <2>. HIDE DEF Within, Bad, l, r, mid
    <2>8. /\ index[mid].start \in Nat /\ index[mid].end \in Nat
          /\ index[m].start \in Nat /\ index[m].end \in Nat /\ index[mid].start <= index[mid].end
      BY <2>3, <2>4, RecordsOfIndex
    <2>9. f[s] = IF offset < index[mid].start THEN f[l]
                 ELSE IF offset >= index[mid].end THEN f[r]
                 ELSE index[mid].at
      BY <1>1, <2>3 DEF Turn, l, r, mid
    <2>10. CASE m < mid
      <3>1. index[m].end <= index[mid].start
        BY <2>3, <2>4, <2>10 DEF Apart
      <3>2. offset < index[mid].start
        BY <3>1, <2>3, <2>8
      <3>3. m <= mid - 1
        BY <2>3, <2>4, <2>10
      <3>. QED
        BY <3>2, <3>3, <2>2, <2>5, <2>6, <2>9
    <2>11. CASE mid < m
      <3>1. index[mid].end <= index[m].start
        BY <2>3, <2>4, <2>11 DEF Apart
      <3>2. offset >= index[mid].end /\ ~(offset < index[mid].start)
        BY <3>1, <2>3, <2>8, SMTT(60)
      <3>. QED
        BY <3>2, <2>11, <2>2, <2>5, <2>7, <2>9
    <2>12. CASE mid = m
      <3>1. ~(offset < index[mid].start) /\ ~(offset >= index[mid].end)
        BY <2>3, <2>8, <2>12
      <3>. QED
        BY <3>1, <2>2, <2>9, <2>12
    <2>. QED
      BY <2>3, <2>4, <2>10, <2>11, <2>12
  <1>3. <<0, Len(index)>> \in Spans /\ Reach(<<0, Len(index)>>) \in Nat
        /\ Within(<<0, Len(index)>>)
    BY <1>0 DEF Spans, Reach, Holding
  <1>4. f[<<0, Len(index)>>] = index[m].at
    <2>. HIDE DEF Within
    <2>. QED
      BY <1>2, <1>3
  <1>. QED
    BY <1>1, <1>4

-----------------------------------------------------------------------------
CollectorType ==
  [pc : {"unborn", "opening", "copying", "noting", "gone"}, position : Nat, seen : Nat,
   end : Nat, size : Nat]

CaptureTypeOK ==
  /\ log \in Seq(Nat) /\ index \in Seq(RecordType) /\ clock \in Nat
  /\ collector \in [Collectors -> CollectorType]
  /\ lock \in Collectors \cup {"none"} /\ disturbed \in BOOLEAN

\* The records say of the bytes of the log when they were collected.
TrueRecord(r) ==
  /\ r.start <= r.end /\ r.end <= Len(log)
  /\ \A i \in r.start + 1 .. r.end : log[i] = r.at

RecordsTrue == \A m \in 1 .. Len(index) : TrueRecord(index[m])

\* A chunk that has no record yet is the last of its moment, under the lock.
ChunkTrue ==
  \A c \in Collectors : collector[c].pc = "noting" =>
    /\ lock = c
    /\ collector[c].size <= collector[c].end /\ collector[c].end <= Len(log)
    /\ \A i \in collector[c].end - collector[c].size + 1 .. collector[c].end : log[i] = clock

\* As long as no two collectors meet and every record is written, there is one of them ...
OneCollects ==
  \A c, d \in Collectors : Collecting(c) /\ Collecting(d) => c = d

\* ... the index it has opened is one of bytes that were there, and it writes at its end ...
AtTheEnd ==
  \A c \in Collectors :
    /\ collector[c].pc = "opening" => \A m \in 1 .. Len(index) : index[m].end <= collector[c].seen
    /\ collector[c].pc \in {"copying", "noting"} => collector[c].position = Len(index) + 1
    /\ collector[c].pc = "noting" =>
         \A m \in 1 .. Len(index) : index[m].end <= collector[c].end - collector[c].size

\* ... and every byte that was collected has a record or waits for it.
AllRecorded ==
  \A i \in 1 .. Len(log) :
    \/ log[i] = 0
    \/ Holding(i - 1) # {}
    \/ \E c \in Collectors : /\ collector[c].pc = "noting"
                            /\ i > collector[c].end - collector[c].size
                            /\ i <= collector[c].end

CaptureInv ==
  /\ CaptureTypeOK /\ RecordsTrue /\ ChunkTrue
  /\ ~disturbed => OneCollects /\ AtTheEnd /\ Apart /\ AllRecorded

LEMMA CaptureInvInit == CaptureInit => CaptureInv
  <1>. SUFFICES ASSUME CaptureInit PROVE CaptureInv
    OBVIOUS
  <1>1. CaptureTypeOK
    <2>1. disturbed \in BOOLEAN
      BY Zenon DEF CaptureInit
    <2>2. Unborn \in CollectorType
      BY DEF Unborn, CollectorType
    <2>. QED
      BY <2>1, <2>2 DEF CaptureInit, CaptureTypeOK
  <1>2. Len(log) = 0 /\ Len(index) = 0 /\ \A c \in Collectors : collector[c].pc = "unborn"
    BY DEF CaptureInit, Unborn
  <1>3. RecordsTrue /\ ChunkTrue /\ OneCollects /\ AtTheEnd /\ Apart /\ AllRecorded
    BY <1>2 DEF RecordsTrue, ChunkTrue, OneCollects, Collecting, AtTheEnd, Apart, AllRecorded
  <1>. QED
    BY <1>1, <1>3 DEF CaptureInv

\* A record that is written takes its place, and what is before it stays or is empty.
LEMMA RecordedIndex ==
  ASSUME index \in Seq(RecordType), NEW position \in Nat \ {0}, NEW r \in RecordType
  PROVE  /\ Recorded(position, r) \in Seq(RecordType)
         /\ \A m \in 1 .. Len(Recorded(position, r)) :
              \/ Recorded(position, r)[m] \in {r, Hole}
              \/ m \in 1 .. Len(index) /\ Recorded(position, r)[m] = index[m]
         /\ position = Len(index) + 1 =>
              /\ Len(Recorded(position, r)) = Len(index) + 1
              /\ Recorded(position, r)[Len(index) + 1] = r
              /\ \A m \in 1 .. Len(index) : Recorded(position, r)[m] = index[m]
  <1>. DEFINE l == Len(index)
              n == IF position > l THEN position ELSE l
              entry(i) == IF i = position THEN r ELSE IF i <= l THEN index[i] ELSE Hole
              q == [i \in 1 .. n |-> entry(i)]
  <1>1. l \in Nat /\ n \in Nat /\ \A i \in 1 .. l : index[i] \in RecordType
    BY ElementOfSeq
  <1>2. Hole \in RecordType
    BY DEF Hole, RecordType
  <1>. HIDE DEF l, n
  <1>3. \A i \in 1 .. n : entry(i) \in RecordType
    BY <1>1, <1>2
  <1>4. q \in Seq(RecordType) /\ Len(q) = n /\ \A i \in 1 .. n : q[i] = entry(i)
    <2>. HIDE DEF entry
    <2>. QED
      BY <1>1, <1>3
  <1>5. \A i \in 1 .. n : q[i] \in {r, Hole} \/ (i \in 1 .. l /\ q[i] = index[i])
    BY <1>1, <1>4
  <1>6. ASSUME position = l + 1
        PROVE  n = l + 1 /\ q[l + 1] = r /\ \A i \in 1 .. l : q[i] = index[i]
    <2>1. n = l + 1
      BY <1>1, <1>6 DEF n
    <2>2. l + 1 \in 1 .. n /\ \A i \in 1 .. l : i \in 1 .. n /\ i # position /\ i <= l
      BY <1>1, <1>6, <2>1
    <2>. QED
      BY <1>4, <1>6, <2>1, <2>2
  <1>7. Recorded(position, r) = q
    BY DEF Recorded, n, l
  <1>. HIDE DEF q
  <1>. QED
    BY <1>4, <1>5, <1>6, <1>7 DEF l

LEMMA CaptureTypeStep ==
  ASSUME CaptureTypeOK, ChunkTrue, [CaptureNext]_captureVars
  PROVE  CaptureTypeOK'
  <1>. USE DEF CaptureTypeOK
  <1>1. ASSUME NEW c \in Collectors, Stat(c) PROVE CaptureTypeOK'
    <2>1. Len(log) \in Nat
      OBVIOUS
    <2>. QED
      BY <1>1, <2>1 DEF Stat, CollectorType, Collecting
  <1>2. ASSUME NEW c \in Collectors, OpenIndex(c) PROVE CaptureTypeOK'
    <2>1. PICK n \in 0 .. Len(index) :
             /\ index' = SubSeq(index, 1, n)
             /\ collector' = [collector EXCEPT ![c].pc = "copying", ![c].position = n + 1]
      BY <1>2 DEF OpenIndex
    <2>2. index' \in Seq(RecordType) /\ n + 1 \in Nat
      BY <2>1
    <2>3. collector' \in [Collectors -> CollectorType]
      BY <2>1, <2>2 DEF CollectorType
    <2>. QED
      BY <1>2, <2>2, <2>3 DEF OpenIndex
  <1>3. ASSUME NEW c \in Collectors, Note(c) PROVE CaptureTypeOK'
    <2>. DEFINE k == collector[c]
                r == [start |-> k.end - k.size, end |-> k.end, at |-> clock]
    <2>1. k.position \in Nat /\ k.size \in Nat /\ k.end \in Nat /\ k.size <= k.end /\ lock' = "none"
      BY <1>3 DEF Note, ChunkTrue, CollectorType
    <2>2. r \in RecordType
      BY <2>1 DEF RecordType
    <2>3. CASE k.position > 0 /\ index' = Recorded(k.position, r)
               /\ collector' = [collector EXCEPT ![c].pc = "copying", ![c].position = @ + 1]
      <3>. DEFINE p == k.position
      <3>0. p \in Nat \ {0} /\ p + 1 \in Nat
        BY <2>1, <2>3
      <3>1. index' \in Seq(RecordType)
        <4>1. Recorded(p, r) \in Seq(RecordType)
          <5>. HIDE DEF p, r
          <5>. QED
            BY <3>0, <2>2, RecordedIndex
        <4>. QED
          BY <4>1, <2>3
      <3>2. collector' \in [Collectors -> CollectorType]
        <4>1. collector' = [collector EXCEPT ![c].pc = "copying", ![c].position = p + 1]
          BY <2>3
        <4>. HIDE DEF p
        <4>. QED
          BY <3>0, <4>1 DEF CollectorType
      <3>. QED
        BY <1>3, <2>1, <3>1, <3>2 DEF Note
    <2>4. CASE UNCHANGED index
               /\ collector' = [collector EXCEPT ![c].pc = "copying", ![c].position = 0]
      BY <1>3, <2>1, <2>4, ZenonT(60) DEF Note, CollectorType
    <2>. QED
      BY <1>3, <2>3, <2>4 DEF Note
  <1>4. ASSUME NEW c \in Collectors, Drained(c) PROVE CaptureTypeOK'
    BY <1>4 DEF Drained, CollectorType, Unborn
  <1>5. ASSUME NEW c \in Collectors, Killed(c) PROVE CaptureTypeOK'
    BY <1>5 DEF Killed, CollectorType, Unborn
  <1>6. ASSUME NEW c \in Collectors, NEW n \in ChunkSizes, Copy(c, n) PROVE CaptureTypeOK'
    <2>1. n \in Nat /\ clock + 1 \in Nat
      BY CaptureAssumption
    <2>2. [i \in 1 .. n |-> clock + 1] \in Seq(Nat)
      BY <2>1
    <2>3. log \o [i \in 1 .. n |-> clock + 1] \in Seq(Nat) /\ Len(log) + n \in Nat
      BY <2>1, <2>2
    <2>. DEFINE e == Len(log) + n
    <2>4. /\ log' = log \o [i \in 1 .. n |-> clock + 1] /\ clock' = clock + 1 /\ lock' = c
          /\ collector' = [collector EXCEPT ![c].pc = "noting", ![c].end = e, ![c].size = n]
          /\ index' = index /\ disturbed' = disturbed
      BY <1>6 DEF Copy
    <2>5. collector' \in [Collectors -> CollectorType]
      <3>1. e \in Nat
        BY <2>3
      <3>. HIDE DEF e
      <3>. QED
        BY <2>1, <2>4, <3>1, ZenonT(60) DEF CollectorType
    <2>. HIDE DEF CollectorType, e
    <2>6. log' \in Seq(Nat) /\ clock' \in Nat
      BY <2>1, <2>3, <2>4, Zenon
    <2>7. index' \in Seq(RecordType) /\ lock' \in Collectors \cup {"none"} /\ disturbed' \in BOOLEAN
      BY <2>4, Zenon
    <2>. QED
      BY <2>5, <2>6, <2>7
  <1>7. CASE AppendBare
    BY <1>7 DEF AppendBare
  <1>8. CASE RemoveLogs
    <2>1. [Unborn EXCEPT !.pc = "gone"] \in CollectorType
      BY DEF Unborn, CollectorType
    <2>2. collector' \in [Collectors -> CollectorType]
      BY <1>8, <2>1 DEF RemoveLogs
    <2>3. disturbed' \in BOOLEAN
      BY <1>8, Zenon DEF RemoveLogs
    <2>. QED
      BY <1>8, <2>2, <2>3, SMTT(60) DEF RemoveLogs
  <1>9. CASE UNCHANGED captureVars
    BY <1>9 DEF captureVars
  <1>. QED
    BY <1>1, <1>2, <1>3, <1>4, <1>5, <1>6, <1>7, <1>8, <1>9 DEF CaptureNext

\* What the program does to the records and the bytes keeps the records true.
LEMMA CaptureTrueStep ==
  ASSUME CaptureTypeOK, RecordsTrue, ChunkTrue, [CaptureNext]_captureVars
  PROVE  RecordsTrue' /\ ChunkTrue'
  <1>0. Len(log) \in Nat /\ Len(index) \in Nat /\ clock \in Nat
    BY DEF CaptureTypeOK
  <1>f. \A m \in 1 .. Len(index) :
          index[m].start \in Nat /\ index[m].end \in Nat /\ index[m].at \in Nat
    BY RecordsOfIndex DEF CaptureTypeOK
  <1>c. \A c \in Collectors : /\ collector[c].size \in Nat /\ collector[c].end \in Nat
                              /\ collector[c].position \in Nat /\ c # "none"
    BY CaptureAssumption DEF CaptureTypeOK, CollectorType
  <1>r. ASSUME log' = log, index' = index PROVE RecordsTrue'
    BY <1>r DEF RecordsTrue, TrueRecord
  <1>t. ASSUME NEW c \in Collectors, log' = log, clock' = clock,
               \E k : collector' = [collector EXCEPT ![c] = k] /\ k.pc # "noting",
               \A d \in Collectors \ {c} : lock = d => lock' = d
        PROVE  ChunkTrue'
    <2>1. \A d \in Collectors : collector'[d].pc = "noting" => d # c /\ collector'[d] = collector[d]
      BY <1>t DEF CaptureTypeOK
    <2>. QED
      BY <1>t, <2>1 DEF ChunkTrue
  <1>1. ASSUME NEW c \in Collectors, Stat(c) PROVE RecordsTrue' /\ ChunkTrue'
    <2>1. \E k : collector' = [collector EXCEPT ![c] = k] /\ k.pc # "noting"
      <3>1. collector' = [collector EXCEPT ![c] = [[collector[c] EXCEPT !.pc = "opening"]
                                                     EXCEPT !.seen = Len(log)]]
        BY <1>1 DEF Stat, CaptureTypeOK, CollectorType
      <3>. QED
        <4>. DEFINE k == [[collector[c] EXCEPT !.pc = "opening"] EXCEPT !.seen = Len(log)]
        <4>1. collector[c] \in CollectorType
          BY DEF CaptureTypeOK
        <4>2. k.pc # "noting"
          BY <4>1 DEF CollectorType
        <4>3. collector' = [collector EXCEPT ![c] = k]
          BY <3>1, Zenon
        <4>. HIDE DEF k
        <4>. QED
          BY <4>2, <4>3
    <2>. QED
      BY <1>1, <1>r, <1>t, <2>1 DEF Stat
  <1>2. ASSUME NEW c \in Collectors, OpenIndex(c) PROVE RecordsTrue' /\ ChunkTrue'
    <2>1. PICK n \in 0 .. Len(index) :
             /\ index' = SubSeq(index, 1, n)
             /\ collector' = [collector EXCEPT ![c].pc = "copying", ![c].position = n + 1]
      BY <1>2 DEF OpenIndex
    <2>2. Len(index') = n /\ \A m \in 1 .. n : m \in 1 .. Len(index) /\ index'[m] = index[m]
      BY <2>1, <1>0 DEF CaptureTypeOK
    <2>3. RecordsTrue'
      BY <1>2, <2>2 DEF RecordsTrue, TrueRecord, OpenIndex
    <2>4. \A d \in Collectors : collector'[d].pc = "noting" => collector'[d] = collector[d]
      BY <2>1 DEF CaptureTypeOK, CollectorType
    <2>. QED
      BY <1>2, <2>3, <2>4 DEF ChunkTrue, OpenIndex
  <1>3. ASSUME NEW c \in Collectors, Note(c) PROVE RecordsTrue' /\ ChunkTrue'
    <2>. DEFINE k == collector[c]
                r == [start |-> k.end - k.size, end |-> k.end, at |-> clock]
                p == k.position
    <2>1. /\ k.pc = "noting" /\ lock = c /\ log' = log /\ clock' = clock
          /\ k.size <= k.end /\ k.end <= Len(log)
          /\ \A i \in k.end - k.size + 1 .. k.end : log[i] = clock
      BY <1>3 DEF Note, ChunkTrue
    <2>2. \A d \in Collectors : collector'[d].pc # "noting"
      <3>1. \A d \in Collectors \ {c} : collector[d].pc # "noting"
        BY <2>1 DEF ChunkTrue
      <3>2. \E q : collector' = [collector EXCEPT ![c].pc = "copying", ![c].position = q]
        BY <1>3 DEF Note
      <3>. QED
        BY <3>1, <3>2 DEF CaptureTypeOK, CollectorType
    <2>3. CASE k.position > 0 /\ index' = Recorded(k.position, r)
      <3>1. p \in Nat \ {0} /\ index' = Recorded(p, r)
        BY <2>3, <1>c
      <3>2. r \in RecordType
        BY <2>1, <1>c, <1>0 DEF RecordType
      <3>3. r.start = k.end - k.size /\ r.end = k.end /\ r.at = clock
        OBVIOUS
      <3>4. TrueRecord(r)
        <4>1. r.start + 1 .. r.end = k.end - k.size + 1 .. k.end /\ r.start <= r.end
          BY <3>3, <2>1, <1>c
        <4>. HIDE DEF r
        <4>. QED
          BY <2>1, <3>3, <4>1 DEF TrueRecord
      <3>5. TrueRecord(Hole)
        <4>1. 0 + 1 .. 0 = {} /\ Hole.start = 0 /\ Hole.end = 0
          BY DEF Hole
        <4>. QED
          BY <1>0, <4>1 DEF TrueRecord
      <3>. HIDE DEF p, r
      <3>6. \A m \in 1 .. Len(index') : \/ index'[m] \in {r, Hole}
                                        \/ m \in 1 .. Len(index) /\ index'[m] = index[m]
        <4>1. index \in Seq(RecordType)
          BY DEF CaptureTypeOK
        <4>2. \A m \in 1 .. Len(Recorded(p, r)) :
                \/ Recorded(p, r)[m] \in {r, Hole}
                \/ m \in 1 .. Len(index) /\ Recorded(p, r)[m] = index[m]
          BY <3>1, <3>2, <4>1, RecordedIndex
        <4>. QED
          BY <3>1, <4>2
      <3>7. \A m \in 1 .. Len(index') : TrueRecord(index'[m])
        BY <3>4, <3>5, <3>6 DEF RecordsTrue
      <3>8. RecordsTrue'
        BY <2>1, <3>7 DEF RecordsTrue, TrueRecord
      <3>. QED
        BY <3>8, <2>2 DEF ChunkTrue
    <2>4. CASE UNCHANGED index
      BY <2>4, <2>1, <2>2, <1>r DEF ChunkTrue
    <2>. QED
      BY <1>3, <2>3, <2>4 DEF Note
  <1>4. ASSUME NEW c \in Collectors, Drained(c) PROVE RecordsTrue' /\ ChunkTrue'
    <2>1. collector' = [collector EXCEPT ![c] = [Unborn EXCEPT !.pc = "gone"]]
          /\ [Unborn EXCEPT !.pc = "gone"].pc # "noting"
      BY <1>4 DEF Drained, Unborn
    <2>. QED
      BY <1>4, <1>r, <1>t, <2>1 DEF Drained
  <1>5. ASSUME NEW c \in Collectors, Killed(c) PROVE RecordsTrue' /\ ChunkTrue'
    <2>1. collector' = [collector EXCEPT ![c] = [Unborn EXCEPT !.pc = "gone"]]
          /\ [Unborn EXCEPT !.pc = "gone"].pc # "noting"
      BY <1>5 DEF Killed, Unborn
    <2>2. log' = log /\ index' = index /\ clock' = clock
          /\ \A d \in Collectors \ {c} : lock = d => lock' = d
      BY <1>5 DEF Killed
    <2>. QED
      BY <1>r, <1>t, <2>1, <2>2
  <1>6. ASSUME NEW c \in Collectors, NEW n \in ChunkSizes, Copy(c, n) PROVE RecordsTrue' /\ ChunkTrue'
    <2>0. n \in Nat
      BY CaptureAssumption
    <2>1. /\ Len(log') = Len(log) + n /\ index' = index /\ clock' = clock + 1 /\ lock' = c
          /\ \A i \in 1 .. Len(log) : log'[i] = log[i]
          /\ \A i \in Len(log) + 1 .. Len(log) + n : log'[i] = clock'
      <3>. DEFINE block == [i \in 1 .. n |-> clock + 1]
      <3>1. block \in Seq(Nat) /\ Len(block) = n /\ \A i \in 1 .. n : block[i] = clock + 1
        BY <2>0, <1>0
      <3>2. log' = log \o block /\ log \in Seq(Nat)
        BY <1>6 DEF Copy, CaptureTypeOK
      <3>. HIDE DEF block
      <3>. DEFINE l == Len(log)
      <3>a. l \in Nat /\ DOMAIN log = 1 .. l
        BY <3>2
      <3>b. Len(log') = l + n /\ \A i \in 1 .. l + n : log'[i] = IF i <= l THEN log[i] ELSE block[i - l]
        <4>1. ASSUME NEW u \in Seq(Nat), NEW v \in Seq(Nat)
              PROVE  /\ Len(u \o v) = Len(u) + Len(v)
                     /\ \A i \in 1 .. Len(u) + Len(v) :
                          (u \o v)[i] = IF i <= Len(u) THEN u[i] ELSE v[i - Len(u)]
          OBVIOUS
        <4>2. /\ Len(log \o block) = Len(log) + Len(block)
              /\ \A i \in 1 .. Len(log) + Len(block) :
                   (log \o block)[i] = IF i <= Len(log) THEN log[i] ELSE block[i - Len(log)]
          BY <3>1, <3>2, <4>1
        <4>. QED
          BY <3>1, <3>2, <4>2
      <3>c. /\ \A i \in 1 .. l : i \in 1 .. l + n /\ i <= l
            /\ \A i \in l + 1 .. l + n : i \in 1 .. l + n /\ ~(i <= l)
        BY <2>0, <3>a
      <3>3. /\ Len(log') = Len(log) + n
            /\ \A i \in 1 .. Len(log) : log'[i] = log[i]
            /\ \A i \in Len(log) + 1 .. Len(log) + n : log'[i] = block[i - Len(log)]
        BY <3>b, <3>c
      <3>4. \A i \in Len(log) + 1 .. Len(log) + n : i - Len(log) \in 1 .. n
        BY <2>0, <1>0
      <3>5. clock' = clock + 1 /\ index' = index /\ lock' = c
        BY <1>6 DEF Copy
      <3>. QED
        BY <3>1, <3>3, <3>4, <3>5
    <2>2. RecordsTrue'
      <3>. SUFFICES ASSUME NEW m \in 1 .. Len(index) PROVE TrueRecord(index[m])'
        BY <2>1 DEF RecordsTrue
      <3>1. TrueRecord(index[m])
        BY DEF RecordsTrue
      <3>. QED
        BY <3>1, <2>0, <2>1, <1>0, <1>f DEF TrueRecord
    <2>3. \A d \in Collectors : collector'[d].pc = "noting" => d = c
      <3>1. lock = "none" /\ \A d \in Collectors : collector[d].pc # "noting"
        BY <1>6, <1>c DEF Copy, ChunkTrue
      <3>. QED
        BY <1>6, <3>1 DEF Copy, CaptureTypeOK, CollectorType
    <2>4. collector'[c].end = Len(log) + n /\ collector'[c].size = n
      BY <1>6 DEF Copy, CaptureTypeOK, CollectorType
    <2>5. (Len(log) + n) - n + 1 .. Len(log) + n = Len(log) + 1 .. Len(log) + n
          /\ n <= Len(log) + n
      BY <2>0, <1>0
    <2>6. ChunkTrue'
      <3>. SUFFICES ASSUME NEW d \in Collectors, collector'[d].pc = "noting"
                    PROVE  /\ lock' = d
                           /\ collector'[d].size <= collector'[d].end /\ collector'[d].end <= Len(log')
                           /\ \A i \in collector'[d].end - collector'[d].size + 1 .. collector'[d].end :
                                 log'[i] = clock'
        BY DEF ChunkTrue
      <3>1. d = c
        BY <2>3
      <3>2. Len(log) + n <= Len(log')
        BY <2>0, <2>1, <1>0
      <3>. QED
        BY <3>1, <3>2, <2>1, <2>4, <2>5
    <2>. QED
      BY <2>2, <2>6
  <1>7. CASE AppendBare
    <2>1. /\ Len(log') = Len(log) + 1 /\ index' = index
          /\ \A i \in 1 .. Len(log) : log'[i] = log[i]
      BY <1>7, <1>0 DEF AppendBare, CaptureTypeOK
    <2>2. RecordsTrue'
      <3>. SUFFICES ASSUME NEW m \in 1 .. Len(index) PROVE TrueRecord(index[m])'
        BY <2>1 DEF RecordsTrue
      <3>1. TrueRecord(index[m])
        BY DEF RecordsTrue
      <3>2. index'[m] = index[m] /\ index[m].start \in Nat /\ index[m].end \in Nat
        BY <2>1, <1>f
      <3>3. PICK r : r = index[m] /\ r = index'[m] /\ r.start \in Nat /\ r.end \in Nat
        BY <3>2
      <3>4. TrueRecord(r)
        BY <3>1, <3>3
      <3>5. \A i \in r.start + 1 .. r.end : i \in 1 .. Len(log) /\ log[i] = r.at
        BY <3>3, <3>4, <1>0 DEF TrueRecord
      <3>6. r.start <= r.end /\ r.end <= Len(log) + 1
        BY <3>3, <3>4, <1>0 DEF TrueRecord
      <3>7. TrueRecord(r)'
        BY <3>5, <3>6, <2>1 DEF TrueRecord
      <3>. QED
        BY <3>3, <3>7
    <2>3. ChunkTrue'
      <3>. SUFFICES ASSUME NEW c \in Collectors, collector[c].pc = "noting"
                    PROVE  /\ lock = c
                           /\ collector[c].size <= collector[c].end /\ collector[c].end <= Len(log')
                           /\ \A i \in collector[c].end - collector[c].size + 1 .. collector[c].end :
                                 log'[i] = clock
        BY <1>7 DEF ChunkTrue, AppendBare
      <3>. QED
        BY <2>1, <1>0, <1>c, SMTT(60) DEF ChunkTrue
    <2>. QED
      BY <2>2, <2>3
  <1>8. CASE RemoveLogs
    <2>1. Len(index') = 0
      BY <1>8 DEF RemoveLogs
    <2>2. \A d \in Collectors : collector'[d].pc # "noting"
      BY <1>8 DEF RemoveLogs, Collecting, Unborn
    <2>. QED
      BY <2>1, <2>2 DEF RecordsTrue, ChunkTrue
  <1>9. CASE UNCHANGED captureVars
    BY <1>9, <1>r DEF captureVars, ChunkTrue
  <1>. QED
    BY <1>1, <1>2, <1>3, <1>4, <1>5, <1>6, <1>7, <1>8, <1>9 DEF CaptureNext

\* A collector that changes alone leaves the others as they are.
LEMMA OthersStay ==
  ASSUME CaptureTypeOK, NEW c \in Collectors, NEW k, collector' = [collector EXCEPT ![c] = k]
  PROVE  collector'[c] = k /\ \A d \in Collectors \ {c} : collector'[d] = collector[d]
  BY DEF CaptureTypeOK

\* While no two collectors meet and every record is written, each step of them
\* keeps the records in order and complete.
LEMMA CaptureAloneStep ==
  ASSUME CaptureInv, CaptureTypeOK', RecordsTrue', CaptureNext, ~disturbed'
  PROVE  OneCollects' /\ AtTheEnd' /\ Apart' /\ AllRecorded'
  <1>. USE DEF CaptureInv
  <1>0. Len(log) \in Nat /\ Len(index) \in Nat /\ clock \in Nat
    BY DEF CaptureTypeOK
  <1>f. \A m \in 1 .. Len(index) :
          /\ index[m].start \in Nat /\ index[m].end \in Nat /\ index[m].at \in Nat
          /\ index[m].end <= Len(log)
    <2>1. index \in Seq(RecordType)
      BY DEF CaptureTypeOK
    <2>. QED
      BY <2>1, RecordsOfIndex DEF RecordsTrue, TrueRecord
  <1>c. \A c \in Collectors : /\ collector[c].size \in Nat /\ collector[c].end \in Nat
                              /\ collector[c].position \in Nat /\ collector[c].seen \in Nat /\ c # "none"
    BY CaptureAssumption DEF CaptureTypeOK, CollectorType
  <1>1. ASSUME NEW c \in Collectors, Stat(c)
        PROVE  OneCollects' /\ AtTheEnd' /\ Apart' /\ AllRecorded'
    <2>1. /\ ~disturbed /\ \A d \in Collectors : ~Collecting(d)
      BY <1>1 DEF Stat
    <2>2. /\ log' = log /\ index' = index
          /\ collector'[c].pc = "opening" /\ collector'[c].seen = Len(log)
          /\ \A d \in Collectors \ {c} : collector'[d] = collector[d]
      BY <1>1 DEF Stat, CaptureTypeOK, CollectorType
    <2>3. \A d \in Collectors : d # c => ~Collecting(d)' /\ collector'[d].pc \notin {"opening", "copying", "noting"}
      BY <2>1, <2>2 DEF Collecting
    <2>4. OneCollects'
      BY <2>3 DEF OneCollects
    <2>5. AtTheEnd'
      BY <2>2, <2>3, <1>f DEF AtTheEnd
    <2>6. Apart' /\ AllRecorded'
      <3>1. \A d \in Collectors : collector[d].pc # "noting"
        BY <2>1 DEF Collecting
      <3>. QED
        BY <3>1, <2>1, <2>2 DEF Apart, AllRecorded, Holding
    <2>. QED
      BY <2>4, <2>5, <2>6
  <1>2. ASSUME NEW c \in Collectors, OpenIndex(c)
        PROVE  OneCollects' /\ AtTheEnd' /\ Apart' /\ AllRecorded'
    <2>1. ~disturbed /\ collector[c].pc = "opening"
      BY <1>2 DEF OpenIndex
    <2>2. PICK n \in 0 .. Len(index) :
             /\ \A m \in (n + 1) .. Len(index) : index[m].end > collector[c].seen
             /\ index' = SubSeq(index, 1, n)
             /\ collector' = [collector EXCEPT ![c].pc = "copying", ![c].position = n + 1]
      BY <1>2 DEF OpenIndex
    <2>3. n = Len(index)
      <3>. SUFFICES ASSUME n # Len(index) PROVE FALSE
        OBVIOUS
      <3>1. n + 1 \in 1 .. Len(index) /\ n + 1 \in (n + 1) .. Len(index)
        BY <1>0
      <3>2. index[n + 1].end <= collector[c].seen
        BY <2>1, <3>1 DEF AtTheEnd
      <3>. QED
        BY <3>1, <3>2, <2>2, <1>c, <1>f
    <2>4. index' = index
      <3>1. index \in Seq(RecordType)
        BY DEF CaptureTypeOK
      <3>2. SubSeq(index, 1, Len(index)) = index
        <4>1. ASSUME NEW T, NEW s \in Seq(T) PROVE SubSeq(s, 1, Len(s)) = s
          <5>1. SubSeq(s, 1, Len(s)) \in Seq(T) /\ Len(SubSeq(s, 1, Len(s))) = Len(s)
                /\ \A i \in 1 .. Len(s) : SubSeq(s, 1, Len(s))[i] = s[i]
            OBVIOUS
          <5>. QED
            BY <5>1, SeqEqual
        <4>. QED
          BY <3>1, <4>1
      <3>. QED
        BY <2>2, <2>3, <3>2
    <2>5. /\ collector'[c].pc = "copying" /\ collector'[c].position = Len(index) + 1
          /\ \A d \in Collectors \ {c} : collector'[d] = collector[d]
      BY <2>2, <2>3 DEF CaptureTypeOK, CollectorType
    <2>6. \A d \in Collectors \ {c} : collector[d].pc \notin {"opening", "copying", "noting"}
      BY <2>1 DEF OneCollects, Collecting
    <2>7. OneCollects'
      BY <2>5, <2>6 DEF OneCollects, Collecting
    <2>8. AtTheEnd'
      BY <2>4, <2>5, <2>6 DEF AtTheEnd
    <2>9. Apart' /\ AllRecorded'
      <3>1. \A d \in Collectors : collector[d].pc # "noting"
        BY <2>1, <2>6
      <3>2. log' = log
        BY <1>2 DEF OpenIndex
      <3>. QED
        BY <3>1, <3>2, <2>1, <2>4 DEF Apart, AllRecorded, Holding
    <2>. QED
      BY <2>7, <2>8, <2>9
  <1>3. ASSUME NEW c \in Collectors, Note(c)
        PROVE  OneCollects' /\ AtTheEnd' /\ Apart' /\ AllRecorded'
    <2>. DEFINE k == collector[c]
                r == [start |-> k.end - k.size, end |-> k.end, at |-> clock]
                p == k.position
    <2>1. /\ k.pc = "noting" /\ log' = log /\ index' = Recorded(p, r) /\ ~disturbed
          /\ collector' = [collector EXCEPT ![c].pc = "copying", ![c].position = @ + 1]
      BY <1>3 DEF Note
    <2>2. p = Len(index) + 1 /\ \A m \in 1 .. Len(index) : index[m].end <= k.end - k.size
      BY <2>1 DEF AtTheEnd
    <2>3. k.size <= k.end /\ k.end <= Len(log)
      BY <2>1 DEF ChunkTrue
    <2>4. r.start = k.end - k.size /\ r.end = k.end /\ r \in RecordType
      BY <2>3, <1>c, <1>0 DEF RecordType
    <2>5. /\ Len(index') = Len(index) + 1 /\ index'[Len(index) + 1] = r
          /\ \A m \in 1 .. Len(index) : index'[m] = index[m]
      <3>1. p \in Nat \ {0} /\ index \in Seq(RecordType)
        BY <2>2, <1>0 DEF CaptureTypeOK
      <3>. HIDE DEF p, r
      <3>2. /\ Len(Recorded(p, r)) = Len(index) + 1
            /\ Recorded(p, r)[Len(index) + 1] = r
            /\ \A m \in 1 .. Len(index) : Recorded(p, r)[m] = index[m]
        BY <2>2, <2>4, <3>1, RecordedIndex
      <3>. QED
        BY <2>1, <3>2
    <2>6. /\ collector'[c].pc = "copying" /\ collector'[c].position = p + 1
          /\ \A d \in Collectors \ {c} : collector'[d] = collector[d]
      <3>1. collector' = [collector EXCEPT ![c].pc = "copying", ![c].position = p + 1]
        BY <2>1
      <3>. HIDE DEF p
      <3>. QED
        BY <3>1 DEF CaptureTypeOK, CollectorType
    <2>7. \A d \in Collectors \ {c} : collector[d].pc \notin {"opening", "copying", "noting"}
      BY <2>1 DEF OneCollects, Collecting
    <2>. HIDE DEF r
    <2>8. OneCollects'
      BY <2>6, <2>7 DEF OneCollects, Collecting
    <2>9. AtTheEnd'
      BY <1>0, <2>2, <2>5, <2>6, <2>7 DEF AtTheEnd
    <2>10. Apart'
      <3>. SUFFICES ASSUME NEW i \in 1 .. Len(index) + 1, NEW j \in 1 .. Len(index) + 1, i < j
                    PROVE  index'[i].end <= index'[j].start
        BY <2>5 DEF Apart
      <3>1. i \in 1 .. Len(index) /\ index'[i] = index[i]
        BY <1>0, <2>5
      <3>2. CASE j = Len(index) + 1
        BY <3>1, <3>2, <2>2, <2>4, <2>5
      <3>3. CASE j # Len(index) + 1
        <4>1. j \in 1 .. Len(index) /\ index'[j] = index[j]
          BY <1>0, <3>3, <2>5
        <4>. QED
          BY <2>1, <3>1, <4>1 DEF Apart
      <3>. QED
        BY <3>2, <3>3
    <2>11. AllRecorded'
      <3>. SUFFICES ASSUME NEW i \in 1 .. Len(log), log[i] # 0
                    PROVE  \E m \in 1 .. Len(index) + 1 : index'[m].start <= i - 1 /\ i - 1 < index'[m].end
        BY <2>1, <2>5 DEF AllRecorded, Holding
      <3>1. CASE Holding(i - 1) # {}
        <4>1. PICK m \in 1 .. Len(index) : index[m].start <= i - 1 /\ i - 1 < index[m].end
          BY <3>1 DEF Holding
        <4>2. m \in 1 .. Len(index) + 1 /\ index'[m] = index[m]
          BY <1>0, <2>5
        <4>. QED
          BY <4>1, <4>2
      <3>2. CASE Holding(i - 1) = {}
        <4>1. i > k.end - k.size /\ i <= k.end
          BY <3>2, <2>1, <2>7 DEF AllRecorded
        <4>2. index'[Len(index) + 1].start <= i - 1 /\ i - 1 < index'[Len(index) + 1].end
          BY <4>1, <2>3, <2>4, <2>5, <1>c
        <4>3. Len(index) + 1 \in 1 .. Len(index) + 1
          BY <1>0
        <4>. QED
          BY <4>2, <4>3
      <3>. QED
        BY <3>1, <3>2
    <2>. QED
      BY <2>8, <2>9, <2>10, <2>11
  <1>4. ASSUME NEW c \in Collectors, collector[c].pc # "noting", ~disturbed, log' = log, index' = index,
               collector' = [collector EXCEPT ![c] = [Unborn EXCEPT !.pc = "gone"]]
        PROVE  OneCollects' /\ AtTheEnd' /\ Apart' /\ AllRecorded'
    <2>1. collector'[c].pc = "gone" /\ \A d \in Collectors \ {c} : collector'[d] = collector[d]
      <3>. DEFINE k == [Unborn EXCEPT !.pc = "gone"]
      <3>1. k.pc = "gone"
        BY DEF Unborn
      <3>2. collector' = [collector EXCEPT ![c] = k]
        BY <1>4
      <3>. HIDE DEF k
      <3>. QED
        BY <3>1, <3>2, OthersStay
    <2>2. OneCollects'
      BY <1>4, <2>1 DEF OneCollects, Collecting
    <2>3. AtTheEnd'
      BY <1>4, <2>1 DEF AtTheEnd
    <2>4. Apart'
      BY <1>4 DEF Apart
    <2>5. AllRecorded'
      BY <1>4, <2>1 DEF AllRecorded, Holding
    <2>. QED
      BY <2>2, <2>3, <2>4, <2>5
  <1>5. ASSUME NEW c \in Collectors, Drained(c) \/ Killed(c)
        PROVE  OneCollects' /\ AtTheEnd' /\ Apart' /\ AllRecorded'
    <2>1. collector[c].pc # "noting" /\ ~disturbed
      <3>1. CASE Drained(c)
        BY <3>1 DEF Drained
      <3>2. CASE Killed(c)
        BY <3>2, Zenon DEF Killed
      <3>. QED
        BY <1>5, <3>1, <3>2
    <2>2. /\ log' = log /\ index' = index
          /\ collector' = [collector EXCEPT ![c] = [Unborn EXCEPT !.pc = "gone"]]
      BY <1>5 DEF Drained, Killed
    <2>. QED
      BY <2>1, <2>2, <1>4
  <1>6. ASSUME NEW c \in Collectors, NEW n \in ChunkSizes, Copy(c, n)
        PROVE  OneCollects' /\ AtTheEnd' /\ Apart' /\ AllRecorded'
    <2>0. n \in Nat
      BY CaptureAssumption
    <2>1. ~disturbed /\ index' = index /\ collector[c].pc = "copying" /\ lock = "none"
      BY <1>6 DEF Copy
    <2>2. Len(log') = Len(log) + n /\ \A i \in 1 .. Len(log) : log'[i] = log[i]
      <3>. DEFINE block == [i \in 1 .. n |-> clock + 1]
      <3>1. block \in Seq(Nat) /\ Len(block) = n
        BY <2>0, <1>0
      <3>2. log' = log \o block /\ log \in Seq(Nat)
        BY <1>6 DEF Copy, CaptureTypeOK
      <3>3. ASSUME NEW u \in Seq(Nat), NEW v \in Seq(Nat)
            PROVE  Len(u \o v) = Len(u) + Len(v) /\ \A i \in 1 .. Len(u) : (u \o v)[i] = u[i]
        OBVIOUS
      <3>. HIDE DEF block
      <3>4. Len(log \o block) = Len(log) + Len(block) /\ \A i \in 1 .. Len(log) : (log \o block)[i] = log[i]
        BY <3>1, <3>2, <3>3
      <3>. QED
        BY <3>1, <3>2, <3>4
    <2>3. /\ collector'[c].pc = "noting" /\ collector'[c].position = collector[c].position
          /\ collector'[c].end = Len(log) + n /\ collector'[c].size = n
          /\ \A d \in Collectors \ {c} : collector'[d] = collector[d]
      BY <1>6 DEF Copy, CaptureTypeOK, CollectorType
    <2>4. \A d \in Collectors \ {c} : collector[d].pc \notin {"opening", "copying", "noting"}
      BY <2>1 DEF OneCollects, Collecting
    <2>5. OneCollects'
      BY <2>3, <2>4 DEF OneCollects, Collecting
    <2>6. AtTheEnd'
      <3>1. collector[c].position = Len(index) + 1 /\ (Len(log) + n) - n = Len(log)
        BY <2>0, <2>1, <1>0 DEF AtTheEnd
      <3>. QED
        BY <3>1, <2>1, <2>3, <2>4, <1>f DEF AtTheEnd
    <2>7. Apart'
      BY <2>1 DEF Apart
    <2>8. AllRecorded'
      <3>. SUFFICES ASSUME NEW i \in 1 .. Len(log) + n
                    PROVE  \/ log'[i] = 0
                           \/ Holding(i - 1)' # {}
                           \/ i > (Len(log) + n) - n /\ i <= Len(log) + n
        BY <2>2, <2>3 DEF AllRecorded, Holding
      <3>1. CASE i \in 1 .. Len(log)
        <4>1. \A d \in Collectors : collector[d].pc # "noting"
          BY <2>1, <2>4
        <4>. QED
          BY <3>1, <4>1, <2>1, <2>2 DEF AllRecorded, Holding
      <3>2. CASE i \notin 1 .. Len(log)
        BY <3>2, <2>0, <1>0
      <3>. QED
        BY <3>1, <3>2
    <2>. QED
      BY <2>5, <2>6, <2>7, <2>8
  <1>7. CASE AppendBare
    <2>1. /\ Len(log') = Len(log) + 1 /\ index' = index /\ collector' = collector /\ ~disturbed
          /\ \A i \in 1 .. Len(log) : log'[i] = log[i]
          /\ log'[Len(log) + 1] = 0
      BY <1>7, <1>0 DEF AppendBare, CaptureTypeOK
    <2>2. OneCollects' /\ AtTheEnd' /\ Apart'
      BY <2>1 DEF OneCollects, Collecting, AtTheEnd, Apart
    <2>3. AllRecorded'
      <3>. SUFFICES ASSUME NEW i \in 1 .. Len(log) + 1
                    PROVE  \/ log'[i] = 0
                           \/ Holding(i - 1) # {}
                           \/ \E c \in Collectors : /\ collector[c].pc = "noting"
                                                   /\ i > collector[c].end - collector[c].size
                                                   /\ i <= collector[c].end
        BY <2>1 DEF AllRecorded, Holding
      <3>1. CASE i \in 1 .. Len(log)
        BY <3>1, <2>1 DEF AllRecorded
      <3>2. CASE i \notin 1 .. Len(log)
        BY <3>2, <2>1, <1>0
      <3>. QED
        BY <3>1, <3>2
    <2>. QED
      BY <2>2, <2>3
  <1>8. CASE RemoveLogs
    <2>1. Len(index') = 0 /\ Len(log') = 0
      BY <1>8 DEF RemoveLogs
    <2>2. \A d \in Collectors : ~Collecting(d)' /\ collector'[d].pc \notin {"opening", "copying", "noting"}
      BY <1>8 DEF RemoveLogs, Collecting, Unborn
    <2>. QED
      BY <2>1, <2>2 DEF OneCollects, AtTheEnd, Apart, AllRecorded
  <1>. QED
    BY <1>1, <1>2, <1>3, <1>5, <1>6, <1>7, <1>8 DEF CaptureNext

\* The records of the index tell the truth of the bytes they name, whatever the
\* collectors do to each other; and they are in order and miss no collected byte
\* until two collectors meet or a record is not written (log_capture.go).
THEOREM CaptureInvariance == CaptureSpec => []CaptureInv
  <1>1. CaptureInv /\ [CaptureNext]_captureVars => CaptureInv'
    <2>. SUFFICES ASSUME CaptureInv, [CaptureNext]_captureVars PROVE CaptureInv'
      OBVIOUS
    <2>1. CaptureTypeOK'
      BY CaptureTypeStep DEF CaptureInv
    <2>2. RecordsTrue' /\ ChunkTrue'
      BY CaptureTrueStep DEF CaptureInv
    <2>3. CASE CaptureNext
      BY <2>1, <2>2, <2>3, CaptureAloneStep DEF CaptureInv
    <2>4. CASE UNCHANGED captureVars
      BY <2>4, <2>1, <2>2 DEF captureVars, CaptureInv, OneCollects, Collecting, AtTheEnd, Apart,
                            AllRecorded, Holding
    <2>. QED
      BY <2>3, <2>4
  <1>. QED
    BY <1>1, CaptureInvInit, PTL DEF CaptureSpec

\* The Web dashboard dates a line with the moment at which it was collected or
\* with none, and with none only a line no collector wrote, as long as every
\* collector was alone and recorded each chunk (collectedLogTime).
THEOREM TimesCollected == CaptureSpec => []CollectedTimesAreTrue
  <1>1. ASSUME CaptureInv PROVE CollectedTimesAreTrue
    <2>. USE <1>1 DEF CaptureInv
    <2>. SUFFICES ASSUME lock = "none", NEW i \in DOMAIN log
                  PROVE  /\ CollectedTime(i - 1) \in {0, log[i]}
                         /\ ~disturbed => CollectedTime(i - 1) = log[i]
      BY DEF CollectedTimesAreTrue
    <2>0. i \in 1 .. Len(log) /\ i - 1 \in Nat /\ index \in Seq(RecordType) /\ Len(log) \in Nat
      BY DEF CaptureTypeOK
    <2>1. \A m \in 1 .. Len(index) : /\ index[m].start \in Nat /\ index[m].end \in Nat
                                     /\ index[m].start <= index[m].end
      BY <2>0, RecordsOfIndex DEF RecordsTrue, TrueRecord
    <2>2. \A m \in Holding(i - 1) : index[m].at = log[i]
      <3>. SUFFICES ASSUME NEW m \in Holding(i - 1) PROVE index[m].at = log[i]
        OBVIOUS
      <3>1. m \in 1 .. Len(index) /\ index[m].start <= i - 1 /\ i - 1 < index[m].end
        BY DEF Holding
      <3>2. i \in index[m].start + 1 .. index[m].end
        BY <3>1, <2>0, <2>1
      <3>. QED
        BY <3>1, <3>2 DEF RecordsTrue, TrueRecord
    <2>3. CollectedTime(i - 1) = 0 \/ \E m \in Holding(i - 1) : CollectedTime(i - 1) = index[m].at
      BY <2>0, FoundIsRecorded
    <2>4. CollectedTime(i - 1) \in {0, log[i]}
      BY <2>2, <2>3
    <2>5. ASSUME ~disturbed PROVE CollectedTime(i - 1) = log[i]
      <3>1. CASE Holding(i - 1) = {}
        <4>1. \A c \in Collectors : collector[c].pc # "noting"
          BY CaptureAssumption DEF ChunkTrue
        <4>2. log[i] = 0
          BY <2>0, <2>5, <3>1, <4>1 DEF AllRecorded
        <4>. QED
          BY <2>3, <3>1, <4>2
      <3>2. CASE Holding(i - 1) # {}
        <4>1. PICK m : m \in Holding(i - 1)
          BY <3>2
        <4>2. CollectedTime(i - 1) = index[m].at
          <5>1. Apart
            BY <2>5
          <5>. QED
            BY <2>0, <2>1, <4>1, <5>1, RecordedIsFound
        <4>. QED
          BY <2>2, <4>1, <4>2
      <3>. QED
        BY <3>1, <3>2
    <2>. QED
      BY <2>4, <2>5
  <1>. QED
    BY <1>1, CaptureInvariance, PTL

-----------------------------------------------------------------------------
(* DashboardInput                                                            *)

\* The bytes a key can be made of, and the ones a key that does not join an escape can
\* begin with
Bytes ==
  {"esc", "[", "O", "<", "A", "H", "M", "m", "~", "0", "5", "15", "64", "q", "lead", "rest",
   "^C", "^I"}
FirstBytes == {"esc", "q", "lead", "^C", "^I"}

Size(key) == Len(BytesOf[key])
ByteOf(key, j) == BytesOf[key][j]

LEMMA KeyBytes ==
  /\ Keys = {"escape", "up", "pageUp", "home", "wheelUp", "press", "release", "function",
             "text", "accent", "interrupt", "tab", "bracket", "letterO"}
  /\ \A key \in Keys : /\ BytesOf[key] \in Seq(Bytes)
                       /\ Len(BytesOf[key]) = Size(key)
                       /\ \A j \in 1 .. Size(key) : BytesOf[key][j] = ByteOf(key, j)
                       /\ Size(key) \in 1 .. 5
                       /\ ByteOf(key, 1) \in FirstBytes \cup {"[", "O"}
  <1>1. Keys = {"escape", "up", "pageUp", "home", "wheelUp", "press", "release", "function",
             "text", "accent", "interrupt", "tab", "bracket", "letterO"}
    BY DEF Keys, BytesOf
  <1>. QED
    BY <1>1 DEF BytesOf, Size, ByteOf, Bytes, FirstBytes

\* The bytes of the keys, one by one
LEMMA Spelling ==
  /\ Size("escape") = 1 /\ ByteOf("escape", 1) = "esc"
  /\ Size("up") = 3 /\ ByteOf("up", 1) = "esc" /\ ByteOf("up", 2) = "["
     /\ ByteOf("up", 3) = "A"
  /\ Size("pageUp") = 4 /\ ByteOf("pageUp", 1) = "esc"
     /\ ByteOf("pageUp", 2) = "[" /\ ByteOf("pageUp", 3) = "5"
     /\ ByteOf("pageUp", 4) = "~"
  /\ Size("home") = 3 /\ ByteOf("home", 1) = "esc" /\ ByteOf("home", 2) = "O"
     /\ ByteOf("home", 3) = "H"
  /\ Size("wheelUp") = 5 /\ ByteOf("wheelUp", 1) = "esc"
     /\ ByteOf("wheelUp", 2) = "[" /\ ByteOf("wheelUp", 3) = "<"
     /\ ByteOf("wheelUp", 4) = "64" /\ ByteOf("wheelUp", 5) = "M"
  /\ Size("press") = 5 /\ ByteOf("press", 1) = "esc" /\ ByteOf("press", 2) = "["
     /\ ByteOf("press", 3) = "<" /\ ByteOf("press", 4) = "0" /\ ByteOf("press", 5) = "M"
  /\ Size("release") = 5 /\ ByteOf("release", 1) = "esc"
     /\ ByteOf("release", 2) = "[" /\ ByteOf("release", 3) = "<"
     /\ ByteOf("release", 4) = "0" /\ ByteOf("release", 5) = "m"
  /\ Size("function") = 4 /\ ByteOf("function", 1) = "esc"
     /\ ByteOf("function", 2) = "[" /\ ByteOf("function", 3) = "15"
     /\ ByteOf("function", 4) = "~"
  /\ Size("text") = 1 /\ ByteOf("text", 1) = "q"
  /\ Size("accent") = 2 /\ ByteOf("accent", 1) = "lead"
     /\ ByteOf("accent", 2) = "rest"
  /\ Size("interrupt") = 1 /\ ByteOf("interrupt", 1) = "^C"
  /\ Size("tab") = 1 /\ ByteOf("tab", 1) = "^I"
  /\ Size("bracket") = 1 /\ ByteOf("bracket", 1) = "["
  /\ Size("letterO") = 1 /\ ByteOf("letterO", 1) = "O"
  BY DEF BytesOf, Size, ByteOf

\* data begins with the bytes of a key.
Starts(data, key) ==
  /\ Size(key) <= Len(data)
  /\ \A j \in 1 .. Size(key) : data[j] = ByteOf(key, j)

LEMMA EndIsFirst ==
  ASSUME NEW data \in Seq(Bytes), NEW n \in 3 .. Len(data), data[n] \in Finals,
         \A i \in 3 .. n - 1 : data[i] \notin Finals
  PROVE  LET ends == {i \in 3 .. Len(data) : data[i] \in Finals}
         IN  ends # {} /\ EndOf(ends) = n
  <1>. DEFINE ends == {i \in 3 .. Len(data) : data[i] \in Finals}
  <1>1. n \in ends /\ \A j \in ends : n <= j /\ j \in Nat
    OBVIOUS
  <1>. HIDE DEF ends
  <1>2. EndOf(ends) \in ends /\ \A j \in ends : EndOf(ends) <= j
    BY <1>1 DEF EndOf
  <1>3. EndOf(ends) <= n /\ n <= EndOf(ends) /\ EndOf(ends) \in Nat
    BY <1>1, <1>2
  <1>. QED
    BY <1>1, <1>3 DEF ends

LEMMA TakenApart ==
  ASSUME NEW data \in Seq(Bytes), Len(data) > 0
  PROVE  /\ data[1] = "^C" => Parse(data) = Decoded("interrupt", 1)
         /\ data[1] = "^I" => Parse(data) = Decoded("ignored", 1)
         /\ data[1] \in {"q", "[", "O"} => Parse(data) = Decoded(data[1], 1)
         /\ data[1] = "lead" => Parse(data) = IF Len(data) = 1 THEN More ELSE Decoded("accent", 2)
         /\ data[1] = "esc" => Parse(data) = IF Len(data) = 1 THEN More ELSE Sequence(data)
  <1>1. data # <<>>
    OBVIOUS
  <1>. QED
    BY <1>1 DEF Parse

LEMMA LoneByte ==
  ASSUME NEW data \in Seq(Bytes), Len(data) = 1, data[1] \in {"lead", "esc"}
  PROVE  Parse(data) = More
  <1>1. data # <<>> /\ data[1] # "^C" /\ data[1] \notin {"^I", "rest"}
    OBVIOUS
  <1>. QED
    BY <1>1 DEF Parse

LEMMA Cut3 ==
  ASSUME NEW data \in Seq(Bytes), Len(data) >= 3
  PROVE  SubSeq(data, 3, 3) = <<data[3]>>
  <1>. DEFINE s == SubSeq(data, 3, 3)  
              t == <<data[3]>>
  <1>1. data[3] \in Bytes /\ t \in Seq(Bytes) /\ Len(t) = 1 /\ t[1] = data[3]
    OBVIOUS
  <1>2. s \in Seq(Bytes) /\ Len(s) = 1 /\ s[1] = data[3]
    OBVIOUS
  <1>3. \A i \in 1 .. Len(s) : s[i] = t[i]
    <2>. HIDE DEF s, t
    <2>. QED
      BY <1>1, <1>2
  <1>. HIDE DEF s, t
  <1>4. s \in Seq(Bytes) /\ t \in Seq(Bytes) /\ Len(s) = Len(t)
    BY <1>1, <1>2
  <1>5. s = t
    BY <1>3, <1>4, SeqEqual, Zenon
  <1>. QED
    BY <1>5 DEF s, t
LEMMA Cut4 ==
  ASSUME NEW data \in Seq(Bytes), Len(data) >= 4
  PROVE  SubSeq(data, 3, 4) = <<data[3], data[4]>>
  <1>. DEFINE s == SubSeq(data, 3, 4)  
              t == <<data[3], data[4]>>
  <1>1. /\ t \in Seq(Bytes) /\ Len(t) = 2 /\ t[1] = data[3] /\ t[2] = data[4]
    OBVIOUS
  <1>2. s \in Seq(Bytes) /\ Len(s) = 2 /\ s[1] = data[3] /\ s[2] = data[4]
    OBVIOUS
  <1>. HIDE DEF s, t
  <1>3. \A i \in 1 .. Len(s) : s[i] = t[i]
    BY <1>1, <1>2
  <1>4. s \in Seq(Bytes) /\ t \in Seq(Bytes) /\ Len(s) = Len(t)
    BY <1>1, <1>2
  <1>5. s = t
    BY <1>3, <1>4, SeqEqual, Zenon
  <1>. QED
    BY <1>5 DEF s, t

LEMMA OneIsOne ==
  /\ <<"5", "~">> # <<"A">> /\ <<"15", "~">> # <<"A">> /\ <<"15", "~">> # <<"5", "~">>
  OBVIOUS

\* A key but the escape is decoded when all its bytes are there, whatever follows.
LEMMA WholeKey ==
  ASSUME NEW key \in Keys \ {"escape"}, NEW data \in Seq(Bytes), Starts(data, key)
  PROVE  Parse(data) = Decoded(EventOf(key), Size(key))
  <1>. DEFINE ends == {i \in 3 .. Len(data) : data[i] \in Finals}
  <1>0. Len(data) \in Nat /\ Len(data) > 0
    <2>1. Size(key) \in 1 .. 5
      BY KeyBytes
    <2>. QED
      BY <2>1 DEF Starts
  <1>1. CASE key \in {"accent", "interrupt", "tab"}
    BY <1>0, <1>1, Spelling, TakenApart DEF Starts, EventOf
  <1>9. CASE key \in {"text", "bracket", "letterO"}
    <2>1. Size(key) = 1 /\ data[1] = ByteOf(key, 1) /\ data[1] \in {"q", "[", "O"}
      BY <1>9, Spelling DEF Starts
    <2>2. EventOf(key) = data[1]
      BY <1>9, <2>1 DEF EventOf, ByteOf
    <2>. QED
      BY <1>0, <2>1, <2>2, TakenApart
  <1>2. CASE key = "up"
    <2>1. /\ Len(data) >= 3
          /\ data[1] = "esc" /\ data[2] = "[" /\ data[3] = "A"
      BY <1>2, Spelling DEF Starts
    <2>2. ends # {} /\ EndOf(ends) = 3
      BY <2>1, <1>0, EndIsFirst DEF Finals
    <2>3. Parse(data) = Sequence(data)
      BY <2>1, TakenApart
    <2>4. Sequence(data) = Decoded(Control(data, 3), 3)
      BY <2>1, <2>2 DEF Sequence
    <2>5. Control(data, 3) = "up"
      BY <2>1, Cut3 DEF Control
    <2>6. EventOf(key) = "up" /\ Size(key) = 3
      BY <1>2, Spelling DEF EventOf
    <2>. QED
      BY <2>3, <2>4, <2>5, <2>6
  <1>3. CASE key = "pageUp"
    <2>1. /\ Len(data) >= 4
          /\ data[1] = "esc" /\ data[2] = "[" /\ data[3] = "5" /\ data[4] = "~"
      BY <1>3, Spelling DEF Starts
    <2>2. ends # {} /\ EndOf(ends) = 4
      BY <2>1, <1>0, EndIsFirst DEF Finals
    <2>3. Parse(data) = Sequence(data)
      BY <2>1, TakenApart
    <2>4. Sequence(data) = Decoded(Control(data, 4), 4)
      BY <2>1, <2>2 DEF Sequence
    <2>5. Control(data, 4) = "pageUp"
      BY <2>1, Cut4, OneIsOne DEF Control
    <2>6. EventOf(key) = "pageUp" /\ Size(key) = 4
      BY <1>3, Spelling DEF EventOf
    <2>. QED
      BY <2>3, <2>4, <2>5, <2>6
  <1>4. CASE key = "function"
    <2>1. /\ Len(data) >= 4
          /\ data[1] = "esc" /\ data[2] = "[" /\ data[3] = "15" /\ data[4] = "~"
      BY <1>4, Spelling DEF Starts
    <2>2. ends # {} /\ EndOf(ends) = 4
      BY <2>1, <1>0, EndIsFirst DEF Finals
    <2>3. Parse(data) = Sequence(data)
      BY <2>1, TakenApart
    <2>4. Sequence(data) = Decoded(Control(data, 4), 4)
      BY <2>1, <2>2 DEF Sequence
    <2>5. Control(data, 4) = "ignored"
      BY <2>1, Cut4, OneIsOne DEF Control
    <2>6. EventOf(key) = "ignored" /\ Size(key) = 4
      BY <1>4, Spelling DEF EventOf
    <2>. QED
      BY <2>3, <2>4, <2>5, <2>6
  <1>5. CASE key = "wheelUp"
    <2>1. /\ Len(data) >= 5
          /\ data[1] = "esc" /\ data[2] = "[" /\ data[3] = "<" /\ data[4] = "64" /\ data[5] = "M"
      BY <1>5, Spelling DEF Starts
    <2>2. ends # {} /\ EndOf(ends) = 5
      BY <2>1, <1>0, EndIsFirst DEF Finals
    <2>3. Parse(data) = Sequence(data)
      BY <2>1, TakenApart
    <2>4. Sequence(data) = Decoded(Control(data, 5), 5)
      BY <2>1, <2>2 DEF Sequence
    <2>5. Control(data, 5) = "up"
      BY <2>1 DEF Control
    <2>6. EventOf(key) = "up" /\ Size(key) = 5
      BY <1>5, Spelling DEF EventOf
    <2>. QED
      BY <2>3, <2>4, <2>5, <2>6
  <1>6. CASE key = "press"
    <2>1. /\ Len(data) >= 5
          /\ data[1] = "esc" /\ data[2] = "[" /\ data[3] = "<" /\ data[4] = "0" /\ data[5] = "M"
      BY <1>6, Spelling DEF Starts
    <2>2. ends # {} /\ EndOf(ends) = 5
      BY <2>1, <1>0, EndIsFirst DEF Finals
    <2>3. Parse(data) = Sequence(data)
      BY <2>1, TakenApart
    <2>4. Sequence(data) = Decoded(Control(data, 5), 5)
      BY <2>1, <2>2 DEF Sequence
    <2>5. Control(data, 5) = "press"
      BY <2>1 DEF Control
    <2>6. EventOf(key) = "press" /\ Size(key) = 5
      BY <1>6, Spelling DEF EventOf
    <2>. QED
      BY <2>3, <2>4, <2>5, <2>6
  <1>7. CASE key = "release"
    <2>1. /\ Len(data) >= 5
          /\ data[1] = "esc" /\ data[2] = "[" /\ data[3] = "<" /\ data[4] = "0" /\ data[5] = "m"
      BY <1>7, Spelling DEF Starts
    <2>2. ends # {} /\ EndOf(ends) = 5
      BY <2>1, <1>0, EndIsFirst DEF Finals
    <2>3. Parse(data) = Sequence(data)
      BY <2>1, TakenApart
    <2>4. Sequence(data) = Decoded(Control(data, 5), 5)
      BY <2>1, <2>2 DEF Sequence
    <2>5. Control(data, 5) = "release"
      BY <2>1 DEF Control
    <2>6. EventOf(key) = "release" /\ Size(key) = 5
      BY <1>7, Spelling DEF EventOf
    <2>. QED
      BY <2>3, <2>4, <2>5, <2>6
  <1>8. CASE key = "home"
    <2>1. Len(data) >= 3 /\ data[1] = "esc" /\ data[2] = "O" /\ data[3] = "H"
      BY <1>8, Spelling DEF Starts
    <2>2. Parse(data) = Sequence(data)
      BY <2>1, TakenApart
    <2>3. Sequence(data) = Decoded("home", 3)
      BY <2>1, <1>0 DEF Sequence
    <2>4. EventOf(key) = "home" /\ Size(key) = 3
      BY <1>8, Spelling DEF EventOf
    <2>. QED
      BY <2>2, <2>3, <2>4
  <1>. QED
    BY <1>1, <1>2, <1>3, <1>4, <1>5, <1>6, <1>7, <1>8, <1>9, KeyBytes

\* An escape is a key itself when the beginning of another key follows ...
LEMMA EscapeAndMore ==
  ASSUME NEW data \in Seq(Bytes), Len(data) >= 2, data[1] = "esc", data[2] \in FirstBytes
  PROVE  Parse(data) = Decoded("escape", 1)
  <1>1. Len(data) \in Nat /\ Len(data) > 0 /\ Len(data) # 1
    OBVIOUS
  <1>2. Parse(data) = Sequence(data)
    BY <1>1, TakenApart
  <1>3. data[2] # "[" /\ data[2] # "O"
    BY DEF FirstBytes
  <1>. QED
    BY <1>2, <1>3 DEF Sequence

\* ... and what is less than a key is left until more comes.
LEMMA PartOfKey ==
  ASSUME NEW key \in Keys, NEW data \in Seq(Bytes),
         Len(data) < Size(key) \/ (key = "escape" /\ Len(data) = 1),
         \A j \in 1 .. Len(data) : data[j] = ByteOf(key, j)
  PROVE  Parse(data) = More
  <1>1. Len(data) \in Nat
    OBVIOUS
  <1>2. CASE data = <<>>
    BY <1>2 DEF Parse
  <1>3. CASE data # <<>>
    <2>0. Len(data) >= 1 /\ Size(key) \in 1 .. 5 /\ (key = "escape" => Size(key) = 1)
      BY <1>1, <1>3, KeyBytes, Spelling, SMTT(60)
    <2>1. Len(data) >= 1 /\ data[1] = ByteOf(key, 1) /\ Len(data) < 5
      BY <1>1, <2>0
    <2>2. CASE key \in {"text", "interrupt", "tab", "bracket", "letterO"}
      BY <2>1, <2>2, Spelling
    <2>3. CASE key \in {"accent", "escape"}
      <3>1. Len(data) = 1
        <4>1. CASE key = "accent"
          <5>1. Len(data) < Size(key)
            BY <4>1
          <5>2. Size(key) = 2
            BY <4>1, Spelling
          <5>. QED
            <6>1. ASSUME NEW n \in Nat, n >= 1, n < 2 PROVE n = 1
              BY <6>1
            <6>. QED
              BY <6>1, <5>1, <5>2, <1>1, <2>1
        <4>2. CASE key = "escape"
          BY <4>2, <1>1, <2>1, Spelling
        <4>. QED
          BY <4>1, <4>2, <2>3
      <3>2. data[1] \in {"lead", "esc"}
        BY <2>1, <2>3, Spelling
      <3>. QED
        BY <3>1, <3>2, LoneByte
    <2>4. CASE key \in {"up", "pageUp", "home", "wheelUp", "press", "release", "function"}
      <3>1. data[1] = "esc"
        BY <2>1, <2>4, Spelling
      <3>2. CASE Len(data) = 1
        BY <3>1, <3>2, LoneByte
      <3>3. CASE Len(data) >= 2
        <4>1. data[2] = (IF key = "home" THEN "O" ELSE "[")
          BY <2>4, <3>3, <1>1, Spelling
        <4>2. CASE key = "home"
          <5>1. Parse(data) = Sequence(data)
            BY <3>1, <3>3, <1>1, TakenApart
          <5>2. Len(data) < 3
            BY <4>2, Spelling
          <5>. QED
            BY <5>1, <5>2, <4>1, <4>2 DEF Sequence
        <4>3. CASE key # "home"
          <5>1. \A i \in 3 .. Len(data) : data[i] \notin Finals
            <6>. SUFFICES ASSUME NEW i \in 3 .. Len(data) PROVE data[i] \notin Finals
              OBVIOUS
            <6>1. i \in {3, 4} /\ i < Size(key) /\ data[i] = ByteOf(key, i)
              BY <2>0, <2>1, <1>1, <2>4
            <6>. QED
              BY <6>1, <2>4, <4>3, Spelling DEF Finals
          <5>2. {i \in 3 .. Len(data) : data[i] \in Finals} = {}
            BY <5>1
          <5>3. Parse(data) = Sequence(data)
            BY <3>1, <3>3, <1>1, TakenApart
          <5>. QED
            BY <5>3, <4>1, <4>3, <5>2 DEF Sequence
        <4>. QED
          BY <4>2, <4>3
      <3>4. Len(data) = 1 \/ Len(data) >= 2
        <4>1. ASSUME NEW n \in Nat, n >= 1 PROVE n = 1 \/ n >= 2
          BY <4>1
        <4>. QED
          BY <4>1, <2>1, <1>1
      <3>. QED
        BY <3>2, <3>3, <3>4
    <2>. QED
      BY <2>2, <2>3, <2>4, KeyBytes
  <1>. QED
    BY <1>2, <1>3

\* Where each of the keys after the first k begins in bytes that hold all of them and
\* nothing else
Begins(bytes, keys, k, at) ==
  /\ at[k + 1] = 0 /\ at[Len(keys) + 1] = Len(bytes)
  /\ \A i, j \in k + 1 .. Len(keys) + 1 : i < j => at[i] < at[j]
  /\ \A i \in k + 1 .. Len(keys) :
       /\ at[i + 1] = at[i] + Size(keys[i])
       /\ \A j \in 1 .. Size(keys[i]) : bytes[at[i] + j] = ByteOf(keys[i], j)

Spelled(bytes, keys, k) ==
  \E at \in [k + 1 .. Len(keys) + 1 -> 0 .. Len(bytes)] : Begins(bytes, keys, k, at)

\* None of the keys after the first k joins an escape before it.
Separate(keys, k) ==
  \A i \in k + 1 .. Len(keys) - 1 : keys[i] = "escape" => ByteOf(keys[i + 1], 1) \in FirstBytes

LEMMA SpelledAll ==
  ASSUME NEW keys \in Seq(Keys), NEW k \in 0 .. Len(keys), NEW bytes \in Seq(Bytes),
         Spelled(bytes, keys, k)
  PROVE  k = Len(keys) <=> bytes = <<>>
  <1>1. PICK at \in [k + 1 .. Len(keys) + 1 -> 0 .. Len(bytes)] : Begins(bytes, keys, k, at)
    BY DEF Spelled
  <1>2. Len(keys) \in Nat /\ Len(bytes) \in Nat
    OBVIOUS
  <1>3. CASE k = Len(keys)
    <2>1. Len(bytes) = 0
      BY <1>1, <1>3 DEF Begins
    <2>. QED
      BY <2>1, <1>3
  <1>4. CASE k < Len(keys)
    <2>1. k + 1 \in k + 1 .. Len(keys) + 1 /\ Len(keys) + 1 \in k + 1 .. Len(keys) + 1
      BY <1>2
    <2>2. 0 < Len(bytes)
      BY <1>1, <1>2, <1>4, <2>1 DEF Begins
    <2>. QED
      BY <2>2, <1>4
  <1>. QED
    BY <1>2, <1>3, <1>4

LEMMA SpelledFirst ==
  ASSUME NEW keys \in Seq(Keys), NEW k \in 0 .. Len(keys), k < Len(keys),
         NEW bytes \in Seq(Bytes), Spelled(bytes, keys, k), Separate(keys, k)
  PROVE  /\ Starts(bytes, keys[k + 1])
         /\ keys[k + 1] = "escape" /\ Len(bytes) >= 2 => bytes[2] \in FirstBytes
         /\ Spelled(SubSeq(bytes, Size(keys[k + 1]) + 1, Len(bytes)), keys, k + 1)
         /\ Separate(keys, k + 1)
  <1>1. PICK at \in [k + 1 .. Len(keys) + 1 -> 0 .. Len(bytes)] : Begins(bytes, keys, k, at)
    BY DEF Spelled
  <1>2. Len(keys) \in Nat /\ Len(bytes) \in Nat
    OBVIOUS
  <1>. DEFINE n == Size(keys[k + 1])
  <1>3. /\ keys[k + 1] \in Keys /\ n \in 1 .. 5
        /\ \A i \in 1 .. Len(keys) : keys[i] \in Keys /\ Size(keys[i]) \in 1 .. 5
    <2>1. \A i \in 1 .. Len(keys) : keys[i] \in Keys
      OBVIOUS
    <2>2. k + 1 \in 1 .. Len(keys)
      BY <1>2
    <2>. QED
      BY <2>1, <2>2, KeyBytes
  <1>. HIDE DEF n
  <1>4. /\ k + 1 \in k + 1 .. Len(keys) /\ k + 2 \in k + 1 .. Len(keys) + 1
        /\ at[k + 1] = 0 /\ at[k + 2] = n /\ n <= Len(bytes)
    <2>1. k + 1 \in k + 1 .. Len(keys) /\ k + 2 \in k + 1 .. Len(keys) + 1 /\ (k + 1) + 1 = k + 2
      BY <1>2
    <2>2. at[k + 2] = at[k + 1] + n
      BY <1>1, <2>1 DEF Begins, n
    <2>. QED
      BY <1>1, <1>3, <2>1, <2>2 DEF Begins
  <1>5. \A j \in 1 .. n : bytes[j] = ByteOf(keys[k + 1], j)
    <2>1. \A j \in 1 .. n : bytes[at[k + 1] + j] = ByteOf(keys[k + 1], j)
      BY <1>1, <1>4 DEF Begins, n
    <2>. QED
      BY <2>1, <1>3, <1>4
  <1>6. ASSUME keys[k + 1] = "escape", Len(bytes) >= 2 PROVE bytes[2] \in FirstBytes
    <2>1. n = 1
      BY <1>6, Spelling DEF n
    <2>2. k + 2 \in k + 1 .. Len(keys)
      BY <2>1, <1>1, <1>2, <1>4, <1>6 DEF Begins
    <2>3. bytes[at[k + 2] + 1] = ByteOf(keys[k + 2], 1)
      <3>1. k + 2 \in 1 .. Len(keys)
        BY <1>2, <2>2
      <3>2. 1 \in 1 .. Size(keys[k + 2])
        BY <3>1, <1>3, SMTT(60)
      <3>. QED
        BY <1>1, <2>2, <3>2 DEF Begins
    <2>4. k + 2 \in 1 .. Len(keys) /\ at[k + 2] + 1 = 2
      BY <2>1, <2>2, <1>2, <1>4
    <2>5. ByteOf(keys[k + 2], 1) \in FirstBytes
      <3>1. k + 1 \in k + 1 .. Len(keys) - 1 /\ (k + 1) + 1 = k + 2
        BY <1>2, <2>2
      <3>. QED
        BY <1>6, <3>1 DEF Separate
    <2>. QED
      BY <2>3, <2>4, <2>5
  <1>. DEFINE rest == SubSeq(bytes, n + 1, Len(bytes))
              to == [i \in (k + 1) + 1 .. Len(keys) + 1 |-> at[i] - n]
  <1>7. /\ rest \in Seq(Bytes) /\ Len(rest) = Len(bytes) - n
        /\ \A j \in 1 .. Len(bytes) - n : rest[j] = bytes[n + j]
    BY <1>2, <1>3, <1>4
  <1>8. /\ \A i \in (k + 1) + 1 .. Len(keys) + 1 : /\ i \in k + 1 .. Len(keys) + 1
                                                  /\ n <= at[i] /\ at[i] \in 0 .. Len(bytes)
        /\ \A i \in (k + 1) + 1 .. Len(keys) : /\ i \in k + 1 .. Len(keys)
                                              /\ i + 1 \in (k + 1) + 1 .. Len(keys) + 1
    <2>1. \A i \in (k + 1) + 1 .. Len(keys) + 1 : i \in k + 1 .. Len(keys) + 1 /\ (i = k + 2 \/ k + 2 < i)
      BY <1>2
    <2>2. \A i \in k + 1 .. Len(keys) + 1 : k + 2 < i => at[k + 2] < at[i]
      BY <1>1, <1>4 DEF Begins
    <2>3. ASSUME NEW i \in (k + 1) + 1 .. Len(keys) + 1
          PROVE  n <= at[i] /\ at[i] \in 0 .. Len(bytes)
      <3>1. i \in k + 1 .. Len(keys) + 1 /\ at[i] \in 0 .. Len(bytes)
        BY <2>1, <1>4
      <3>2. CASE i = k + 2
        BY <3>1, <3>2, <1>1, <1>2, <1>4
      <3>3. CASE k + 2 < i
        <4>1. at[k + 2] < at[i]
          BY <3>1, <3>3, <2>2
        <4>. QED
          BY <4>1, <3>1, <1>1, <1>2, <1>4
      <3>. QED
        BY <2>1, <3>2, <3>3
    <2>4. \A i \in (k + 1) + 1 .. Len(keys) : i \in k + 1 .. Len(keys) /\ i + 1 \in (k + 1) + 1 .. Len(keys) + 1
      BY <1>2
    <2>. QED
      BY <2>1, <2>3, <2>4
  <1>. HIDE DEF rest
  <1>9. to \in [(k + 1) + 1 .. Len(keys) + 1 -> 0 .. Len(rest)]
    BY <1>2, <1>3, <1>7, <1>8
  <1>10. Begins(rest, keys, k + 1, to)
    <2>1. to[(k + 1) + 1] = 0 /\ to[Len(keys) + 1] = Len(rest)
      BY <1>1, <1>2, <1>3, <1>4, <1>7, SMTT(60) DEF Begins
    <2>2. \A i, j \in (k + 1) + 1 .. Len(keys) + 1 : i < j => to[i] < to[j]
      <3>1. \A i, j \in (k + 1) + 1 .. Len(keys) + 1 : i < j => at[i] < at[j]
        BY <1>1, <1>8 DEF Begins
      <3>. QED
        BY <3>1, <1>3, <1>8
    <2>3. ASSUME NEW i \in (k + 1) + 1 .. Len(keys)
          PROVE  /\ to[i + 1] = to[i] + Size(keys[i])
                 /\ \A j \in 1 .. Size(keys[i]) : rest[to[i] + j] = ByteOf(keys[i], j)
      <3>1. /\ i \in k + 1 .. Len(keys) /\ i + 1 \in (k + 1) + 1 .. Len(keys) + 1
            /\ i \in (k + 1) + 1 .. Len(keys) + 1 /\ i \in 1 .. Len(keys)
        BY <1>2, <1>8
      <3>2. /\ at[i + 1] = at[i] + Size(keys[i])
            /\ \A j \in 1 .. Size(keys[i]) : bytes[at[i] + j] = ByteOf(keys[i], j)
        BY <1>1, <3>1 DEF Begins
      <3>3. Size(keys[i]) \in 1 .. 5 /\ at[i] \in n .. Len(bytes) /\ at[i + 1] \in n .. Len(bytes)
        BY <3>1, <1>2, <1>3, <1>8
      <3>4. to[i] = at[i] - n /\ to[i + 1] = at[i + 1] - n
        BY <3>1
      <3>. HIDE DEF to
      <3>5. to[i + 1] = to[i] + Size(keys[i])
        <4>1. at[i] \in Int /\ at[i + 1] \in Int /\ n \in Int /\ Size(keys[i]) \in Int
          BY <1>2, <1>3, <3>3
        <4>. QED
          BY <4>1, <3>2, <3>4
      <3>6. ASSUME NEW j \in 1 .. Size(keys[i]) PROVE rest[to[i] + j] = ByteOf(keys[i], j)
        <4>. DEFINE m == Size(keys[i])
        <4>1. m \in 1 .. 5 /\ at[i + 1] = at[i] + m /\ j \in 1 .. m
          BY <3>2, <3>3
        <4>. HIDE DEF m
        <4>2. to[i] + j \in 1 .. Len(bytes) - n /\ n + (to[i] + j) = at[i] + j
          <5>1. at[i] \in Int /\ at[i + 1] \in Int /\ n \in Int /\ n <= at[i] /\ at[i + 1] <= Len(bytes)
            BY <1>2, <1>3, <3>3
          <5>2. at[i] + j <= Len(bytes) /\ j >= 1 /\ j \in Int
            BY <4>1, <5>1, <1>2
          <5>. QED
            BY <5>1, <5>2, <3>4, <1>2, SMTT(60)
        <4>. QED
          BY <4>2, <3>2, <1>7
      <3>. QED
        BY <3>5, <3>6
    <2>. QED
      BY <2>1, <2>2, <2>3 DEF Begins
  <1>11. Spelled(rest, keys, k + 1)
    BY <1>9, <1>10 DEF Spelled
  <1>12. Separate(keys, k + 1)
    BY <1>2 DEF Separate
  <1>. QED
    BY <1>4, <1>5, <1>6, <1>11, <1>12 DEF rest, n, Starts

\* Keys that end with an escape leave it last.
LEMMA SpelledLast ==
  ASSUME NEW keys \in Seq(Keys), NEW k \in 0 .. Len(keys), k < Len(keys),
         NEW bytes \in Seq(Bytes), Spelled(bytes, keys, k), keys[Len(keys)] = "escape"
  PROVE  bytes # <<>> /\ bytes[Len(bytes)] = "esc"
  <1>1. PICK at \in [k + 1 .. Len(keys) + 1 -> 0 .. Len(bytes)] : Begins(bytes, keys, k, at)
    BY DEF Spelled
  <1>2. /\ Len(keys) \in Nat /\ Len(bytes) \in Nat /\ Len(keys) \in k + 1 .. Len(keys)
        /\ Len(keys) \in k + 1 .. Len(keys) + 1
    OBVIOUS
  <1>3. Size("escape") = 1 /\ ByteOf("escape", 1) = "esc" /\ 1 \in 1 .. 1
    BY Spelling
  <1>4. /\ at[Len(keys) + 1] = at[Len(keys)] + 1 /\ at[Len(keys) + 1] = Len(bytes)
        /\ bytes[at[Len(keys)] + 1] = "esc"
    BY <1>1, <1>2, <1>3 DEF Begins
  <1>5. at[Len(keys)] \in 0 .. Len(bytes)
    BY <1>2
  <1>. QED
    BY <1>2, <1>4, <1>5

LEMMA SeparatePress ==
  ASSUME NEW keys \in Seq(Keys), NEW k \in 0 .. Len(keys), NEW key \in Keys, Separate(keys, k),
         k < Len(keys) /\ keys[Len(keys)] = "escape" => ByteOf(key, 1) \in FirstBytes
  PROVE  Separate(Append(keys, key), k)
  <1>. DEFINE more == Append(keys, key)
  <1>1. /\ Len(keys) \in Nat /\ Len(more) = Len(keys) + 1 /\ more[Len(keys) + 1] = key
        /\ \A i \in 1 .. Len(keys) : more[i] = keys[i]
    OBVIOUS
  <1>. HIDE DEF more
  <1>2. SUFFICES ASSUME NEW i \in k + 1 .. Len(more) - 1, more[i] = "escape"
                 PROVE  ByteOf(more[i + 1], 1) \in FirstBytes
    BY DEF Separate, more
  <1>3. CASE i = Len(keys)
    <2>1. k < Len(keys) /\ keys[Len(keys)] = "escape" /\ more[i + 1] = key
      BY <1>1, <1>2, <1>3
    <2>. QED
      BY <2>1
  <1>4. CASE i # Len(keys)
    <2>1. i \in k + 1 .. Len(keys) - 1 /\ more[i] = keys[i] /\ more[i + 1] = keys[i + 1]
      BY <1>1, <1>2, <1>4
    <2>. QED
      BY <1>2, <2>1 DEF Separate
  <1>. QED
    BY <1>3, <1>4

LEMMA SpelledPress ==
  ASSUME NEW keys \in Seq(Keys), NEW k \in 0 .. Len(keys), NEW bytes \in Seq(Bytes),
         NEW key \in Keys, Spelled(bytes, keys, k)
  PROVE  /\ bytes \o BytesOf[key] \in Seq(Bytes)
         /\ Spelled(bytes \o BytesOf[key], Append(keys, key), k)
  <1>1. PICK at \in [k + 1 .. Len(keys) + 1 -> 0 .. Len(bytes)] : Begins(bytes, keys, k, at)
    BY DEF Spelled
  <1>. DEFINE n == Len(keys)
              m == Len(bytes)
              all == bytes \o BytesOf[key]
              more == Append(keys, key)
              to == [i \in k + 1 .. n + 2 |-> IF i = n + 2 THEN m + Size(key) ELSE at[i]]
  <1>2. n \in Nat /\ m \in Nat /\ Size(key) \in 1 .. 5 /\ k \in 0 .. n
    <2>1. Size(key) \in 1 .. 5
      BY KeyBytes
    <2>. QED
      BY <2>1
  <1>3. /\ all \in Seq(Bytes) /\ Len(all) = m + Size(key)
        /\ \A j \in 1 .. m : all[j] = bytes[j]
        /\ \A j \in 1 .. Size(key) : all[m + j] = ByteOf(key, j)
    <2>. DEFINE b == BytesOf[key]
    <2>1. b \in Seq(Bytes) /\ Len(b) = Size(key) /\ \A j \in 1 .. Size(key) : b[j] = ByteOf(key, j)
      BY KeyBytes
    <2>. HIDE DEF b
    <2>2. /\ bytes \o b \in Seq(Bytes) /\ Len(bytes \o b) = m + Size(key)
          /\ \A j \in 1 .. m : (bytes \o b)[j] = bytes[j]
          /\ \A j \in 1 .. Size(key) : (bytes \o b)[m + j] = b[j]
      BY <1>2, <2>1
    <2>. QED
      BY <2>1, <2>2 DEF b
  <1>4. /\ more \in Seq(Keys) /\ Len(more) = n + 1 /\ more[n + 1] = key
        /\ \A i \in 1 .. n : more[i] = keys[i] /\ keys[i] \in Keys
    OBVIOUS
  <1>. HIDE DEF all, more
  <1>5. /\ at \in [k + 1 .. n + 1 -> 0 .. m] /\ at[k + 1] = 0 /\ at[n + 1] = m
        /\ \A i, j \in k + 1 .. n + 1 : i < j => at[i] < at[j]
        /\ \A i \in k + 1 .. n :
             /\ at[i + 1] = at[i] + Size(keys[i])
             /\ \A j \in 1 .. Size(keys[i]) : bytes[at[i] + j] = ByteOf(keys[i], j)
    BY <1>1 DEF Begins
  <1>. HIDE DEF n, m
  <1>6. /\ \A i \in k + 1 .. n + 1 : to[i] = at[i] /\ at[i] \in 0 .. m
        /\ to[n + 2] = m + Size(key)
        /\ \A i \in k + 1 .. n + 2 : i = n + 2 \/ i \in k + 1 .. n + 1
    BY <1>2, <1>5
  <1>7. to \in [k + 1 .. n + 2 -> 0 .. m + Size(key)]
    <2>. SUFFICES ASSUME NEW i \in k + 1 .. n + 2 PROVE to[i] \in 0 .. m + Size(key)
      OBVIOUS
    <2>. HIDE DEF to
    <2>1. CASE i = n + 2
      BY <2>1, <1>2, <1>6, SMTT(60)
    <2>2. CASE i \in k + 1 .. n + 1
      <3>1. to[i] \in 0 .. m
        BY <2>2, <1>6
      <3>. QED
        BY <3>1, <1>2
    <2>. QED
      BY <2>1, <2>2, <1>6
  <1>. HIDE DEF to
  <1>8. Begins(all, more, k, to)
    <2>1. to[k + 1] = 0 /\ to[Len(more) + 1] = Len(all)
      BY <1>2, <1>3, <1>4, <1>5, <1>6
    <2>2. ASSUME NEW i \in k + 1 .. n + 2, NEW j \in k + 1 .. n + 2, i < j PROVE to[i] < to[j]
      <3>1. i \in k + 1 .. n + 1 /\ at[i] \in 0 .. m
        BY <1>2, <1>6, <2>2
      <3>2. CASE j = n + 2
        BY <1>2, <1>6, <3>1, <3>2, SMTT(60)
      <3>3. CASE j \in k + 1 .. n + 1
        BY <1>5, <1>6, <2>2, <3>1, <3>3
      <3>. QED
        BY <1>6, <3>2, <3>3
    <2>3. ASSUME NEW i \in k + 1 .. n + 1
          PROVE  /\ to[i + 1] = to[i] + Size(more[i])
                 /\ \A j \in 1 .. Size(more[i]) : all[to[i] + j] = ByteOf(more[i], j)
      <3>1. CASE i = n + 1
        <4>1. i \in k + 1 .. n + 1 /\ i + 1 = n + 2
          BY <1>2, <3>1
        <4>2. to[i] = m /\ to[i + 1] = m + Size(key)
          BY <4>1, <1>5, <1>6, <3>1
        <4>3. more[i] = key
          BY <3>1, <1>4
        <4>4. \A j \in 1 .. Size(key) : all[m + j] = ByteOf(key, j)
          BY <1>3
        <4>. QED
          BY <4>2, <4>3, <4>4, Zenon
      <3>2. CASE i # n + 1
        <4>1. i \in k + 1 .. n /\ i \in 1 .. n /\ i + 1 \in k + 1 .. n + 1 /\ i \in k + 1 .. n + 1
          BY <1>2, <3>2
        <4>. DEFINE l == Size(keys[i])
        <4>2. more[i] = keys[i] /\ l \in 1 .. 5
          BY <4>1, <1>4, KeyBytes
        <4>3. /\ at[i + 1] = at[i] + l
              /\ \A j \in 1 .. l : bytes[at[i] + j] = ByteOf(keys[i], j)
          BY <4>1, <1>5
        <4>. HIDE DEF l
        <4>4. to[i] = at[i] /\ to[i + 1] = at[i + 1] /\ at[i] \in 0 .. m /\ at[i + 1] \in 0 .. m
          BY <4>1, <1>6
        <4>5. \A j \in 1 .. l : at[i] + j \in 1 .. m
          BY <4>2, <4>3, <4>4, <1>2, SMTT(60)
        <4>6. \A j \in 1 .. l : all[at[i] + j] = ByteOf(keys[i], j)
          BY <4>3, <4>5, <1>3
        <4>. QED
          BY <4>2, <4>3, <4>4, <4>6 DEF l
      <3>. QED
        BY <3>1, <3>2
    <2>4. Len(more) + 1 = n + 2 /\ Len(more) = n + 1
      BY <1>2, <1>4
    <2>. QED
      BY <2>1, <2>2, <2>3, <2>4 DEF Begins
  <1>9. Spelled(all, more, k)
    <2>1. Len(more) + 1 = n + 2
      BY <1>2, <1>4
    <2>. QED
      BY <2>1, <1>3, <1>7, <1>8 DEF Spelled
  <1>. QED
    BY <1>3, <1>9 DEF all, more

\* Cutting two sequences apart elsewhere leaves what they are together.
LEMMA SameBySteps ==
  ASSUME NEW S, NEW s \in Seq(S), NEW t \in Seq(S), NEW n \in Nat, Len(s) = n, Len(t) = n,
         \A i \in 1 .. n : s[i] = t[i]
  PROVE  s = t
  BY SeqEqual, Zenon

LEMMA Joined ==
  ASSUME NEW S, NEW s \in Seq(S), NEW t \in Seq(S)
  PROVE  /\ s \o t \in Seq(S) /\ Len(s \o t) = Len(s) + Len(t)
         /\ \A i \in 1 .. Len(s) : (s \o t)[i] = s[i]
         /\ \A i \in 1 .. Len(t) : (s \o t)[Len(s) + i] = t[i]
  OBVIOUS

LEMMA RestOf ==
  ASSUME NEW S, NEW p \in Seq(S), NEW q \in Seq(S), NEW n \in 0 .. Len(p)
  PROVE  /\ SubSeq(p, n + 1, Len(p)) \in Seq(S)
         /\ SubSeq(p, n + 1, Len(p)) \o q = SubSeq(p \o q, n + 1, Len(p \o q))
  <1>. DEFINE r == SubSeq(p, n + 1, Len(p))
              l == Len(p)
              m == Len(q)
              b == p \o q
              c == SubSeq(b, n + 1, Len(b))
  <1>1. l \in Nat /\ m \in Nat /\ n \in 0 .. l
    OBVIOUS
  <1>2. r \in Seq(S) /\ Len(r) = l - n /\ \A i \in 1 .. l - n : r[i] = p[n + i]
    <2>1. /\ r \in Seq(S) /\ Len(r) = l - n
      OBVIOUS
    <2>. QED
      BY <2>1
  <1>3. /\ b \in Seq(S) /\ Len(b) = l + m /\ \A i \in 1 .. l : b[i] = p[i]
        /\ \A i \in 1 .. m : b[l + i] = q[i]
    OBVIOUS
  <1>. HIDE DEF r, b, l, m
  <1>4. /\ c \in Seq(S) /\ Len(c) = l + m - n
        /\ \A i \in 1 .. l + m - n : c[i] = b[n + i]
    BY <1>1, <1>3
  <1>5. /\ r \o q \in Seq(S) /\ Len(r \o q) = l + m - n
        /\ \A i \in 1 .. l - n : (r \o q)[i] = r[i]
        /\ \A i \in 1 .. m : (r \o q)[l - n + i] = q[i]
    <2>1. /\ r \o q \in Seq(S) /\ Len(r \o q) = Len(r) + m
          /\ \A i \in 1 .. Len(r) : (r \o q)[i] = r[i]
          /\ \A i \in 1 .. m : (r \o q)[Len(r) + i] = q[i]
      <3>1. r \in Seq(S)
        BY <1>2
      <3>. QED
        BY <3>1, Joined DEF m
    <2>2. Len(r) = l - n /\ l - n + m = l + m - n
      BY <1>1, <1>2
    <2>. QED
      BY <2>1, <2>2
  <1>. HIDE DEF c
  <1>6. \A i \in 1 .. l + m - n : (r \o q)[i] = c[i]
    <2>. SUFFICES ASSUME NEW i \in 1 .. l + m - n PROVE (r \o q)[i] = c[i]
      OBVIOUS
    <2>. DEFINE d == r \o q
    <2>0. /\ \A j \in 1 .. l - n : d[j] = r[j]
          /\ \A j \in 1 .. m : d[l - n + j] = q[j]
      BY <1>5
    <2>. HIDE DEF d
    <2>1. CASE i <= l - n
      <3>1. i \in 1 .. l - n /\ n + i \in 1 .. l
        BY <2>1, <1>1
      <3>2. d[i] = p[n + i] /\ c[i] = b[n + i] /\ b[n + i] = p[n + i]
        BY <3>1, <2>0, <1>2, <1>3, <1>4
      <3>. QED
        BY <3>2 DEF d
    <2>2. CASE i > l - n
      <3>. DEFINE j == i - (l - n)
      <3>1. j \in 1 .. m /\ i = l - n + j /\ n + i = l + j
        BY <2>2, <1>1
      <3>. HIDE DEF j
      <3>2. d[i] = q[j] /\ c[i] = b[n + i] /\ b[n + i] = q[j]
        BY <3>1, <2>0, <1>3, <1>4
      <3>. QED
        BY <3>2 DEF d
    <2>3. i <= l - n \/ i > l - n
      BY <1>1
    <2>. QED
      BY <2>1, <2>2, <2>3
  <1>7. r \o q = c
    <2>1. l + m - n \in Nat
      BY <1>1
    <2>. QED
      BY <2>1, <1>4, <1>5, <1>6, SameBySteps, Zenon
  <1>. QED
    BY <1>2, <1>7 DEF r, c, b, l

LEMMA CutElsewhere ==
  ASSUME NEW S, NEW p \in Seq(S), NEW q \in Seq(S), NEW n \in 0 .. Len(q)
  PROVE  /\ p \o SubSeq(q, 1, n) \in Seq(S) /\ SubSeq(q, n + 1, Len(q)) \in Seq(S)
         /\ (p \o SubSeq(q, 1, n)) \o SubSeq(q, n + 1, Len(q)) = p \o q
  <1>. DEFINE a == SubSeq(q, 1, n)
              b == SubSeq(q, n + 1, Len(q))
  <1>1. a \in Seq(S) /\ b \in Seq(S)
    OBVIOUS
  <1>2. a \o b = q
    <2>1. /\ 1 \in 1 .. Len(q) + 1 /\ n \in 1 - 1 .. Len(q) /\ Len(q) \in n .. Len(q)
      OBVIOUS
    <2>2. SubSeq(q, 1, n) \o SubSeq(q, n + 1, Len(q)) = SubSeq(q, 1, Len(q))
      BY <2>1, ConcatAdjacentSubSeq, Zenon
    <2>3. SubSeq(q, 1, Len(q)) = q
      BY SubSeqFull, Zenon
    <2>. QED
      BY <2>2, <2>3
  <1>3. (p \o a) \o b = p \o (a \o b)
    <2>1. \A r \in Seq(S), t \in Seq(S) : (p \o r) \o t = p \o (r \o t)
      BY ConcatAssociative
    <2>. HIDE DEF a, b
    <2>. QED
      BY <1>1, <2>1, Zenon
  <1>4. p \o a \in Seq(S)
    <2>. HIDE DEF a, b
    <2>. QED
      BY <1>1
  <1>. HIDE DEF a, b
  <1>5. (p \o a) \o b = p \o q
    BY <1>2, <1>3, Zenon
  <1>. QED
    BY <1>1, <1>4, <1>5 DEF a, b

LEMMA OneOver ==
  ASSUME NEW S, NEW p \in Seq(S), NEW q \in Seq(S), q # <<>>
  PROVE  /\ Append(p, Head(q)) \in Seq(S) /\ Tail(q) \in Seq(S)
         /\ Append(p, Head(q)) \o Tail(q) = p \o q
  <1>1. Len(q) \in Nat /\ Len(q) >= 1 /\ 1 \in 0 .. Len(q)
    OBVIOUS
  <1>2. Tail(q) = SubSeq(q, 1 + 1, Len(q))
    BY TailIsSubSeq, 1 + 1 = 2, Zenon
  <1>3. Head(q) \in S /\ Head(q) = q[1] /\ Tail(q) \in Seq(S)
    BY <1>1
  <1>4. SubSeq(q, 1, 1) = <<Head(q)>>
    <2>. DEFINE s == SubSeq(q, 1, 1)
                t == <<Head(q)>>
    <2>1. s \in Seq(S) /\ Len(s) = 1 /\ s[1] = q[1]
      BY <1>1
    <2>2. t \in Seq(S) /\ Len(t) = 1 /\ t[1] = Head(q)
      BY <1>3
    <2>. HIDE DEF s, t
    <2>3. \A i \in 1 .. 1 : s[i] = t[i]
      BY <2>1, <2>2, <1>3
    <2>4. s = t
      BY <2>1, <2>2, <2>3, 1 \in Nat, SameBySteps, Zenon
    <2>. QED
      BY <2>4 DEF s, t
  <1>5. Append(p, Head(q)) = p \o <<Head(q)>>
    BY <1>3, AppendIsConcat, Zenon
  <1>6. (p \o SubSeq(q, 1, 1)) \o SubSeq(q, 1 + 1, Len(q)) = p \o q
    BY <1>1, CutElsewhere, ZenonT(60)
  <1>7. Append(p, Head(q)) \o Tail(q) = p \o q
    BY <1>2, <1>4, <1>5, <1>6, Zenon
  <1>8. Append(p, Head(q)) \in Seq(S)
    BY <1>3
  <1>. QED
    BY <1>3, <1>7, <1>8

Wanted(keys, k) == {i \in 1 .. k : EventOf(keys[i]) # "ignored"}

\* The keys the events are of: those among the first k that are events, in order
AreOf(events, keys, k, from) ==
  /\ \A i, j \in 1 .. Len(events) : i < j => from[i] < from[j]
  /\ \A i \in 1 .. Len(events) : events[i] = EventOf(keys[from[i]])
  /\ \A x \in Wanted(keys, k) : \E i \in 1 .. Len(events) : from[i] = x

Typed(events, keys, k) ==
  \E from \in [1 .. Len(events) -> Wanted(keys, k)] : AreOf(events, keys, k, from)

EventNames ==
  {"escape", "up", "pageUp", "home", "press", "release", "accent", "interrupt", "q", "[", "O"}

LEMMA EventTypes == \A key \in Keys : EventOf(key) \in EventNames \cup {"ignored"}
  BY KeyBytes, Spelling DEF EventOf, EventNames, ByteOf

LEMMA TypedNext ==
  ASSUME NEW keys \in Seq(Keys), NEW k \in 0 .. Len(keys), k < Len(keys),
         NEW events \in Seq(EventNames), Typed(events, keys, k)
  PROVE  IF EventOf(keys[k + 1]) = "ignored" THEN Typed(events, keys, k + 1)
         ELSE Typed(Append(events, EventOf(keys[k + 1])), keys, k + 1)
  <1>1. PICK from \in [1 .. Len(events) -> Wanted(keys, k)] : AreOf(events, keys, k, from)
    BY DEF Typed
  <1>2. Len(keys) \in Nat /\ Len(events) \in Nat /\ k \in Nat /\ k + 1 \in 1 .. Len(keys)
    OBVIOUS
  <1>3. CASE EventOf(keys[k + 1]) = "ignored"
    <2>1. Wanted(keys, k + 1) = Wanted(keys, k)
      <3>1. \A i \in 1 .. k + 1 : i \in 1 .. k \/ i = k + 1
        BY <1>2
      <3>2. \A i \in 1 .. k : i \in 1 .. k + 1
        BY <1>2
      <3>. QED
        BY <1>3, <3>1, <3>2 DEF Wanted
    <2>. QED
      BY <1>1, <1>3, <2>1, ZenonT(60) DEF Typed, AreOf
  <1>4. CASE EventOf(keys[k + 1]) # "ignored"
    <2>. DEFINE e == EventOf(keys[k + 1])
                n == Len(events)
                more == Append(events, e)
                all == Wanted(keys, k + 1)
                to == [i \in 1 .. n + 1 |-> IF i = n + 1 THEN k + 1 ELSE from[i]]
    <2>1. all = Wanted(keys, k) \cup {k + 1} /\ \A x \in Wanted(keys, k) : x \in 1 .. k
      <3>1. \A i \in 1 .. k + 1 : i \in 1 .. k \/ i = k + 1
        BY <1>2
      <3>2. \A i \in 1 .. k : i \in 1 .. k + 1
        BY <1>2
      <3>3. k + 1 \in 1 .. k + 1
        BY <1>2
      <3>. QED
        BY <1>4, <3>1, <3>2, <3>3 DEF Wanted
    <2>2. e \in EventNames
      <3>1. keys[k + 1] \in Keys
        BY <1>2
      <3>. QED
        BY <3>1, <1>4, EventTypes
    <2>. HIDE DEF e
    <2>3. /\ more \in Seq(EventNames) /\ Len(more) = n + 1 /\ more[n + 1] = e
          /\ \A i \in 1 .. n : more[i] = events[i]
      BY <2>2
    <2>. HIDE DEF more, all
    <2>4. /\ \A i, j \in 1 .. n : i < j => from[i] < from[j]
          /\ \A i \in 1 .. n : events[i] = EventOf(keys[from[i]])
          /\ \A x \in Wanted(keys, k) : \E i \in 1 .. n : from[i] = x
          /\ \A i \in 1 .. n : from[i] \in Wanted(keys, k) /\ from[i] \in 1 .. k
      BY <1>1, <2>1 DEF AreOf
    <2>5. n \in Nat
      BY <1>2
    <2>. HIDE DEF n
    <2>6. /\ \A i \in 1 .. n + 1 : i = n + 1 \/ i \in 1 .. n
          /\ \A i \in 1 .. n : i \in 1 .. n + 1 /\ i # n + 1
          /\ n + 1 \in 1 .. n + 1
      BY <2>5
    <2>7. to \in [1 .. n + 1 -> all]
      BY <2>1, <2>4, <2>6
    <2>8. \A i \in 1 .. n : to[i] = from[i]
      BY <2>6
    <2>9. to[n + 1] = k + 1
      BY <2>6
    <2>. HIDE DEF to
    <2>10. ASSUME NEW i \in 1 .. n + 1, NEW j \in 1 .. n + 1, i < j PROVE to[i] < to[j]
      <3>1. i \in 1 .. n
        BY <2>5, <2>10
      <3>2. CASE j \in 1 .. n
        BY <3>1, <3>2, <2>4, <2>8, <2>10
      <3>3. CASE j = n + 1
        <4>1. to[i] \in 1 .. k /\ to[j] = k + 1
          BY <3>1, <3>3, <2>4, <2>8, <2>9
        <4>. QED
          BY <4>1, <1>2
      <3>. QED
        BY <3>2, <3>3, <2>6
    <2>11. \A i \in 1 .. n + 1 : more[i] = EventOf(keys[to[i]])
      BY <2>3, <2>4, <2>6, <2>8, <2>9 DEF e
    <2>12. \A x \in all : \E i \in 1 .. n + 1 : to[i] = x
      BY <2>1, <2>4, <2>6, <2>8, <2>9
    <2>13. Typed(more, keys, k + 1)
      <3>1. AreOf(more, keys, k + 1, to)
        BY <2>3, <2>10, <2>11, <2>12 DEF AreOf, all
      <3>2. to \in [1 .. Len(more) -> Wanted(keys, k + 1)]
        BY <2>3, <2>7 DEF all
      <3>. QED
        BY <3>1, <3>2 DEF Typed
    <2>. QED
      BY <2>13, <1>4 DEF more, e
  <1>. QED
    BY <1>3, <1>4

LEMMA TypedPress ==
  ASSUME NEW keys \in Seq(Keys), NEW k \in 0 .. Len(keys), NEW key \in Keys, NEW events,
         Typed(events, keys, k)
  PROVE  Typed(events, Append(keys, key), k)
  <1>. DEFINE more == Append(keys, key)
  <1>1. \A i \in 1 .. k : more[i] = keys[i]
    OBVIOUS
  <1>. HIDE DEF more
  <1>2. Wanted(more, k) = Wanted(keys, k)
    BY <1>1 DEF Wanted
  <1>3. PICK from \in [1 .. Len(events) -> Wanted(keys, k)] : AreOf(events, keys, k, from)
    BY DEF Typed
  <1>4. \A i \in 1 .. Len(events) : from[i] \in 1 .. k
    BY DEF Wanted
  <1>5. AreOf(events, more, k, from)
    BY <1>1, <1>2, <1>3, <1>4 DEF AreOf
  <1>. QED
    BY <1>2, <1>5 DEF Typed, more

\* Such events are the sorted list of what was wanted, as far as they go.
LEMMA TypedInOrder ==
  ASSUME NEW keys \in Seq(Keys), NEW k \in 0 .. Len(keys), NEW events \in Seq(EventNames),
         Typed(events, keys, k)
  PROVE  LET wanted == Sorted({i \in DOMAIN keys : EventOf(keys[i]) # "ignored"})
         IN  /\ Len(events) <= Len(wanted)
             /\ \A i \in DOMAIN events : events[i] = EventOf(keys[wanted[i]])
             /\ k = Len(keys) => Len(events) = Len(wanted)
  <1>. DEFINE S == {i \in DOMAIN keys : EventOf(keys[i]) # "ignored"}
              n == Len(events)
  <1>1. PICK from \in [1 .. n -> Wanted(keys, k)] : AreOf(events, keys, k, from)
    BY DEF Typed
  <1>2. Len(keys) \in Nat /\ n \in Nat /\ DOMAIN keys = 1 .. Len(keys) /\ DOMAIN events = 1 .. n
    OBVIOUS
  <1>3. S \in SUBSET Nat /\ IsFiniteSet(S)
    <2>1. IsFiniteSet(1 .. Len(keys)) /\ S \subseteq 1 .. Len(keys)
      BY <1>2, FS_Interval
    <2>. QED
      BY <2>1, FS_Subset
  <1>4. /\ \A x \in Wanted(keys, k) : x \in S
        /\ \A x \in S : x <= k => x \in Wanted(keys, k)
        /\ k = Len(keys) => \A x \in S : x \in Wanted(keys, k)
    <2>1. \A x \in 1 .. k : x \in 1 .. Len(keys)
      BY <1>2
    <2>2. \A x \in 1 .. Len(keys) : x <= k => x \in 1 .. k
      BY <1>2
    <2>. QED
      BY <2>1, <2>2, <1>2 DEF Wanted
  <1>. HIDE DEF S
  <1>5. from \in [1 .. n -> S]
    BY <1>4
  <1>6. /\ \A i, j \in 1 .. n : i < j => from[i] < from[j]
        /\ \A i \in 1 .. n : events[i] = EventOf(keys[from[i]])
        /\ \A x \in Wanted(keys, k) : \E i \in 1 .. n : from[i] = x
    BY <1>1 DEF AreOf
  <1>7. \A i \in 1 .. n : \A x \in S : x < from[i] => \E j \in 1 .. n : from[j] = x
    <2>. SUFFICES ASSUME NEW i \in 1 .. n, NEW x \in S, x < from[i] PROVE x \in Wanted(keys, k)
      BY <1>6
    <2>1. from[i] \in 1 .. k /\ x \in Nat
      BY <1>3 DEF Wanted
    <2>. QED
      BY <2>1, <1>4
  <1>. HIDE DEF n
  <1>8. /\ n <= Len(Sorted(S)) /\ \A i \in 1 .. n : from[i] = Sorted(S)[i]
        /\ (\A x \in S : \E j \in 1 .. n : from[j] = x) => n = Len(Sorted(S))
    BY <1>2, <1>3, <1>5, <1>6, <1>7, SortedBegins
  <1>9. k = Len(keys) => n = Len(Sorted(S))
    BY <1>4, <1>6, <1>8
  <1>. QED
    BY <1>2, <1>6, <1>8, <1>9 DEF S, n

-----------------------------------------------------------------------------
InputTypeOK ==
  /\ pressed \in Seq(Keys) /\ wire \in Seq(Bytes) /\ pendingIn \in Seq(Bytes)
  /\ handled \in Seq(EventNames) /\ keyQueue \in Seq(EventNames)
  /\ reading \in {"poll", "drain"}

\* The keys are in two parts: the events of some, and the bytes of the rest.
KeysAccounted(k) ==
  /\ Spelled(pendingIn \o wire, pressed, k)
  /\ Separate(pressed, k)
  /\ Typed(handled \o keyQueue, pressed, k)

\* As long as the loop of the dashboard runs and nothing joined an escape; the goroutine
\* goes back to the terminal when what it has is less than a key.
InputInv ==
  ~detached /\ ~joined => /\ InputTypeOK
                          /\ \E k \in 0 .. Len(pressed) : KeysAccounted(k)
                          /\ reading = "poll" => Parse(pendingIn).event = "more"

LEMMA InputInvInit == InputInit => InputInv
  <1>. SUFFICES ASSUME InputInit PROVE InputInv
    OBVIOUS
  <1>1. InputTypeOK
    BY DEF InputInit, InputTypeOK
  <1>2. Parse(pendingIn).event = "more"
    BY DEF InputInit, Parse, More
  <1>3. pressed = <<>> /\ pendingIn \o wire = <<>> /\ handled \o keyQueue = <<>>
    BY DEF InputInit
  <1>4. Spelled(<<>>, <<>>, 0)
    <2>. DEFINE at == [i \in 1 .. 1 |-> 0]
    <2>1. at \in [0 + 1 .. Len(<<>>) + 1 -> 0 .. Len(<<>>)] /\ Begins(<<>>, <<>>, 0, at)
      BY DEF Begins
    <2>. QED
      BY <2>1 DEF Spelled
  <1>5. Typed(<<>>, <<>>, 0)
    <2>. DEFINE from == [i \in 1 .. 0 |-> 0]
    <2>1. Wanted(<<>>, 0) = {}
      BY DEF Wanted
    <2>2. from \in [1 .. Len(<<>>) -> Wanted(<<>>, 0)] /\ AreOf(<<>>, <<>>, 0, from)
      BY <2>1 DEF AreOf
    <2>. QED
      BY <2>2 DEF Typed
  <1>6. 0 \in 0 .. Len(pressed) /\ KeysAccounted(0)
    <2>1. Separate(<<>>, 0)
      BY DEF Separate
    <2>. QED
      BY <1>3, <1>4, <1>5, <2>1 DEF KeysAccounted
  <1>. QED
    BY <1>1, <1>2, <1>6 DEF InputInv

\* An event that is emitted takes the bytes of its key with it.
LEMMA EmitKeeps ==
  ASSUME InputTypeOK, ~detached, ~joined, NEW k \in 0 .. Len(pressed), k < Len(pressed),
         KeysAccounted(k), Size(pressed[k + 1]) <= Len(pendingIn),
         EmitKey(EventOf(pressed[k + 1]),
                 SubSeq(pendingIn, Size(pressed[k + 1]) + 1, Len(pendingIn))),
         UNCHANGED <<pressed, wire, handled, detached, joined>>
  PROVE  InputInv'
  <1>. DEFINE key == pressed[k + 1]
              n == Size(key)
              rest == SubSeq(pendingIn, n + 1, Len(pendingIn))
  <1>1. /\ keyQueue' = IF EventOf(key) = "ignored" THEN keyQueue ELSE Append(keyQueue, EventOf(key))
        /\ pendingIn' = rest /\ reading' = "drain"
    BY DEF EmitKey
  <1>2. key \in Keys /\ n \in 0 .. Len(pendingIn) /\ k + 1 \in 0 .. Len(pressed)
    <2>1. key \in Keys /\ k + 1 \in 0 .. Len(pressed) /\ Len(pendingIn) \in Nat
      BY DEF InputTypeOK
    <2>2. n \in 1 .. 5
      <3>. HIDE DEF key
      <3>. QED
        BY <2>1, KeyBytes
    <2>. QED
      BY <2>1, <2>2
  <1>. HIDE DEF n
  <1>3. /\ rest \in Seq(Bytes)
        /\ rest \o wire = SubSeq(pendingIn \o wire, n + 1, Len(pendingIn \o wire))
    BY <1>2, RestOf, ZenonT(60) DEF InputTypeOK
  <1>4. pendingIn \o wire \in Seq(Bytes) /\ handled \o keyQueue \in Seq(EventNames)
    BY DEF InputTypeOK
  <1>5. Spelled(rest \o wire, pressed, k + 1) /\ Separate(pressed, k + 1)
    <2>1. /\ Spelled(SubSeq(pendingIn \o wire, Size(pressed[k + 1]) + 1, Len(pendingIn \o wire)),
                     pressed, k + 1)
          /\ Separate(pressed, k + 1)
      <3>. DEFINE bytes == pendingIn \o wire
      <3>1. /\ pressed \in Seq(Keys) /\ k \in 0 .. Len(pressed) /\ k < Len(pressed)
            /\ bytes \in Seq(Bytes) /\ Spelled(bytes, pressed, k) /\ Separate(pressed, k)
        BY <1>4 DEF InputTypeOK, KeysAccounted
      <3>. HIDE DEF bytes
      <3>2. /\ Spelled(SubSeq(bytes, Size(pressed[k + 1]) + 1, Len(bytes)), pressed, k + 1)
            /\ Separate(pressed, k + 1)
        BY <3>1, SpelledFirst, Zenon
      <3>. QED
        BY <3>2 DEF bytes
    <2>. QED
      BY <2>1, <1>3 DEF n
  <1>6. /\ keyQueue' \in Seq(EventNames)
        /\ handled \o keyQueue' = IF EventOf(key) = "ignored" THEN handled \o keyQueue
                                  ELSE Append(handled \o keyQueue, EventOf(key))
    <2>. DEFINE e == EventOf(key)
    <2>1. e \in EventNames \cup {"ignored"}
      BY <1>2, EventTypes
    <2>. HIDE DEF e
    <2>2. CASE e = "ignored"
      BY <2>2, <1>1 DEF InputTypeOK, e
    <2>3. CASE e # "ignored"
      <3>1. keyQueue' = Append(keyQueue, e) /\ e \in EventNames
        BY <2>1, <2>3, <1>1 DEF e
      <3>2. <<e>> \in Seq(EventNames) /\ Append(keyQueue, e) \in Seq(EventNames)
        BY <3>1 DEF InputTypeOK
      <3>3. /\ Append(keyQueue, e) = keyQueue \o <<e>>
            /\ Append(handled \o keyQueue, e) = (handled \o keyQueue) \o <<e>>
        BY <3>1, <1>4, AppendIsConcat DEF InputTypeOK
      <3>4. (handled \o keyQueue) \o <<e>> = handled \o (keyQueue \o <<e>>)
        BY <3>2, ConcatAssociative, SMTT(60) DEF InputTypeOK
      <3>5. handled \o keyQueue' = Append(handled \o keyQueue, e)
        BY <3>1, <3>3, <3>4, Zenon
      <3>. QED
        BY <3>1, <3>2, <3>5, <2>3 DEF e
    <2>. QED
      BY <2>2, <2>3
  <1>7. Typed(handled \o keyQueue', pressed, k + 1)
    <2>1. IF EventOf(key) = "ignored" THEN Typed(handled \o keyQueue, pressed, k + 1)
          ELSE Typed(Append(handled \o keyQueue, EventOf(key)), pressed, k + 1)
      BY <1>4, TypedNext DEF InputTypeOK, KeysAccounted
    <2>. QED
      BY <2>1, <1>6
  <1>8. InputTypeOK'
    BY <1>1, <1>3, <1>6 DEF InputTypeOK
  <1>9. KeysAccounted(k + 1)'
    BY <1>1, <1>5, <1>7 DEF KeysAccounted
  <1>10. k + 1 \in 0 .. Len(pressed')
    BY <1>2
  <1>. QED
    BY <1>1, <1>8, <1>9, <1>10 DEF InputInv

\* What the goroutine makes of the bytes it has: less than a key, or the key they begin
\* with.
LEMMA ParseIsKey ==
  ASSUME InputTypeOK, NEW k \in 0 .. Len(pressed), KeysAccounted(k),
         Parse(pendingIn).event # "more"
  PROVE  /\ k < Len(pressed) /\ Size(pressed[k + 1]) <= Len(pendingIn)
         /\ Parse(pendingIn) = Decoded(EventOf(pressed[k + 1]), Size(pressed[k + 1]))
  <1>. DEFINE key == pressed[k + 1]
              b == pendingIn \o wire
  <1>1. /\ b \in Seq(Bytes) /\ Len(b) = Len(pendingIn) + Len(wire)
        /\ \A i \in 1 .. Len(pendingIn) : b[i] = pendingIn[i]
    BY DEF InputTypeOK
  <1>2. Parse(pendingIn) # More
    BY DEF More
  <1>3. pendingIn # <<>>
    BY <1>2 DEF Parse
  <1>0. Len(pendingIn) \in Nat /\ Len(wire) \in Nat /\ Len(pendingIn) > 0 /\ Len(pressed) \in Nat
    BY <1>3 DEF InputTypeOK
  <1>. HIDE DEF b
  <1>4. k < Len(pressed)
    <2>1. b # <<>>
      BY <1>0, <1>1
    <2>2. k # Len(pressed)
      BY <1>1, <2>1, SpelledAll DEF InputTypeOK, KeysAccounted, b
    <2>. QED
      BY <2>2, <1>0
  <1>5. /\ Starts(b, key) /\ (key = "escape" /\ Len(b) >= 2 => b[2] \in FirstBytes)
    BY <1>1, <1>4, SpelledFirst DEF InputTypeOK, KeysAccounted, b
  <1>6. key \in Keys
    BY <1>4 DEF InputTypeOK
  <1>. HIDE DEF key
  <1>7. /\ Size(key) \in 1 .. 5 /\ Size(key) <= Len(b)
        /\ \A j \in 1 .. Size(key) : b[j] = ByteOf(key, j)
    BY <1>5, <1>6, KeyBytes DEF Starts
  <1>8. Size(key) <= Len(pendingIn) /\ ~(key = "escape" /\ Len(pendingIn) = 1)
    <2>. SUFFICES ASSUME Len(pendingIn) < Size(key) \/ (key = "escape" /\ Len(pendingIn) = 1)
                  PROVE  FALSE
      BY <1>0, <1>7
    <2>1. \A j \in 1 .. Len(pendingIn) : j \in 1 .. Size(key)
      <3>1. CASE Len(pendingIn) < Size(key)
        BY <3>1, <1>0, <1>7
      <3>2. CASE Len(pendingIn) = 1
        BY <3>2, <1>7
      <3>. QED
        BY <3>1, <3>2
    <2>2. \A j \in 1 .. Len(pendingIn) : pendingIn[j] = ByteOf(key, j)
      BY <2>1, <1>1, <1>7
    <2>. QED
      BY <1>2, <1>6, <2>2, PartOfKey DEF InputTypeOK
  <1>9. \A j \in 1 .. Size(key) : pendingIn[j] = ByteOf(key, j)
    <2>1. \A j \in 1 .. Size(key) : j \in 1 .. Len(pendingIn)
      BY <1>0, <1>7, <1>8
    <2>. QED
      BY <2>1, <1>1, <1>7
  <1>10. Parse(pendingIn) = Decoded(EventOf(key), Size(key))
    <2>1. CASE key # "escape"
      <3>1. Starts(pendingIn, key)
        BY <1>8, <1>9 DEF Starts
      <3>. QED
        BY <2>1, <3>1, <1>6, WholeKey DEF InputTypeOK
    <2>2. CASE key = "escape"
      <3>1. Size(key) = 1 /\ ByteOf(key, 1) = "esc" /\ EventOf(key) = "escape"
        BY <2>2, Spelling DEF EventOf
      <3>2. Len(pendingIn) # 1
        BY <2>2, <1>8
      <3>3. Len(pendingIn) >= 2 /\ Len(b) >= 2 /\ 2 \in 1 .. Len(pendingIn)
        <4>1. ASSUME NEW n \in Nat, NEW m \in Nat, n > 0, n # 1
              PROVE  n >= 2 /\ n + m >= 2 /\ 2 \in 1 .. n
          BY <4>1
        <4>. QED
          BY <4>1, <3>2, <1>0, <1>1
      <3>4. pendingIn[1] = "esc"
        BY <3>1, <1>9
      <3>5. pendingIn[2] \in FirstBytes
        BY <2>2, <3>3, <1>1, <1>5
      <3>. QED
        BY <3>1, <3>3, <3>4, <3>5, EscapeAndMore DEF InputTypeOK
    <2>. QED
      BY <2>1, <2>2
  <1>. QED
    BY <1>4, <1>8, <1>10 DEF key

LEMMA InputInvStep ==
  ASSUME InputInv, [InputNext]_inputVars
  PROVE  InputInv'
  <1>1. SUFFICES ASSUME ~detached', ~joined' PROVE InputInv'
    BY DEF InputInv
  <1>2. ~detached /\ ~joined
    <2>1. CASE \E key \in Keys : Press(key)
      <3>1. detached' = detached /\ \E key \in Keys : joined' = (joined \/ JoinsEscape(key))
        BY <2>1 DEF Press
      <3>. QED
        BY <1>1, <3>1, Zenon
    <2>2. CASE HandleKey
      BY <1>1, <2>2 DEF HandleKey
    <2>3. CASE UNCHANGED <<detached, joined>>
      BY <1>1, <2>3
    <2>. QED
      BY <2>1, <2>2, <2>3 DEF InputNext, inputVars, ReadInput, Drain, Quiet, Cancelled
  <1>3. /\ InputTypeOK
        /\ reading = "poll" => Parse(pendingIn).event = "more"
    BY <1>2 DEF InputInv
  <1>4. PICK k \in 0 .. Len(pressed) : KeysAccounted(k)
    BY <1>2 DEF InputInv
  <1>5. ASSUME NEW key \in Keys, Press(key) PROVE InputInv'
    <2>1. /\ pressed' = Append(pressed, key) /\ wire' = wire \o BytesOf[key]
          /\ UNCHANGED <<pendingIn, reading, keyQueue, handled, detached>> /\ ~JoinsEscape(key)
      BY <1>1, <1>5 DEF Press
    <2>2. BytesOf[key] \in Seq(Bytes)
      BY KeyBytes
    <2>3. wire \o BytesOf[key] \in Seq(Bytes)
      <3>. DEFINE c == BytesOf[key]
      <3>1. c \in Seq(Bytes)
        BY <2>2
      <3>. HIDE DEF c
      <3>2. wire \o c \in Seq(Bytes)
        BY <1>3, <3>1 DEF InputTypeOK
      <3>. QED
        BY <3>2 DEF c
    <2>4. InputTypeOK'
      <3>1. Append(pressed, key) \in Seq(Keys)
        BY <1>3 DEF InputTypeOK
      <3>. QED
        BY <1>3, <2>1, <2>3, <3>1 DEF InputTypeOK
    <2>5. pendingIn \o (wire \o BytesOf[key]) = (pendingIn \o wire) \o BytesOf[key]
      <3>. DEFINE c == BytesOf[key]
      <3>1. c \in Seq(Bytes) /\ wire \in Seq(Bytes) /\ pendingIn \in Seq(Bytes)
        BY <1>3, <2>2 DEF InputTypeOK
      <3>. HIDE DEF c
      <3>2. ASSUME NEW p \in Seq(Bytes), NEW q \in Seq(Bytes), NEW r \in Seq(Bytes)
            PROVE  p \o (q \o r) = (p \o q) \o r
        BY ConcatAssociative, SMTT(60)
      <3>3. pendingIn \o (wire \o c) = (pendingIn \o wire) \o c
        BY <3>1, <3>2
      <3>. QED
        BY <3>3 DEF c
    <2>6. pendingIn \o wire \in Seq(Bytes)
      BY <1>3 DEF InputTypeOK
    <2>7. Spelled((pendingIn \o wire) \o BytesOf[key], Append(pressed, key), k)
      BY <1>3, <1>4, <2>6, SpelledPress DEF InputTypeOK, KeysAccounted
    <2>8. Typed(handled \o keyQueue, Append(pressed, key), k)
      BY <1>3, <1>4, TypedPress DEF InputTypeOK, KeysAccounted
    <2>11. Separate(Append(pressed, key), k)
      <3>1. pressed \in Seq(Keys) /\ Separate(pressed, k) /\ Spelled(pendingIn \o wire, pressed, k)
        BY <1>3, <1>4 DEF InputTypeOK, KeysAccounted
      <3>2. ASSUME k < Len(pressed), pressed[Len(pressed)] = "escape"
            PROVE  ByteOf(key, 1) \in FirstBytes
        <4>. DEFINE bytes == pendingIn \o wire
        <4>1. bytes # <<>> /\ bytes[Len(bytes)] = "esc"
          BY <2>6, <3>1, <3>2, SpelledLast
        <4>2. ByteOf(key, 1) \notin {"[", "O"}
          BY <2>1, <4>1 DEF JoinsEscape, ByteOf
        <4>. QED
          BY <4>2, KeyBytes
      <3>. QED
        BY <3>1, <3>2, SeparatePress
    <2>9. KeysAccounted(k)'
      BY <2>1, <2>5, <2>7, <2>8, <2>11 DEF KeysAccounted
    <2>10. k \in 0 .. Len(pressed')
      BY <1>3, <2>1 DEF InputTypeOK
    <2>. QED
      BY <1>3, <2>1, <2>4, <2>9, <2>10 DEF InputInv
  <1>6. ASSUME NEW n \in 1 .. ReadSize, ReadInput(n) PROVE InputInv'
    <2>1. /\ n \in 0 .. Len(wire) /\ pendingIn' = pendingIn \o SubSeq(wire, 1, n)
          /\ wire' = SubSeq(wire, n + 1, Len(wire)) /\ reading' = "drain"
          /\ UNCHANGED <<pressed, keyQueue, handled, detached, joined>>
      BY <1>6 DEF ReadInput
    <2>2. /\ pendingIn' \in Seq(Bytes) /\ wire' \in Seq(Bytes)
          /\ pendingIn' \o wire' = pendingIn \o wire
      <3>1. pendingIn \in Seq(Bytes) /\ wire \in Seq(Bytes) /\ n \in 0 .. Len(wire)
        BY <1>3, <2>1 DEF InputTypeOK
      <3>. QED
        BY <2>1, <3>1, CutElsewhere, ZenonT(60)
    <2>3. InputTypeOK' /\ KeysAccounted(k)'
      BY <1>3, <1>4, <2>1, <2>2 DEF InputTypeOK, KeysAccounted
    <2>. QED
      BY <2>1, <2>3 DEF InputInv
  <1>7. CASE Drain
    <2>1. CASE Parse(pendingIn).event = "more"
      <3>1. /\ reading' = "poll" /\ UNCHANGED <<pressed, wire, pendingIn, keyQueue, handled, detached, joined>>
        BY <1>7, <2>1 DEF Drain
      <3>2. InputTypeOK' /\ KeysAccounted(k)'
        BY <1>3, <1>4, <3>1 DEF InputTypeOK, KeysAccounted
      <3>. QED
        BY <3>1, <3>2, <2>1 DEF InputInv
    <2>2. CASE Parse(pendingIn).event # "more"
      <3>1. /\ k < Len(pressed) /\ Size(pressed[k + 1]) <= Len(pendingIn)
            /\ Parse(pendingIn) = Decoded(EventOf(pressed[k + 1]), Size(pressed[k + 1]))
        BY <1>3, <1>4, <2>2, ParseIsKey
      <3>2. /\ Parse(pendingIn).event = EventOf(pressed[k + 1])
            /\ Parse(pendingIn).used = Size(pressed[k + 1])
        BY <3>1 DEF Decoded
      <3>3. /\ EmitKey(EventOf(pressed[k + 1]),
                       SubSeq(pendingIn, Size(pressed[k + 1]) + 1, Len(pendingIn)))
            /\ UNCHANGED <<pressed, wire, handled, detached, joined>>
        BY <1>7, <2>2, <3>2 DEF Drain
      <3>. QED
        BY <1>2, <1>3, <1>4, <3>1, <3>3, EmitKeeps
    <2>. QED
      BY <2>1, <2>2
  <1>8. CASE Quiet
    <2>1. /\ wire = <<>> /\ pendingIn # <<>> /\ pendingIn[1] = "esc"
          /\ Parse(pendingIn).event = "more"
          /\ EmitKey("escape", SubSeq(pendingIn, 2, Len(pendingIn)))
          /\ UNCHANGED <<pressed, wire, handled, detached, joined>>
      BY <1>3, <1>8 DEF Quiet
    <2>2. pendingIn \o wire = pendingIn
      BY <1>3, <2>1 DEF InputTypeOK
    <2>3. k < Len(pressed)
      BY <1>3, <1>4, <2>1, <2>2, SpelledAll DEF InputTypeOK, KeysAccounted
    <2>4. pressed[k + 1] \in Keys
      BY <1>3, <2>3 DEF InputTypeOK
    <2>5. Starts(pendingIn, pressed[k + 1])
      BY <1>3, <1>4, <2>2, <2>3, SpelledFirst DEF InputTypeOK, KeysAccounted
    <2>6. pressed[k + 1] = "escape"
      <3>. SUFFICES ASSUME pressed[k + 1] # "escape" PROVE FALSE
        OBVIOUS
      <3>. DEFINE key == pressed[k + 1]
      <3>1. key \in Keys \ {"escape"} /\ Starts(pendingIn, key)
        BY <2>4, <2>5
      <3>. HIDE DEF key
      <3>2. Parse(pendingIn).event = EventOf(key)
        BY <1>3, <3>1, WholeKey DEF InputTypeOK, Decoded
      <3>3. EventOf(key) # "more"
        BY <3>1, EventTypes DEF EventNames
      <3>. QED
        BY <2>1, <3>2, <3>3
    <2>7. /\ EventOf(pressed[k + 1]) = "escape" /\ Size(pressed[k + 1]) + 1 = 2
          /\ Size(pressed[k + 1]) <= Len(pendingIn)
      <3>1. EventOf("escape") = "escape" /\ Size("escape") + 1 = 2
        BY Spelling DEF EventOf
      <3>2. Size(pressed[k + 1]) <= Len(pendingIn)
        BY <2>5 DEF Starts
      <3>. QED
        BY <2>6, <3>1, <3>2
    <2>8. EmitKey(EventOf(pressed[k + 1]),
                  SubSeq(pendingIn, Size(pressed[k + 1]) + 1, Len(pendingIn)))
      BY <2>1, <2>7
    <2>. QED
      BY <1>2, <1>3, <1>4, <2>1, <2>3, <2>7, <2>8, EmitKeeps
  <1>9. CASE Cancelled
    BY <1>2, <1>9 DEF Cancelled
  <1>10. CASE HandleKey
    <2>1. /\ keyQueue # <<>> /\ handled' = Append(handled, Head(keyQueue))
          /\ keyQueue' = Tail(keyQueue) /\ UNCHANGED <<pressed, wire, pendingIn, reading>>
      BY <1>10 DEF HandleKey
    <2>2. /\ handled' \in Seq(EventNames) /\ keyQueue' \in Seq(EventNames)
          /\ handled' \o keyQueue' = handled \o keyQueue
      <3>1. handled \in Seq(EventNames) /\ keyQueue \in Seq(EventNames) /\ keyQueue # <<>>
        BY <1>3, <2>1 DEF InputTypeOK
      <3>. QED
        BY <2>1, <3>1, OneOver
    <2>3. InputTypeOK' /\ KeysAccounted(k)'
      BY <1>3, <1>4, <2>1, <2>2 DEF InputTypeOK, KeysAccounted
    <2>. QED
      BY <1>3, <2>1, <2>3 DEF InputInv
  <1>11. CASE UNCHANGED inputVars
    BY <1>2, <1>3, <1>4, <1>11 DEF inputVars, InputInv, InputTypeOK, KeysAccounted
  <1>. QED
    BY <1>5, <1>6, <1>7, <1>8, <1>9, <1>10, <1>11 DEF InputNext

\* Bytes that are read, decoded or waiting are, in order, the rest of the keys: the
\* invariant of readDashboardInput and its caller, until the caller ends or a [ or an O
\* is typed after an escape that is not decoded yet.
THEOREM InputInvariance == InputSpec => []InputInv
  <1>. QED
    BY InputInvInit, InputInvStep, PTL DEF InputSpec

\* The dashboard gets the keys that were pressed, in order, none twice, none made of the
\* pieces of others, and all of them once all is read (parseDashboardInputEvent), until a
\* [ or an O is typed after an escape that is not decoded yet.
THEOREM KeysTyped == InputSpec => []KeysAreTyped
  <1>1. InputInv => KeysAreTyped
    <2>. SUFFICES ASSUME InputInv, ~detached, ~joined PROVE KeysAreTyped
      BY DEF KeysAreTyped
    <2>1. InputTypeOK /\ (reading = "poll" => Parse(pendingIn).event = "more")
      BY DEF InputInv
    <2>2. PICK k \in 0 .. Len(pressed) : KeysAccounted(k)
      BY DEF InputInv
    <2>3. handled \o keyQueue \in Seq(EventNames) /\ pendingIn \o wire \in Seq(Bytes)
      BY <2>1 DEF InputTypeOK
    <2>4. LET wanted == Sorted({i \in DOMAIN pressed : EventOf(pressed[i]) # "ignored"})
              got == handled \o keyQueue
          IN  /\ Len(got) <= Len(wanted)
              /\ \A i \in DOMAIN got : got[i] = EventOf(pressed[wanted[i]])
              /\ k = Len(pressed) => Len(got) = Len(wanted)
      BY <2>1, <2>2, <2>3, TypedInOrder DEF InputTypeOK, KeysAccounted
    <2>5. wire = <<>> /\ pendingIn = <<>> => k = Len(pressed)
      <3>. SUFFICES ASSUME wire = <<>>, pendingIn = <<>> PROVE k = Len(pressed)
        OBVIOUS
      <3>1. pendingIn \o wire = <<>>
        OBVIOUS
      <3>. QED
        BY <2>1, <2>2, <2>3, <3>1, SpelledAll DEF InputTypeOK, KeysAccounted
    <2>. QED
      BY <2>4, <2>5 DEF KeysAreTyped
  <1>. QED
    BY <1>1, InputInvariance, PTL

-----------------------------------------------------------------------------
(* LogDashboard                                                              *)

\* What holds at 0 and goes on to the next number holds up to N.
LEMMA Upward ==
  ASSUME NEW N \in Nat, NEW Q, 0 \in Q, \A n \in 1 .. N : n - 1 \in Q => n \in Q
  PROVE  \A n \in 0 .. N : n \in Q
  <1>. DEFINE Bad == {n \in Nat : n <= N /\ n \notin Q}
  <1>. SUFFICES ASSUME Bad # {} PROVE FALSE
    OBVIOUS
  <1>1. PICK n \in Bad : \A k \in Bad : n <= k
    <2>1. Bad \in SUBSET Nat
      OBVIOUS
    <2>. HIDE DEF Bad
    <2>. QED
      BY <2>1, SmallestOf
  <1>2. n \in 1 .. N /\ n - 1 \in Nat /\ n - 1 <= N
    BY <1>1
  <1>3. n - 1 \notin Bad
    BY <1>1, <1>2
  <1>. QED
    BY <1>1, <1>2, <1>3

\* A function is defined by its value at 0 and by what the next one is.
Folded(f, N, S, a, step) ==
  f \in [0 .. N -> S] /\ f[0] = a /\ \A n \in 1 .. N : f[n] = step[n][f[n - 1]]

LEMMA FoldExists ==
  ASSUME NEW N \in Nat, NEW S, NEW a \in S, NEW step \in [1 .. N -> [S -> S]]
  PROVE  \E f : Folded(f, N, S, a, step)
  <1>. DEFINE Good(m, f) == f[0] = a /\ \A n \in 1 .. m : f[n] = step[n][f[n - 1]]
              Q == {m \in 0 .. N : \E f \in [0 .. N -> S] : Good(m, f)}
  <1>1. 0 \in Q
    <2>1. [n \in 0 .. N |-> a] \in [0 .. N -> S] /\ Good(0, [n \in 0 .. N |-> a])
      OBVIOUS
    <2>. HIDE DEF Good
    <2>. QED
      BY <2>1
  <1>2. ASSUME NEW m \in 1 .. N, m - 1 \in Q PROVE m \in Q
    <2>1. PICK f \in [0 .. N -> S] : Good(m - 1, f)
      <3>. HIDE DEF Good
      <3>. QED
        BY <1>2
    <2>. DEFINE g == [f EXCEPT ![m] = step[m][f[m - 1]]]
    <2>2. f[m - 1] \in S /\ step[m][f[m - 1]] \in S
      OBVIOUS
    <2>3. g \in [0 .. N -> S]
      BY <2>2
    <2>4. Good(m, g)
      <3>1. g[0] = a
        BY <2>1
      <3>2. ASSUME NEW n \in 1 .. m PROVE g[n] = step[n][g[n - 1]]
        <4>1. CASE n = m
          <5>1. m \in 0 .. N /\ m - 1 \in 0 .. N /\ m - 1 # m
            OBVIOUS
          <5>2. g[m] = step[m][f[m - 1]] /\ g[m - 1] = f[m - 1]
            BY <5>1
          <5>. QED
            BY <4>1, <5>2, Zenon
        <4>2. CASE n # m
          <5>1. n \in 1 .. m - 1 /\ n \in 0 .. N /\ n - 1 \in 0 .. N /\ n - 1 # m
            BY <4>2
          <5>2. g[n] = f[n] /\ g[n - 1] = f[n - 1]
            BY <4>2, <5>1
          <5>. HIDE DEF g
          <5>. QED
            BY <2>1, <5>1, <5>2
        <4>. QED
          BY <4>1, <4>2
      <3>. QED
        BY <3>1, <3>2
    <2>. HIDE DEF Good, g
    <2>. QED
      BY <2>3, <2>4
  <1>3. N \in Q
    <2>. HIDE DEF Q
    <2>1. \A n \in 0 .. N : n \in Q
      BY <1>1, <1>2, Upward
    <2>. QED
      BY <2>1
  <1>. QED
    BY <1>3 DEF Folded

\* The smallest of some numbers, and the greatest of them
Smallest(S, m) == m \in S /\ \A x \in S : m <= x
Greatest(S, m) == m \in S /\ \A x \in S : x <= m

LEMMA MinIs ==
  ASSUME NEW S \in SUBSET Int, NEW b \in Int, \A x \in S : b <= x, S # {}
  PROVE  Smallest(S, Min(S))
  <1>. DEFINE T == {n \in Nat : b + n \in S}
  <1>1. T \in SUBSET Nat /\ T # {}
    <2>1. PICK x \in S : x \in Int /\ b <= x
      OBVIOUS
    <2>2. x - b \in T
      BY <2>1
    <2>. QED
      BY <2>2
  <1>. HIDE DEF T
  <1>2. PICK n \in T : \A k \in T : n <= k
    BY <1>1, SmallestOf
  <1>3. b + n \in S /\ n \in Nat
    BY <1>2 DEF T
  <1>4. ASSUME NEW x \in S PROVE b + n <= x
    <2>1. x \in Int /\ b <= x /\ x - b \in Nat /\ b + (x - b) = x
      OBVIOUS
    <2>2. x - b \in T
      BY <2>1 DEF T
    <2>. QED
      BY <1>2, <1>3, <2>1, <2>2
  <1>5. \E x \in S : \A y \in S : x =< y
    BY <1>3, <1>4
  <1>. QED
    BY <1>5, Zenon DEF Min, Smallest

LEMMA MaxIs ==
  ASSUME NEW S \in SUBSET Int, NEW b \in Int, \A x \in S : x <= b, S # {}
  PROVE  Greatest(S, Max(S))
  <1>. DEFINE T == {n \in Nat : b - n \in S}
  <1>1. T \in SUBSET Nat /\ T # {}
    <2>1. PICK x \in S : x \in Int /\ x <= b
      OBVIOUS
    <2>2. b - x \in T
      BY <2>1
    <2>. QED
      BY <2>2
  <1>. HIDE DEF T
  <1>2. PICK n \in T : \A k \in T : n <= k
    BY <1>1, SmallestOf
  <1>3. b - n \in S /\ n \in Nat
    BY <1>2 DEF T
  <1>4. ASSUME NEW x \in S PROVE x <= b - n
    <2>1. x \in Int /\ x <= b /\ b - x \in Nat /\ b - (b - x) = x
      OBVIOUS
    <2>2. b - x \in T
      BY <2>1 DEF T
    <2>. QED
      BY <1>2, <1>3, <2>1, <2>2
  <1>5. \E x \in S : \A y \in S : x >= y
    BY <1>3, <1>4
  <1>6. Max(S) \in S /\ \A x \in S : Max(S) >= x
    BY <1>5, Zenon DEF Max
  <1>. QED
    BY <1>6 DEF Greatest

LEMMA MinOfTwo ==
  ASSUME NEW a \in Int, NEW b \in Int
  PROVE  Min({a, b}) = (IF a <= b THEN a ELSE b) /\ Max({a, b}) = (IF a <= b THEN b ELSE a)
  <1>. DEFINE S == {a, b}
              m == IF a <= b THEN a ELSE b
              n == IF a <= b THEN b ELSE a
  <1>1. S \in SUBSET Int /\ m \in Int /\ n \in Int /\ S # {}
    OBVIOUS
  <1>2. (\A x \in S : m <= x) /\ \A x \in S : x <= n
    OBVIOUS
  <1>. HIDE DEF S, m, n
  <1>3. Smallest(S, Min(S))
    BY <1>1, <1>2, MinIs, Zenon
  <1>4. Greatest(S, Max(S))
    BY <1>1, <1>2, MaxIs, Zenon
  <1>. QED
    BY <1>3, <1>4 DEF Smallest, Greatest, S

-----------------------------------------------------------------------------
\* The fragments f of a line of n characters: each begins where the last one ends.
Fragments(f, n) ==
  /\ f \in Seq([start : Nat, end : Nat]) /\ Len(f) >= 1
  /\ f[1].start = 0 /\ f[Len(f)].end = n
  /\ \A i \in 1 .. Len(f) : i < Len(f) => f[i].end = f[i + 1].start
  /\ \A i, j \in 1 .. Len(f) : i < j => f[i].start < f[j].start
  /\ \A i \in 1 .. Len(f) : f[i].start = 0 \/ f[i].start < n

\* Where the first o characters of a line are cut
CutsOf(c, o) ==
  /\ c \in Seq(Nat) /\ Len(c) >= 1 /\ c[1] = 0
  /\ \A i \in 1 .. Len(c) : c[i] = 0 \/ c[i] < o
  /\ \A i, j \in 1 .. Len(c) : i < j => c[i] < c[j]

LEMMA CutMore ==
  ASSUME NEW c, NEW o \in Nat, o >= 2, CutsOf(c, o - 1)
  PROVE  CutsOf(c, o) /\ CutsOf(Append(c, o - 1), o)
  <1>. DEFINE d == Append(c, o - 1)
              n == Len(c)
  <1>1. /\ n \in Nat /\ n >= 1 /\ d \in Seq(Nat) /\ Len(d) = n + 1 /\ d[n + 1] = o - 1
        /\ \A i \in 1 .. n : d[i] = c[i] /\ c[i] \in Nat
    BY DEF CutsOf
  <1>2. \A i \in 1 .. n : c[i] < o - 1
    BY <1>1 DEF CutsOf
  <1>3. CutsOf(c, o)
    BY <1>2 DEF CutsOf
  <1>. HIDE DEF d, n
  <1>4. \A i \in 1 .. n + 1 : i = n + 1 \/ i \in 1 .. n
    BY <1>1
  <1>5. d[1] = 0 /\ \A i \in 1 .. n + 1 : d[i] = 0 \/ d[i] < o
    BY <1>1, <1>2, <1>4 DEF CutsOf, n
  <1>6. \A i, j \in 1 .. n + 1 : i < j => d[i] < d[j]
    <2>. SUFFICES ASSUME NEW i \in 1 .. n + 1, NEW j \in 1 .. n + 1, i < j PROVE d[i] < d[j]
      OBVIOUS
    <2>1. i \in 1 .. n
      BY <1>1
    <2>2. CASE j = n + 1
      BY <1>1, <1>2, <2>1, <2>2
    <2>3. CASE j # n + 1
      BY <1>1, <1>4, <2>1, <2>3 DEF CutsOf, n
    <2>. QED
      BY <2>2, <2>3
  <1>7. CutsOf(d, o)
    BY <1>1, <1>5, <1>6 DEF CutsOf
  <1>. QED
    BY <1>3, <1>7 DEF d

\* How LogFragments cuts a line, one character after the other
CutNext(at, cells, width, o) ==
  IF at.used > 0 /\ at.used + cells[o] > width
    THEN [cuts |-> Append(at.cuts, o - 1), used |-> cells[o]]
    ELSE [at EXCEPT !.used = @ + cells[o]]

CutState == [cuts : Seq(Nat), used : Nat]

LEMMA CutNextTyped ==
  ASSUME NEW at \in CutState, NEW cells \in Seq(Nat), NEW width \in Nat, NEW o \in 1 .. Len(cells)
  PROVE  /\ CutNext(at, cells, width, o) \in CutState
         /\ \/ CutNext(at, cells, width, o).cuts = Append(at.cuts, o - 1) /\ at.used > 0
            \/ CutNext(at, cells, width, o).cuts = at.cuts
  <1>1. cells[o] \in Nat /\ o - 1 \in Nat
    OBVIOUS
  <1>2. Append(at.cuts, o - 1) \in Seq(Nat) /\ at.used + cells[o] \in Nat
    BY <1>1 DEF CutState
  <1>3. CASE at.used > 0 /\ at.used + cells[o] > width
    BY <1>1, <1>2, <1>3 DEF CutNext, CutState
  <1>4. CASE ~(at.used > 0 /\ at.used + cells[o] > width)
    <2>1. CutNext(at, cells, width, o) = [at EXCEPT !.used = @ + cells[o]]
      BY <1>4 DEF CutNext
    <2>. QED
      BY <1>2, <2>1 DEF CutState
  <1>. QED
    BY <1>3, <1>4

LEMMA CutsExist ==
  ASSUME NEW cells \in Seq(Nat), NEW width \in Nat
  PROVE  \E f : f = [o \in 0 .. Len(cells) |-> IF o = 0 THEN [cuts |-> <<0>>, used |-> 0]
                                              ELSE CutNext(f[o - 1], cells, width, o)]
  <1>. DEFINE N == Len(cells)
              step == [n \in 1 .. N |-> [at \in CutState |-> CutNext(at, cells, width, n)]]
              a == [cuts |-> <<0>>, used |-> 0]
  <1>1. N \in Nat /\ a \in CutState
    BY DEF CutState
  <1>2. step \in [1 .. N -> [CutState -> CutState]]
    BY CutNextTyped
  <1>. HIDE DEF step, a, N
  <1>3. PICK f : Folded(f, N, CutState, a, step)
    BY <1>1, <1>2, FoldExists
  <1>4. ASSUME NEW n \in 0 .. N
        PROVE  f[n] = IF n = 0 THEN a ELSE CutNext(f[n - 1], cells, width, n)
    <2>1. CASE n = 0
      BY <1>3, <2>1 DEF Folded
    <2>2. CASE n # 0
      <3>1. n \in 1 .. N /\ n - 1 \in 0 .. N
        BY <1>1, <2>2
      <3>2. f[n] = step[n][f[n - 1]] /\ f[n - 1] \in CutState
        BY <1>3, <3>1 DEF Folded
      <3>3. step[n][f[n - 1]] = CutNext(f[n - 1], cells, width, n)
        BY <3>1, <3>2 DEF step
      <3>. QED
        BY <2>2, <3>2, <3>3
    <2>. QED
      BY <2>1, <2>2
  <1>5. f = [o \in 0 .. N |-> IF o = 0 THEN a ELSE CutNext(f[o - 1], cells, width, o)]
    BY <1>3, <1>4 DEF Folded
  <1>. QED
    BY <1>5 DEF a, N

LEMMA FragmentsAre ==
  ASSUME NEW cells \in Seq(Nat), NEW width \in Nat
  PROVE  Fragments(LogFragments(cells, width), Len(cells))
  <1>. DEFINE N == Len(cells)
              u == CHOOSE f : f = [o \in 0 .. Len(cells) |->
                     IF o = 0 THEN [cuts |-> <<0>>, used |-> 0]
                     ELSE CutNext(f[o - 1], cells, width, o)]
              cuts == u[N].cuts
  <1>1. u = [o \in 0 .. Len(cells) |-> IF o = 0 THEN [cuts |-> <<0>>, used |-> 0]
                                       ELSE CutNext(u[o - 1], cells, width, o)]
    BY CutsExist, Zenon
  <1>2. LogFragments(cells, width) =
          [i \in DOMAIN cuts |->
             [start |-> cuts[i], end |-> IF i = Len(cuts) THEN N ELSE cuts[i + 1]]]
    BY Zenon DEF LogFragments, CutNext
  <1>3. N \in Nat
    OBVIOUS
  <1>4. u[0] = [cuts |-> <<0>>, used |-> 0]
    <2>. HIDE DEF u
    <2>1. 0 \in 0 .. Len(cells)
      OBVIOUS
    <2>. QED
      BY <1>1, <2>1, Zenon
  <1>5. \A o \in 1 .. N : u[o] = CutNext(u[o - 1], cells, width, o)
    <2>. SUFFICES ASSUME NEW o \in 1 .. N PROVE u[o] = CutNext(u[o - 1], cells, width, o)
      OBVIOUS
    <2>. HIDE DEF u
    <2>1. o \in 0 .. Len(cells) /\ o # 0
      OBVIOUS
    <2>. QED
      BY <1>1, <2>1, Zenon
  <1>. HIDE DEF u
  <1>6. CutsOf(u[N].cuts, N)
    <2>. DEFINE Q == {o \in 0 .. N : u[o] \in CutState /\ CutsOf(u[o].cuts, o)}
    <2>1. 0 \in Q
      <3>1. u[0] \in CutState /\ CutsOf(u[0].cuts, 0)
        BY <1>4 DEF CutState, CutsOf
      <3>. QED
        BY <1>3, <3>1
    <2>2. ASSUME NEW o \in 1 .. N, o - 1 \in Q PROVE o \in Q
      <3>1. u[o - 1] \in CutState /\ CutsOf(u[o - 1].cuts, o - 1)
        BY <2>2
      <3>2. u[o] \in CutState /\ (\/ u[o].cuts = Append(u[o - 1].cuts, o - 1) /\ u[o - 1].used > 0
                                  \/ u[o].cuts = u[o - 1].cuts)
        <4>1. PICK at \in CutState : at = u[o - 1]
          BY <3>1
        <4>2. u[o] = CutNext(at, cells, width, o)
          BY <1>5, <4>1
        <4>3. /\ CutNext(at, cells, width, o) \in CutState
              /\ \/ CutNext(at, cells, width, o).cuts = Append(at.cuts, o - 1) /\ at.used > 0
                 \/ CutNext(at, cells, width, o).cuts = at.cuts
          BY CutNextTyped
        <4>. QED
          BY <4>1, <4>2, <4>3, Zenon
      <3>3. CASE o = 1
        <4>1. u[o - 1].used = 0 /\ u[o - 1].cuts = <<0>>
          BY <1>4, <3>3
        <4>2. u[o].cuts = <<0>>
          BY <3>2, <4>1
        <4>3. CutsOf(u[o].cuts, o)
          BY <4>2 DEF CutsOf
        <4>. QED
          BY <3>2, <4>3
      <3>4. CASE o # 1
        <4>1. o \in Nat /\ o >= 2
          BY <3>4
        <4>2. CutsOf(u[o - 1].cuts, o) /\ CutsOf(Append(u[o - 1].cuts, o - 1), o)
          BY <3>1, <4>1, CutMore
        <4>3. CutsOf(u[o].cuts, o)
          BY <3>2, <4>2
        <4>. QED
          BY <3>2, <4>3
      <3>. QED
        BY <3>3, <3>4
    <2>3. N \in Q
      <3>. HIDE DEF Q
      <3>1. \A n \in 0 .. N : n \in Q
        BY <1>3, <2>1, <2>2, Upward
      <3>. QED
        BY <1>3, <3>1
    <2>. QED
      BY <2>3
  <1>. DEFINE c == u[N].cuts
              n == Len(c)
              f == [i \in 1 .. n |-> [start |-> c[i], end |-> IF i = n THEN N ELSE c[i + 1]]]
  <1>7. /\ c \in Seq(Nat) /\ n \in Nat /\ n >= 1 /\ c[1] = 0 /\ DOMAIN c = 1 .. n
        /\ \A i \in 1 .. n : c[i] \in Nat
        /\ \A i \in 1 .. n : c[i] = 0 \/ c[i] < N
        /\ \A i, j \in 1 .. n : i < j => c[i] < c[j]
    BY <1>6 DEF CutsOf
  <1>8. LogFragments(cells, width) = f
    BY <1>2, <1>7
  <1>. HIDE DEF c, n, N
  <1>9. /\ f \in Seq([start : Nat, end : Nat]) /\ Len(f) = n
        /\ \A i \in 1 .. n : f[i].start = c[i] /\ f[i].end = IF i = n THEN N ELSE c[i + 1]
    <2>1. \A i \in 1 .. n : i # n => i + 1 \in 1 .. n
      BY <1>7
    <2>2. \A i \in 1 .. n : (IF i = n THEN N ELSE c[i + 1]) \in Nat
      BY <1>3, <1>7, <2>1
    <2>3. f \in [1 .. n -> [start : Nat, end : Nat]]
      BY <1>7, <2>2
    <2>. QED
      BY <1>7, <2>3
  <1>. HIDE DEF f
  <1>10. Fragments(f, N)
    <2>1. \A i \in 1 .. n : i < n => i + 1 \in 1 .. n /\ i # n
      BY <1>7
    <2>2. f[1].start = 0 /\ f[Len(f)].end = N
      BY <1>7, <1>9
    <2>3. \A i \in 1 .. Len(f) : i < Len(f) => f[i].end = f[i + 1].start
      BY <1>9, <2>1
    <2>4. \A i, j \in 1 .. Len(f) : i < j => f[i].start < f[j].start
      BY <1>7, <1>9
    <2>5. \A i \in 1 .. Len(f) : f[i].start = 0 \/ f[i].start < N
      BY <1>7, <1>9
    <2>. QED
      BY <1>7, <1>9, <2>2, <2>3, <2>4, <2>5 DEF Fragments
  <1>. QED
    BY <1>8, <1>10 DEF N

LEMMA FragmentsTyped ==
  ASSUME NEW n, NEW f, Fragments(f, n)
  PROVE  /\ Len(f) \in Nat /\ Len(f) >= 1 /\ DOMAIN f = 1 .. Len(f)
         /\ \A j \in 1 .. Len(f) : f[j].start \in Nat /\ f[j].end \in Nat
  <1>1. f \in Seq([start : Nat, end : Nat]) /\ Len(f) >= 1
    BY DEF Fragments
  <1>2. ASSUME NEW j \in 1 .. Len(f) PROVE f[j].start \in Nat /\ f[j].end \in Nat
    <2>1. f[j] \in [start : Nat, end : Nat]
      BY <1>1, ElementOfSeq
    <2>. QED
      BY <2>1
  <1>. QED
    BY <1>1, <1>2

\* FragmentIndex gives a fragment, and the one that begins there.
LEMMA FragmentIndexIs ==
  ASSUME NEW n \in Nat, NEW f, Fragments(f, n), NEW offset \in Int
  PROVE  FragmentIndex(f, offset) \in 1 .. Len(f)
  <1>. DEFINE later == {i \in DOMAIN f : offset < f[i].end}
  <1>1. Len(f) \in Nat /\ Len(f) >= 1 /\ DOMAIN f = 1 .. Len(f)
    BY DEF Fragments
  <1>2. FragmentIndex(f, offset) =
          IF offset <= 0 THEN 1 ELSE IF later = {} THEN Len(f) ELSE Min(later)
    BY Zenon DEF FragmentIndex
  <1>3. later \in SUBSET Int /\ (\A x \in later : 1 <= x) /\ \A x \in later : x \in 1 .. Len(f)
    BY <1>1
  <1>. HIDE DEF later
  <1>4. ASSUME later # {} PROVE Min(later) \in 1 .. Len(f)
    <2>1. 1 \in Int
      OBVIOUS
    <2>2. Smallest(later, Min(later))
      BY <1>3, <1>4, <2>1, MinIs, Zenon
    <2>. QED
      BY <1>3, <2>2 DEF Smallest
  <1>. QED
    BY <1>1, <1>2, <1>4

LEMMA IndexOfStart ==
  ASSUME NEW n \in Nat, NEW f, Fragments(f, n), NEW i \in 1 .. Len(f)
  PROVE  FragmentIndex(f, f[i].start) = i
  <1>. DEFINE offset == f[i].start
              later == {j \in DOMAIN f : offset < f[j].end}
  <1>1. /\ Len(f) \in Nat /\ Len(f) >= 1 /\ DOMAIN f = 1 .. Len(f)
        /\ \A j \in 1 .. Len(f) : f[j].start \in Nat /\ f[j].end \in Nat
    BY FragmentsTyped
  <1>2. FragmentIndex(f, offset) =
          IF offset <= 0 THEN 1 ELSE IF later = {} THEN Len(f) ELSE Min(later)
    BY Zenon DEF FragmentIndex
  <1>3. CASE offset <= 0
    <2>1. i = 1
      <3>. SUFFICES ASSUME i # 1 PROVE FALSE
        OBVIOUS
      <3>1. 1 \in 1 .. Len(f) /\ 1 < i
        BY <1>1
      <3>2. f[1].start < f[i].start
        BY <3>1 DEF Fragments
      <3>. QED
        BY <1>1, <1>3, <3>1, <3>2
    <2>. QED
      BY <1>2, <1>3, <2>1
  <1>4. CASE ~(offset <= 0)
    <2>1. offset \in Nat /\ offset # 0 /\ offset < n
      BY <1>1, <1>4 DEF Fragments
    <2>2. i \in later
      <3>1. CASE i = Len(f)
        BY <1>1, <2>1, <3>1 DEF Fragments
      <3>2. CASE i # Len(f)
        <4>1. i \in 1 .. Len(f) /\ i < Len(f) /\ i + 1 \in 1 .. Len(f) /\ i < i + 1
          <5>. HIDE DEF later, offset
          <5>1. PICK k : k = Len(f)
            OBVIOUS
          <5>2. k \in Nat /\ i \in 1 .. k /\ i # k
            BY <1>1, <3>2, <5>1
          <5>3. i \in 1 .. k /\ i < k /\ i + 1 \in 1 .. k /\ i < i + 1
            BY <5>2
          <5>. QED
            BY <5>1, <5>3
        <4>2. f[i].end = f[i + 1].start /\ f[i].start < f[i + 1].start
          BY <4>1 DEF Fragments
        <4>. QED
          BY <1>1, <4>2
      <3>. QED
        BY <3>1, <3>2
    <2>3. ASSUME NEW j \in later PROVE i <= j
      <3>. SUFFICES ASSUME j < i PROVE FALSE
        BY <1>1
      <3>1. j \in 1 .. Len(f) /\ j < Len(f) /\ j + 1 \in 1 .. Len(f) /\ offset < f[j].end
        BY <1>1
      <3>2. f[j].end = f[j + 1].start
        BY <3>1 DEF Fragments
      <3>3. f[j + 1].start <= f[i].start
        <4>1. CASE j + 1 = i
          BY <1>1, <4>1
        <4>2. CASE j + 1 # i
          <5>1. j + 1 < i
            BY <3>1, <4>2
          <5>2. f[j + 1].start < f[i].start
            BY <3>1, <5>1 DEF Fragments
          <5>. QED
            BY <1>1, <3>1, <5>2
        <4>. QED
          BY <4>1, <4>2
      <3>. QED
        BY <1>1, <2>1, <3>1, <3>2, <3>3
    <2>4. later \in SUBSET Int /\ (\A x \in later : 1 <= x) /\ later # {}
      BY <1>1, <2>2
    <2>. HIDE DEF later, offset
    <2>5. Smallest(later, Min(later))
      <3>1. 1 \in Int
        OBVIOUS
      <3>. QED
        BY <2>4, <3>1, MinIs, Zenon
    <2>6. Min(later) = i
      <3>1. Min(later) <= i /\ i <= Min(later) /\ Min(later) \in Int
        BY <2>2, <2>3, <2>4, <2>5 DEF Smallest
      <3>. QED
        BY <3>1
    <2>. QED
      BY <1>2, <1>4, <2>4, <2>6 DEF offset
  <1>. QED
    BY <1>3, <1>4

-----------------------------------------------------------------------------
\* The lines that are logged and those of a history
LineType == [cells : Seq(Nat), hits : SUBSET Nat]
Histories == Seq(ToSet(LogLines))

\* The fragments of the line l of a history
Frags(h, width, l) == FragmentTable[h[l + 1]][width]

LEMMA LinesAre ==
  ASSUME NEW line \in ToSet(LogLines)
  PROVE  line \in LineType /\ line.cells \in Seq(Nat) /\ Len(line.cells) \in Nat
  <1>1. PICK i \in DOMAIN LogLines : line = LogLines[i]
    BY DEF ToSet
  <1>2. line \in LineType
    <2>1. LogLines \in Seq(LineType)
      BY DashAssumption DEF LineType
    <2>2. i \in 1 .. Len(LogLines)
      BY <2>1
    <2>. QED
      BY <1>1, <2>1, <2>2, ElementOfSeq
  <1>. QED
    BY <1>2 DEF LineType

LEMMA WidthsAre == \A w \in Widths : w \in Nat
  <1>. SUFFICES ASSUME NEW w \in Widths PROVE w \in Nat
    OBVIOUS
  <1>1. PICK i \in DOMAIN Sizes : w = Sizes[i].width
    BY DEF Widths
  <1>2. Sizes[i] \in [width : Nat \ {0}, rows : Nat \ {0}]
    <2>1. Sizes \in Seq([width : Nat \ {0}, rows : Nat \ {0}])
      BY DashAssumption
    <2>2. i \in 1 .. Len(Sizes)
      BY <2>1
    <2>. QED
      BY <2>1, <2>2, ElementOfSeq
  <1>. QED
    BY <1>1, <1>2

LEMMA TableIs ==
  ASSUME NEW line \in ToSet(LogLines), NEW w \in Widths
  PROVE  Fragments(FragmentTable[line][w], Len(line.cells))
  <1>1. FragmentTable[line][w] = LogFragments(line.cells, w)
    BY DEF FragmentTable
  <1>2. line.cells \in Seq(Nat) /\ w \in Nat
    BY LinesAre, WidthsAre
  <1>. QED
    BY <1>1, <1>2, FragmentsAre

LEMMA FragsAre ==
  ASSUME NEW h \in Histories, NEW w \in Widths, NEW l \in 0 .. Len(h) - 1
  PROVE  /\ Fragments(Frags(h, w, l), Len(h[l + 1].cells))
         /\ Len(Frags(h, w, l)) \in Nat /\ Len(Frags(h, w, l)) >= 1
         /\ Len(h[l + 1].cells) \in Nat
  <1>1. h[l + 1] \in ToSet(LogLines)
    <2>1. l + 1 \in 1 .. Len(h)
      OBVIOUS
    <2>. QED
      BY <2>1 DEF Histories
  <1>2. Fragments(Frags(h, w, l), Len(h[l + 1].cells))
    BY <1>1, TableIs DEF Frags
  <1>3. Len(h[l + 1].cells) \in Nat
    BY <1>1, LinesAre
  <1>. QED
    BY <1>2, <1>3 DEF Fragments

RowType == [line : Nat, offset : Nat, end : Nat]

\* The row of a fragment
FragRow(h, w, l, i) == [line |-> l, offset |-> Frags(h, w, l)[i].start, end |-> Frags(h, w, l)[i].end]

LEMMA LineRowsAre ==
  ASSUME NEW h \in Histories, NEW w \in Widths, NEW l \in 0 .. Len(h) - 1
  PROVE  /\ LineRows(h, w, l) \in Seq(RowType)
         /\ Len(LineRows(h, w, l)) = Len(Frags(h, w, l))
         /\ \A i \in 1 .. Len(Frags(h, w, l)) : LineRows(h, w, l)[i] = FragRow(h, w, l, i)
  <1>1. PICK f : f = Frags(h, w, l)
    OBVIOUS
  <1>2. /\ Len(f) \in Nat /\ DOMAIN f = 1 .. Len(f)
        /\ \A i \in 1 .. Len(f) : f[i].start \in Nat /\ f[i].end \in Nat
    BY <1>1, FragsAre, FragmentsTyped
  <1>3. LineRows(h, w, l) = [i \in 1 .. Len(f) |-> [line |-> l, offset |-> f[i].start, end |-> f[i].end]]
    BY <1>1, <1>2 DEF LineRows, Frags
  <1>4. l \in Nat
    OBVIOUS
  <1>5. [i \in 1 .. Len(f) |-> [line |-> l, offset |-> f[i].start, end |-> f[i].end]]
          \in [1 .. Len(f) -> RowType]
    BY <1>2, <1>4 DEF RowType
  <1>6. LineRows(h, w, l) \in Seq(RowType) /\ Len(LineRows(h, w, l)) = Len(f)
    BY <1>2, <1>3, <1>5
  <1>7. \A i \in 1 .. Len(f) : LineRows(h, w, l)[i] = FragRow(h, w, l, i)
    BY <1>1, <1>3 DEF FragRow
  <1>. QED
    BY <1>1, <1>6, <1>7

-----------------------------------------------------------------------------
\* The rows of the first n lines of a history, n counting up
RowsUpTo(u, h, w) ==
  /\ u \in [0 .. Len(h) -> Seq(RowType)] /\ u[0] = <<>>
  /\ \A n \in 1 .. Len(h) : u[n] = u[n - 1] \o LineRows(h, w, n - 1)

LEMMA RowsExist ==
  ASSUME NEW h \in Histories, NEW w \in Widths
  PROVE  \E u : RowsUpTo(u, h, w)
  <1>. DEFINE N == Len(h)
              S == Seq(RowType)
              step == [n \in 1 .. N |-> [s \in S |-> s \o LineRows(h, w, n - 1)]]
  <1>1. N \in Nat /\ <<>> \in S
    BY DEF Histories
  <1>2. step \in [1 .. N -> [S -> S]]
    <2>1. ASSUME NEW n \in 1 .. N, NEW s \in S PROVE s \o LineRows(h, w, n - 1) \in S
      <3>1. n - 1 \in 0 .. Len(h) - 1
        BY <1>1
      <3>2. LineRows(h, w, n - 1) \in S
        BY <3>1, LineRowsAre
      <3>. QED
        BY <3>2
    <2>. HIDE DEF S
    <2>. QED
      BY <2>1
  <1>. HIDE DEF step, S
  <1>3. PICK u : Folded(u, N, S, <<>>, step)
    BY <1>1, <1>2, FoldExists
  <1>4. ASSUME NEW n \in 1 .. N PROVE u[n] = u[n - 1] \o LineRows(h, w, n - 1)
    <2>1. n - 1 \in 0 .. N
      BY <1>1
    <2>2. u[n] = step[n][u[n - 1]] /\ u[n - 1] \in S
      BY <1>3, <2>1 DEF Folded
    <2>. QED
      BY <2>2 DEF step
  <1>5. u \in [0 .. N -> S] /\ u[0] = <<>>
    BY <1>3 DEF Folded
  <1>6. RowsUpTo(u, h, w)
    BY <1>4, <1>5 DEF RowsUpTo, S
  <1>. QED
    BY <1>6

LEMMA AllRowsUpTo ==
  ASSUME NEW h \in Histories, NEW w \in Widths, NEW u, RowsUpTo(u, h, w)
  PROVE  AllRows(h, w) = u[Len(h)]
  <1>. DEFINE Is(f) == f = [n \in 0 .. Len(h) |-> IF n = 0 THEN <<>> ELSE f[n - 1] \o LineRows(h, w, n - 1)]
              c == CHOOSE f : Is(f)
  <1>1. Len(h) \in Nat
    BY DEF Histories
  <1>2. Is(u)
    <2>1. ASSUME NEW n \in 0 .. Len(h)
          PROVE  u[n] = IF n = 0 THEN <<>> ELSE u[n - 1] \o LineRows(h, w, n - 1)
      <3>1. n = 0 \/ n \in 1 .. Len(h)
        BY <1>1
      <3>. QED
        BY <3>1 DEF RowsUpTo
    <2>2. DOMAIN u = 0 .. Len(h) /\ u = [n \in 0 .. Len(h) |-> u[n]]
      BY DEF RowsUpTo
    <2>. QED
      BY <2>1, <2>2
  <1>3. Is(c)
    BY <1>2, Zenon
  <1>4. AllRows(h, w) = c[Len(h)]
    BY Zenon DEF AllRows
  <1>. HIDE DEF c
  <1>. DEFINE N == Len(h)
              Q == {n \in 0 .. N : c[n] = u[n]}
  <1>5. DOMAIN c = 0 .. N
    BY <1>3
  <1>6. \A n \in 0 .. N : c[n] = IF n = 0 THEN <<>> ELSE c[n - 1] \o LineRows(h, w, n - 1)
    BY <1>3, Zenon
  <1>. HIDE DEF Is
  <1>7. 0 \in Q
    <2>1. 0 \in 0 .. N
      BY <1>1
    <2>. QED
      BY <1>6, <2>1 DEF RowsUpTo
  <1>8. ASSUME NEW n \in 1 .. N, n - 1 \in Q PROVE n \in Q
    <2>1. n \in 0 .. N /\ n # 0
      BY <1>1
    <2>2. c[n] = c[n - 1] \o LineRows(h, w, n - 1)
      BY <1>6, <2>1
    <2>3. u[n] = u[n - 1] \o LineRows(h, w, n - 1)
      BY DEF RowsUpTo
    <2>. QED
      BY <1>8, <2>1, <2>2, <2>3
  <1>9. N \in Q
    <2>. HIDE DEF Q
    <2>1. \A n \in 0 .. N : n \in Q
      BY <1>1, <1>7, <1>8, Upward
    <2>. QED
      BY <1>1, <2>1
  <1>. QED
    BY <1>4, <1>9

\* How many rows are above a line, and what the number of a fragment's row is
Before(h, w, l) == Len(AllRows(SubSeq(h, 1, l), w))
RowNumber(h, w, l, i) == Before(h, w, l) + i

LEMMA HistoriesShort ==
  ASSUME NEW h \in Histories, NEW a \in Nat, NEW b \in Nat, a >= 1, b <= Len(h), a <= b + 1
  PROVE  /\ SubSeq(h, a, b) \in Histories /\ Len(SubSeq(h, a, b)) = b + 1 - a
         /\ \A i \in 1 .. b + 1 - a : SubSeq(h, a, b)[i] = h[a + i - 1]
  <1>1. h \in Seq(ToSet(LogLines))
    BY DEF Histories
  <1>. QED
    BY <1>1 DEF Histories

LEMMA BeforeIs ==
  ASSUME NEW h \in Histories, NEW w \in Widths, NEW u, RowsUpTo(u, h, w), NEW l \in 0 .. Len(h)
  PROVE  AllRows(SubSeq(h, 1, l), w) = u[l] /\ Before(h, w, l) = Len(u[l])
  <1>. DEFINE s == SubSeq(h, 1, l)
              v == [n \in 0 .. l |-> u[n]]
  <1>1. Len(h) \in Nat /\ l \in Nat /\ l <= Len(h)
    BY DEF Histories
  <1>2. s \in Histories /\ Len(s) = l /\ \A i \in 1 .. l : s[i] = h[i]
    BY <1>1, HistoriesShort
  <1>. HIDE DEF s
  <1>3. ASSUME NEW n \in 1 .. l PROVE v[n] = v[n - 1] \o LineRows(s, w, n - 1)
    <2>1. n \in 1 .. Len(h) /\ n - 1 \in 0 .. l /\ n \in 0 .. l /\ (n - 1) + 1 = n
      BY <1>1
    <2>2. LineRows(s, w, n - 1) = LineRows(h, w, n - 1)
      BY <1>2, <2>1 DEF LineRows
    <2>3. u[n] = u[n - 1] \o LineRows(h, w, n - 1)
      BY <2>1 DEF RowsUpTo
    <2>. QED
      BY <2>1, <2>2, <2>3
  <1>4. v \in [0 .. l -> Seq(RowType)] /\ v[0] = <<>>
    BY <1>1 DEF RowsUpTo
  <1>5. RowsUpTo(v, s, w)
    BY <1>2, <1>3, <1>4 DEF RowsUpTo
  <1>6. AllRows(s, w) = v[l]
    <2>. HIDE DEF v
    <2>. QED
      BY <1>2, <1>5, AllRowsUpTo
  <1>. QED
    BY <1>1, <1>6 DEF s, Before

LEMMA BeforeMore ==
  ASSUME NEW h \in Histories, NEW w \in Widths
  PROVE  /\ Before(h, w, 0) = 0 /\ Before(h, w, Len(h)) = Len(AllRows(h, w))
         /\ AllRows(h, w) \in Seq(RowType)
         /\ \A l \in 0 .. Len(h) : Before(h, w, l) \in Nat
         /\ \A l \in 0 .. Len(h) - 1 : Before(h, w, l + 1) = Before(h, w, l) + Len(Frags(h, w, l))
  <1>1. PICK u : RowsUpTo(u, h, w)
    BY RowsExist
  <1>2. Len(h) \in Nat
    BY DEF Histories
  <1>3. \A l \in 0 .. Len(h) : Before(h, w, l) = Len(u[l]) /\ u[l] \in Seq(RowType)
    <2>1. \A l \in 0 .. Len(h) : Before(h, w, l) = Len(u[l])
      BY <1>1, BeforeIs
    <2>. QED
      BY <1>1, <2>1 DEF RowsUpTo
  <1>4. AllRows(h, w) = u[Len(h)]
    BY <1>1, AllRowsUpTo
  <1>5. Before(h, w, 0) = 0
    BY <1>1, <1>2, <1>3 DEF RowsUpTo
  <1>6. ASSUME NEW l \in 0 .. Len(h) - 1
        PROVE  Before(h, w, l + 1) = Before(h, w, l) + Len(Frags(h, w, l))
    <2>1. l + 1 \in 1 .. Len(h) /\ l + 1 \in 0 .. Len(h) /\ l \in 0 .. Len(h) /\ (l + 1) - 1 = l
      BY <1>2
    <2>2. u[l + 1] = u[l] \o LineRows(h, w, l)
      BY <1>1, <2>1 DEF RowsUpTo
    <2>3. LineRows(h, w, l) \in Seq(RowType) /\ Len(LineRows(h, w, l)) = Len(Frags(h, w, l))
      BY LineRowsAre
    <2>4. Before(h, w, l + 1) = Len(u[l + 1]) /\ Before(h, w, l) = Len(u[l]) /\ u[l] \in Seq(RowType)
      BY <1>3, <2>1
    <2>5. Len(u[l] \o LineRows(h, w, l)) = Len(u[l]) + Len(LineRows(h, w, l))
      BY <2>3, <2>4
    <2>. QED
      BY <2>2, <2>3, <2>4, <2>5
  <1>7. Before(h, w, Len(h)) = Len(AllRows(h, w)) /\ AllRows(h, w) \in Seq(RowType)
    BY <1>2, <1>3, <1>4
  <1>8. \A l \in 0 .. Len(h) : Before(h, w, l) \in Nat
    BY <1>3
  <1>. QED
    BY <1>5, <1>6, <1>7, <1>8

\* Each fragment has its row.
LEMMA RowOfFragment ==
  ASSUME NEW h \in Histories, NEW w \in Widths
  PROVE  \A l \in 0 .. Len(h) - 1 : \A i \in 1 .. Len(Frags(h, w, l)) :
           /\ RowNumber(h, w, l, i) \in 1 .. Len(AllRows(h, w))
           /\ AllRows(h, w)[RowNumber(h, w, l, i)] = FragRow(h, w, l, i)
  <1>1. PICK u : RowsUpTo(u, h, w)
    BY RowsExist
  <1>2. PICK N \in Nat : N = Len(h)
    BY DEF Histories
  <1>3. \A n \in 0 .. N : Before(h, w, n) = Len(u[n]) /\ u[n] \in Seq(RowType)
    <2>1. \A n \in 0 .. N : Before(h, w, n) = Len(u[n])
      BY <1>1, <1>2, BeforeIs
    <2>. QED
      BY <1>1, <1>2, <2>1 DEF RowsUpTo
  <1>. DEFINE Placed(n, l, i) == /\ Before(h, w, l) + i \in 1 .. Len(u[n])
                                 /\ u[n][Before(h, w, l) + i] = FragRow(h, w, l, i)
              Q == {n \in 0 .. N : \A l \in 0 .. N - 1 : l < n =>
                                     \A i \in 1 .. Len(Frags(h, w, l)) : Placed(n, l, i)}
  <1>4. 0 \in Q
    OBVIOUS
  <1>5. ASSUME NEW n \in 1 .. N, n - 1 \in Q PROVE n \in Q
    <2>1. PICK m \in 0 .. N - 1 : m = n - 1
      OBVIOUS
    <2>2. /\ u[n] = u[m] \o LineRows(h, w, m)
          /\ LineRows(h, w, m) \in Seq(RowType) /\ Len(LineRows(h, w, m)) = Len(Frags(h, w, m))
          /\ \A i \in 1 .. Len(Frags(h, w, m)) : LineRows(h, w, m)[i] = FragRow(h, w, m, i)
      BY <1>1, <1>2, <2>1, LineRowsAre DEF RowsUpTo
    <2>3. u[m] \in Seq(RowType) /\ Before(h, w, m) = Len(u[m])
      BY <1>3
    <2>4. PICK s, t : s = u[m] /\ t = LineRows(h, w, m)
      OBVIOUS
    <2>5. s \in Seq(RowType) /\ t \in Seq(RowType) /\ u[n] = s \o t /\ Before(h, w, m) = Len(s)
      BY <2>2, <2>3, <2>4
    <2>6. ASSUME NEW l \in 0 .. N - 1, l < n, NEW i \in 1 .. Len(Frags(h, w, l)) PROVE Placed(n, l, i)
      <3>1. CASE l < m
        <4>1. Placed(m, l, i)
          BY <1>5, <2>1, <3>1
        <4>2. PICK k : k = Before(h, w, l) + i
          OBVIOUS
        <4>3. k \in 1 .. Len(s) /\ s[k] = FragRow(h, w, l, i)
          BY <2>4, <4>1, <4>2
        <4>4. k \in 1 .. Len(s \o t) /\ (s \o t)[k] = s[k]
          BY <2>5, <4>3
        <4>. QED
          BY <2>5, <4>2, <4>3, <4>4
      <3>2. CASE ~(l < m)
        <4>1. l = m
          BY <2>1, <2>6, <3>2
        <4>2. i \in 1 .. Len(t) /\ t[i] = FragRow(h, w, l, i)
          BY <2>2, <2>4, <4>1
        <4>3. Len(s) + i \in 1 .. Len(s \o t) /\ (s \o t)[Len(s) + i] = t[i]
          BY <2>5, <4>2
        <4>. QED
          BY <2>5, <4>1, <4>2, <4>3
      <3>. QED
        BY <3>1, <3>2
    <2>. QED
      BY <2>6
  <1>6. N \in Q
    <2>. HIDE DEF Q
    <2>1. \A n \in 0 .. N : n \in Q
      BY <1>4, <1>5, Upward
    <2>. QED
      BY <2>1
  <1>7. AllRows(h, w) = u[N]
    BY <1>1, <1>2, AllRowsUpTo
  <1>. SUFFICES ASSUME NEW l \in 0 .. N - 1, NEW i \in 1 .. Len(Frags(h, w, l))
                PROVE  Placed(N, l, i)
    BY <1>2, <1>7 DEF RowNumber
  <1>8. l < N
    OBVIOUS
  <1>. QED
    BY <1>6, <1>8

\* Each row is that of a fragment.
LEMMA FragmentOfRow ==
  ASSUME NEW h \in Histories, NEW w \in Widths, NEW r \in 1 .. Len(AllRows(h, w))
  PROVE  \E l \in 0 .. Len(h) - 1 : \E i \in 1 .. Len(Frags(h, w, l)) : r = RowNumber(h, w, l, i)
  <1>1. PICK N \in Nat : N = Len(h)
    BY DEF Histories
  <1>. DEFINE Found(x) == \E l \in 0 .. N - 1 : \E i \in 1 .. Len(Frags(h, w, l)) : x = RowNumber(h, w, l, i)
              Q == {n \in 0 .. N : \A x \in 1 .. Before(h, w, n) : Found(x)}
  <1>2. 0 \in Q
    <2>1. Before(h, w, 0) = 0
      BY BeforeMore
    <2>. QED
      BY <2>1
  <1>3. ASSUME NEW n \in 1 .. N, n - 1 \in Q PROVE n \in Q
    <2>1. PICK m \in 0 .. N - 1 : m = n - 1 /\ m \in 0 .. N /\ n = m + 1
      OBVIOUS
    <2>2. /\ Before(h, w, m) \in Nat /\ Before(h, w, n) \in Nat
          /\ Before(h, w, n) = Before(h, w, m) + Len(Frags(h, w, m))
      BY <1>1, <2>1, BeforeMore
    <2>3. Len(Frags(h, w, m)) \in Nat
      BY <1>1, FragsAre
    <2>4. ASSUME NEW x \in 1 .. Before(h, w, n) PROVE Found(x)
      <3>1. CASE x <= Before(h, w, m)
        <4>1. x \in 1 .. Before(h, w, m)
          BY <2>2, <3>1
        <4>. HIDE DEF Found
        <4>. QED
          BY <1>3, <2>1, <4>1
      <3>2. CASE ~(x <= Before(h, w, m))
        <4>1. x - Before(h, w, m) \in 1 .. Len(Frags(h, w, m)) /\ x = Before(h, w, m) + (x - Before(h, w, m))
          BY <2>2, <2>3, <3>2
        <4>. QED
          BY <4>1 DEF RowNumber
      <3>. QED
        BY <3>1, <3>2
    <2>. HIDE DEF Found
    <2>. QED
      BY <2>4
  <1>4. N \in Q
    <2>. HIDE DEF Q
    <2>1. \A n \in 0 .. N : n \in Q
      BY <1>2, <1>3, Upward
    <2>. QED
      BY <2>1
  <1>5. r \in 1 .. Before(h, w, N)
    BY <1>1, BeforeMore
  <1>. HIDE DEF Found
  <1>6. Found(r)
    BY <1>4, <1>5
  <1>. QED
    BY <1>1, <1>6 DEF Found

-----------------------------------------------------------------------------
\* The row of a place is one of the history, and the place of a row is where it begins.
LEMMA RowOfIs ==
  ASSUME NEW h \in Histories, NEW w \in Widths, h # <<>>, NEW place, place.line \in Int, place.offset \in Int
  PROVE  /\ RowOf(h, w, place) \in 1 .. Len(AllRows(h, w)) /\ Len(AllRows(h, w)) \in Nat
         /\ place.line \in 0 .. Len(h) - 1 =>
              RowOf(h, w, place) =
                RowNumber(h, w, place.line, FragmentIndex(Frags(h, w, place.line), place.offset))
  <1>. DEFINE L(n) == IF place.line < 0 THEN 0 ELSE IF place.line >= n THEN n - 1 ELSE place.line
              l == L(Len(h))
              i == FragmentIndex(Frags(h, w, l), place.offset)
  <1>1. PICK n : n = Len(h)
    OBVIOUS
  <1>2. n \in Nat /\ n >= 1
    BY <1>1 DEF Histories
  <1>3. L(n) \in 0 .. n - 1 /\ (place.line \in 0 .. n - 1 => L(n) = place.line)
    BY <1>2
  <1>4. RowOf(h, w, place) = RowNumber(h, w, l, i)
    BY Zenon DEF RowOf, RowNumber, Before, Frags
  <1>. HIDE DEF L
  <1>5. l \in 0 .. Len(h) - 1
    BY <1>1, <1>3
  <1>6. i \in 1 .. Len(Frags(h, w, l))
    <2>1. Fragments(Frags(h, w, l), Len(h[l + 1].cells)) /\ Len(h[l + 1].cells) \in Nat
      BY <1>5, FragsAre
    <2>. QED
      BY <2>1, FragmentIndexIs
  <1>7. RowOf(h, w, place) \in 1 .. Len(AllRows(h, w))
    <2>. HIDE DEF i, l
    <2>. QED
      BY <1>4, <1>5, <1>6, RowOfFragment
  <1>8. Len(AllRows(h, w)) \in Nat
    <2>1. AllRows(h, w) \in Seq(RowType)
      BY BeforeMore
    <2>. QED
      BY <2>1
  <1>9. place.line \in 0 .. Len(h) - 1 => l = place.line
    BY <1>1, <1>3
  <1>. QED
    BY <1>4, <1>7, <1>8, <1>9

LEMMA PlaceOfIs ==
  ASSUME NEW h \in Histories, NEW w \in Widths, NEW l \in 0 .. Len(h) - 1,
         NEW i \in 1 .. Len(Frags(h, w, l))
  PROVE  /\ PlaceOf(h, w, RowNumber(h, w, l, i)) = [line |-> l, offset |-> Frags(h, w, l)[i].start]
         /\ Frags(h, w, l)[i].start \in Nat /\ Frags(h, w, l)[i].end \in Nat
         /\ RowOf(h, w, [line |-> l, offset |-> Frags(h, w, l)[i].start]) = RowNumber(h, w, l, i)
  <1>1. PICK f : f = Frags(h, w, l)
    OBVIOUS
  <1>2. PICK n : n = Len(h[l + 1].cells)
    OBVIOUS
  <1>3. Fragments(f, n) /\ n \in Nat
    BY <1>1, <1>2, FragsAre
  <1>4. f[i].start \in Nat /\ f[i].end \in Nat
    BY <1>1, <1>3, FragmentsTyped
  <1>5. h # <<>>
    BY DEF Histories
  <1>6. PlaceOf(h, w, RowNumber(h, w, l, i)) = [line |-> l, offset |-> f[i].start]
    <2>1. AllRows(h, w)[RowNumber(h, w, l, i)] = FragRow(h, w, l, i)
      BY RowOfFragment
    <2>. QED
      BY <1>1, <1>5, <2>1 DEF PlaceOf, FragRow
  <1>7. RowOf(h, w, [line |-> l, offset |-> f[i].start]) = RowNumber(h, w, l, i)
    <2>1. PICK place : place = [line |-> l, offset |-> f[i].start]
      OBVIOUS
    <2>2. place.line = l /\ place.offset = f[i].start /\ place.line \in Int /\ place.offset \in Int
      BY <1>4, <2>1
    <2>3. place.line \in 0 .. Len(h) - 1
      BY <2>2
    <2>4. RowOf(h, w, place) = RowNumber(h, w, place.line, FragmentIndex(Frags(h, w, place.line), place.offset))
      BY <1>5, <2>2, <2>3, RowOfIs
    <2>5. FragmentIndex(f, f[i].start) = i
      BY <1>1, <1>3, IndexOfStart
    <2>. QED
      BY <1>1, <2>1, <2>2, <2>4, <2>5
  <1>. QED
    BY <1>1, <1>4, <1>6, <1>7

LEMMA RowOfPlace ==
  ASSUME NEW h \in Histories, NEW w \in Widths, NEW r \in 1 .. Len(AllRows(h, w))
  PROVE  /\ RowOf(h, w, PlaceOf(h, w, r)) = r
         /\ PlaceOf(h, w, r) \in [line : 0 .. Len(h) - 1, offset : Nat]
  <1>1. PICK l \in 0 .. Len(h) - 1 : \E i \in 1 .. Len(Frags(h, w, l)) : r = RowNumber(h, w, l, i)
    BY FragmentOfRow
  <1>2. PICK i \in 1 .. Len(Frags(h, w, l)) : r = RowNumber(h, w, l, i)
    BY <1>1
  <1>3. /\ PlaceOf(h, w, r) = [line |-> l, offset |-> Frags(h, w, l)[i].start]
        /\ Frags(h, w, l)[i].start \in Nat
        /\ RowOf(h, w, [line |-> l, offset |-> Frags(h, w, l)[i].start]) = r
    BY <1>2, PlaceOfIs
  <1>. QED
    BY <1>3

LEMMA FirstRow ==
  ASSUME NEW h \in Histories, NEW w \in Widths, h # <<>>
  PROVE  /\ 1 \in 1 .. Len(AllRows(h, w)) /\ Len(AllRows(h, w)) \in Nat
         /\ PlaceOf(h, w, 1) = Origin /\ RowOf(h, w, Origin) = 1
  <1>1. Len(h) \in Nat /\ Len(h) >= 1 /\ 0 \in 0 .. Len(h) - 1
    BY DEF Histories
  <1>2. PICK f : f = Frags(h, w, 0)
    OBVIOUS
  <1>3. Fragments(f, Len(h[0 + 1].cells)) /\ 1 \in 1 .. Len(f)
    BY <1>1, <1>2, FragsAre
  <1>4. f[1].start = 0
    BY <1>3 DEF Fragments
  <1>5. RowNumber(h, w, 0, 1) = 1
    BY BeforeMore DEF RowNumber
  <1>6. /\ PlaceOf(h, w, 1) = [line |-> 0, offset |-> 0]
        /\ RowOf(h, w, [line |-> 0, offset |-> 0]) = 1
    BY <1>1, <1>2, <1>3, <1>4, <1>5, PlaceOfIs
  <1>7. 1 \in 1 .. Len(AllRows(h, w))
    BY <1>1, <1>2, <1>3, <1>5, RowOfFragment
  <1>8. Len(AllRows(h, w)) \in Nat
    <2>1. AllRows(h, w) \in Seq(RowType)
      BY BeforeMore
    <2>. QED
      BY <2>1
  <1>. QED
    BY <1>6, <1>7, <1>8 DEF Origin

SizeSet == {Sizes[i] : i \in DOMAIN Sizes}

LEMMA SizesAre ==
  ASSUME NEW size \in SizeSet
  PROVE  size.width \in Widths /\ size.rows \in Nat /\ size.rows >= 1
  <1>1. PICK i \in DOMAIN Sizes : size = Sizes[i]
    BY DEF SizeSet
  <1>2. Sizes[i] \in [width : Nat \ {0}, rows : Nat \ {0}]
    <2>1. Sizes \in Seq([width : Nat \ {0}, rows : Nat \ {0}])
      BY DashAssumption
    <2>2. i \in 1 .. Len(Sizes)
      BY <2>1
    <2>. QED
      BY <2>1, <2>2, ElementOfSeq
  <1>. QED
    BY <1>1, <1>2 DEF Widths

LEMMA FollowIs ==
  ASSUME NEW h \in Histories, NEW size \in SizeSet, h # <<>>
  PROVE  /\ FollowRow(h, size) \in 1 .. Len(AllRows(h, size.width))
         /\ FollowRow(h, size) = IF 1 <= Len(AllRows(h, size.width)) - size.rows + 1
                                   THEN Len(AllRows(h, size.width)) - size.rows + 1 ELSE 1
  <1>1. PICK n : n = Len(AllRows(h, size.width))
    OBVIOUS
  <1>2. n \in Nat /\ n >= 1 /\ size.rows \in Nat /\ size.rows >= 1
    BY <1>1, SizesAre, FirstRow
  <1>3. FollowRow(h, size) = Max({1, n - size.rows + 1})
    BY <1>1 DEF FollowRow
  <1>4. 1 \in Int /\ n - size.rows + 1 \in Int
    BY <1>2
  <1>5. Max({1, n - size.rows + 1}) = IF 1 <= n - size.rows + 1 THEN n - size.rows + 1 ELSE 1
    BY <1>4, MinOfTwo
  <1>. QED
    BY <1>1, <1>2, <1>3, <1>5

LEMMA MovedRowIs ==
  ASSUME NEW h \in Histories, NEW w \in Widths, h # <<>>, NEW place, place.line \in Int, place.offset \in Int,
         NEW distance \in Int
  PROVE  MovedRow(h, w, place, distance) \in 1 .. Len(AllRows(h, w))
  <1>1. PICK n, r : n = Len(AllRows(h, w)) /\ r = RowOf(h, w, place)
    OBVIOUS
  <1>2. n \in Nat /\ r \in 1 .. n
    BY <1>1, RowOfIs
  <1>3. PICK m : m = Max({1, r + distance})
    OBVIOUS
  <1>4. 1 \in Int /\ r + distance \in Int
    BY <1>2
  <1>5. m = IF 1 <= r + distance THEN r + distance ELSE 1
    BY <1>3, <1>4, MinOfTwo
  <1>6. n \in Int /\ m \in Int
    BY <1>2, <1>4, <1>5
  <1>7. Min({n, m}) = IF n <= m THEN n ELSE m
    BY <1>6, MinOfTwo
  <1>8. MovedRow(h, w, place, distance) = Min({n, m})
    BY <1>1, <1>3 DEF MovedRow
  <1>. QED
    BY <1>1, <1>2, <1>5, <1>7, <1>8

-----------------------------------------------------------------------------
\* The views of a history whose lines are numbered from a up to b
Points(a, b) == [seq : a .. b, offset : Nat]
Selections(a, b) ==
  {Nothing} \cup [valid : {TRUE}, active : BOOLEAN, anchor : Points(a, b), focus : Points(a, b),
                  edge : Int, column : Int]
Views(a, b) ==
  [follow : BOOLEAN, top : Nat, offset : Nat, typing : BOOLEAN, query : BOOLEAN, match : Int,
   sel : Selections(a, b)]

\* A view begins at a row that leaves the screen full, and one that follows at the last such row.
Rests(place, follow, h, size) ==
  IF h = <<>> THEN place = Origin
  ELSE \E r \in 1 .. FollowRow(h, size) :
         place = PlaceOf(h, size.width, r) /\ (follow => r = FollowRow(h, size))

\* The match is a line that has the query.
Matches(match, query, h) ==
  match # NoMatch => query /\ match \in 0 .. Len(h) - 1 /\ h[match + 1].hits # {}

ViewGood(v, h, first, size) ==
  /\ v \in Views(first, first + Len(h) - 1)
  /\ Rests(ViewPlace(v), v.follow, h, size)
  /\ Matches(v.match, v.query, h)

\* What Clamped leaves of a view and what it makes of its place
LEMMA ClampedIs ==
  ASSUME NEW h \in Histories, NEW size \in SizeSet, NEW a, NEW b, NEW v \in Views(a, b)
  PROVE  /\ Clamped(v, h, size) \in Views(a, b)
         /\ Rests(ViewPlace(Clamped(v, h, size)), v.follow, h, size)
         /\ Clamped(v, h, size).follow = v.follow /\ Clamped(v, h, size).typing = v.typing
         /\ Clamped(v, h, size).query = v.query /\ Clamped(v, h, size).sel = v.sel
         /\ Clamped(v, h, size).match = IF h = <<>> \/ v.match >= Len(h) THEN NoMatch ELSE v.match
         /\ h # <<>> /\ ~v.follow /\ RowOf(h, size.width, ViewPlace(v)) <= FollowRow(h, size) =>
              ViewPlace(Clamped(v, h, size)) = PlaceOf(h, size.width, RowOf(h, size.width, ViewPlace(v)))
  <1>1. Len(h) \in Nat /\ (h = <<>> => Len(h) = 0)
    BY DEF Histories
  <1>2. NoMatch \in Int
    BY DEF NoMatch
  <1>3. CASE h = <<>>
    <2>1. PICK c : c = Clamped(v, h, size)
      OBVIOUS
    <2>2. c = [v EXCEPT !.top = 0, !.offset = 0, !.match = NoMatch]
      BY <1>3, <2>1 DEF Clamped, At, Origin, Views
    <2>3. /\ c \in Views(a, b) /\ c.top = 0 /\ c.offset = 0 /\ c.follow = v.follow
          /\ c.typing = v.typing /\ c.query = v.query /\ c.sel = v.sel /\ c.match = NoMatch
      BY <1>2, <2>2 DEF Views
    <2>4. Rests(ViewPlace(c), v.follow, h, size)
      BY <1>3, <2>3 DEF Rests, ViewPlace, Origin
    <2>. QED
      BY <1>3, <2>1, <2>3, <2>4
  <1>4. CASE h # <<>>
    <2>. DEFINE last == FollowRow(h, size)
                own == RowOf(h, size.width, ViewPlace(v))
                row == IF v.follow THEN last ELSE Min({last, own})
                place == PlaceOf(h, size.width, row)
                match == IF v.match >= Len(h) THEN NoMatch ELSE v.match
    <2>1. size.width \in Widths
      BY SizesAre
    <2>2. last \in 1 .. Len(AllRows(h, size.width))
      BY <1>4, FollowIs
    <2>3. own \in 1 .. Len(AllRows(h, size.width)) /\ Len(AllRows(h, size.width)) \in Nat
      <3>1. ViewPlace(v).line \in Int /\ ViewPlace(v).offset \in Int
        BY DEF Views, ViewPlace
      <3>. QED
        BY <1>4, <2>1, <3>1, RowOfIs
    <2>4. Min({last, own}) = IF last <= own THEN last ELSE own
      <3>1. last \in Int /\ own \in Int
        BY <2>2, <2>3
      <3>. HIDE DEF last, own
      <3>. QED
        BY <3>1, MinOfTwo
    <2>5. Clamped(v, h, size) = [v EXCEPT !.top = place.line, !.offset = place.offset, !.match = match]
      <3>1. Clamped(v, h, size) = [At(v, place) EXCEPT !.match = IF @ >= Len(h) THEN NoMatch ELSE @]
        BY <1>4, Zenon DEF Clamped
      <3>. HIDE DEF place
      <3>2. At(v, place) = [v EXCEPT !.top = place.line, !.offset = place.offset]
        BY DEF At
      <3>. QED
        BY <3>1, <3>2 DEF Views
    <2>. HIDE DEF last, own
    <2>6. row \in 1 .. last /\ (v.follow => row = last) /\ (~v.follow /\ own <= last => row = own)
      BY <2>2, <2>3, <2>4
    <2>7. row \in 1 .. Len(AllRows(h, size.width))
      BY <2>2, <2>3, <2>6
    <2>. HIDE DEF row
    <2>8. place \in [line : 0 .. Len(h) - 1, offset : Nat]
      BY <2>1, <2>7, RowOfPlace
    <2>9. match \in Int
      BY <1>2 DEF Views
    <2>. HIDE DEF match, place
    <2>10. place.line \in Nat /\ place.offset \in Nat /\ place = [line |-> place.line, offset |-> place.offset]
      BY <1>1, <2>8
    <2>11. PICK c : c = Clamped(v, h, size)
      OBVIOUS
    <2>12. /\ c \in Views(a, b) /\ ViewPlace(c) = place
           /\ c.follow = v.follow /\ c.typing = v.typing
           /\ c.query = v.query /\ c.sel = v.sel /\ c.match = match
      BY <2>5, <2>9, <2>10, <2>11 DEF Views, ViewPlace
    <2>13. Rests(ViewPlace(c), v.follow, h, size)
      BY <1>4, <2>6, <2>12 DEF Rests, place, last
    <2>14. ~v.follow /\ own <= last => ViewPlace(c) = PlaceOf(h, size.width, own)
      BY <2>6, <2>12 DEF place
    <2>. QED
      BY <1>4, <2>11, <2>12, <2>13, <2>14 DEF last, own, match
  <1>. QED
    BY <1>3, <1>4

LEMMA ClampedGood ==
  ASSUME NEW h \in Histories, NEW size \in SizeSet, NEW first,
         NEW v \in Views(first, first + Len(h) - 1), Matches(v.match, v.query, h)
  PROVE  ViewGood(Clamped(v, h, size), h, first, size)
  <1>1. PICK c : c = Clamped(v, h, size)
    OBVIOUS
  <1>2. PICK b : b = first + Len(h) - 1
    OBVIOUS
  <1>3. v \in Views(first, b)
    BY <1>2
  <1>4. /\ c \in Views(first, b) /\ Rests(ViewPlace(c), v.follow, h, size)
        /\ c.follow = v.follow /\ c.query = v.query
        /\ c.match = IF h = <<>> \/ v.match >= Len(h) THEN NoMatch ELSE v.match
    BY <1>1, <1>3, ClampedIs
  <1>5. Matches(c.match, c.query, h)
    BY <1>4 DEF Matches
  <1>6. Rests(ViewPlace(c), c.follow, h, size)
    BY <1>4
  <1>. QED
    BY <1>1, <1>2, <1>4, <1>5, <1>6 DEF ViewGood

\* A good view with the query and the selection of v
Keeps(u, v, h, first, size) ==
  ViewGood(u, h, first, size) /\ u.query = v.query /\ u.sel = v.sel

LEMMA PausedGood ==
  ASSUME NEW h \in Histories, NEW size \in SizeSet, NEW first, NEW v, ViewGood(v, h, first, size)
  PROVE  Keeps(Paused(v, h, size), v, h, first, size)
  <1>. SUFFICES /\ ViewGood(Paused(v, h, size), h, first, size)
                /\ Paused(v, h, size).query = v.query
                /\ Paused(v, h, size).sel = v.sel
    BY DEF Keeps
  <1>1. v \in Views(first, first + Len(h) - 1) /\ Matches(v.match, v.query, h)
    BY DEF ViewGood
  <1>2. CASE ~v.follow
    <2>1. Paused(v, h, size) = v /\ v.follow = FALSE
      BY <1>1, <1>2 DEF Paused, Views
    <2>. QED
      BY <2>1
  <1>3. CASE v.follow
    <2>1. PICK c : c = Clamped(v, h, size)
      OBVIOUS
    <2>2. c.query = v.query /\ c.sel = v.sel
      BY <1>1, <2>1, ClampedIs
    <2>3. ViewGood(c, h, first, size)
      BY <1>1, <2>1, ClampedGood
    <2>4. Paused(v, h, size) = [c EXCEPT !.follow = FALSE]
      BY <1>3, <2>1 DEF Paused
    <2>5. PICK d : d = [c EXCEPT !.follow = FALSE]
      OBVIOUS
    <2>6. /\ d \in Views(first, first + Len(h) - 1) /\ ViewPlace(d) = ViewPlace(c)
          /\ d.follow = FALSE /\ d.match = c.match /\ d.query = c.query /\ d.sel = c.sel
      BY <2>3, <2>5 DEF ViewGood, Views, ViewPlace
    <2>7. Rests(ViewPlace(d), d.follow, h, size)
      BY <2>3, <2>6 DEF ViewGood, Rests
    <2>. QED
      BY <2>2, <2>3, <2>4, <2>5, <2>6, <2>7 DEF ViewGood
  <1>. QED
    BY <1>2, <1>3

-----------------------------------------------------------------------------
\* A history can always let enough go.
LEMMA EvictedIs ==
  ASSUME NEW h \in Histories, NEW line \in ToSet(LogLines)
  PROVE  Evicted(h, line) \in 0 .. Len(h) + 1
  <1>. DEFINE all == Append(h, line)
              N == Len(all)
              Is(f) == f = [n \in 0 .. N |-> IF n = N THEN 0 ELSE Len(all[n + 1].cells) + f[n + 1]]
              c == CHOOSE f : Is(f)
              S == {n \in 0 .. N : N - n <= Capacity /\ c[n] <= HistoryCells}
  <1>1. N = Len(h) + 1 /\ N \in Nat /\ all \in Histories
    BY DEF Histories
  <1>2. \E f : Is(f)
    <2>. DEFINE size == [n \in 1 .. N |-> Len(all[n].cells)]
                step == [n \in 1 .. N |-> [m \in Nat |-> size[N + 1 - n] + m]]
    <2>1. \A n \in 1 .. N : size[n] \in Nat
      <3>1. ASSUME NEW n \in 1 .. N PROVE all[n] \in ToSet(LogLines)
        BY <1>1 DEF Histories
      <3>. HIDE DEF all
      <3>. QED
        BY <3>1, LinesAre
    <2>. HIDE DEF N, size
    <2>2. \A n \in 1 .. N : N + 1 - n \in 1 .. N
      BY <1>1
    <2>3. step \in [1 .. N -> [Nat -> Nat]]
      BY <2>1, <2>2
    <2>4. PICK g : Folded(g, N, Nat, 0, step)
      <3>1. 0 \in Nat
        OBVIOUS
      <3>. HIDE DEF step
      <3>. QED
        BY <1>1, <2>3, <3>1, FoldExists
    <2>. DEFINE f == [n \in 0 .. N |-> g[N - n]]
    <2>5. ASSUME NEW n \in 0 .. N PROVE f[n] = IF n = N THEN 0 ELSE size[n + 1] + f[n + 1]
      <3>1. CASE n = N
        <4>1. N - n = 0
          BY <1>1, <3>1
        <4>2. g[0] = 0
          BY <2>4 DEF Folded
        <4>. QED
          BY <3>1, <4>1, <4>2
      <3>2. CASE n # N
        <4>1. PICK m \in 1 .. N : m = N - n /\ m - 1 = N - (n + 1) /\ n + 1 = N + 1 - m /\ n + 1 \in 0 .. N
          <5>1. /\ N - n \in 1 .. N /\ (N - n) - 1 = N - (n + 1)
                /\ n + 1 = N + 1 - (N - n) /\ n + 1 \in 0 .. N
            BY <1>1, <3>2
          <5>. QED
            BY <5>1
        <4>2. g[m] = step[m][g[m - 1]] /\ g[m - 1] \in Nat
          <5>1. m - 1 \in 0 .. N
            BY <1>1
          <5>. HIDE DEF step
          <5>. QED
            BY <2>4, <5>1 DEF Folded
        <4>3. step[m][g[m - 1]] = size[N + 1 - m] + g[m - 1]
          BY <4>2
        <4>4. f[n] = g[m] /\ f[n + 1] = g[m - 1]
          BY <4>1
        <4>. QED
          BY <3>2, <4>1, <4>2, <4>3, <4>4, Zenon
      <3>. QED
        BY <3>1, <3>2
    <2>6. ASSUME NEW n \in 0 .. N, n # N PROVE size[n + 1] = Len(all[n + 1].cells)
      <3>1. n + 1 \in 1 .. N
        BY <1>1, <2>6
      <3>. QED
        BY <3>1 DEF size
    <2>7. \A n \in 0 .. N : f[n] = IF n = N THEN 0 ELSE Len(all[n + 1].cells) + f[n + 1]
      <3>. HIDE DEF f
      <3>. QED
        BY <2>5, <2>6
    <2>8. Is(f)
      <3>1. f = [n \in 0 .. N |-> f[n]]
        OBVIOUS
      <3>. HIDE DEF f
      <3>. QED
        BY <2>7, <3>1
    <2>. HIDE DEF f, Is
    <2>. QED
      BY <2>8
  <1>3. Is(c)
    BY <1>2, Zenon
  <1>4. Evicted(h, line) = Min(S)
    BY Zenon DEF Evicted
  <1>. HIDE DEF c
  <1>5. c[N] = 0
    <2>1. N \in 0 .. N
      BY <1>1
    <2>. HIDE DEF N
    <2>. QED
      BY <1>3, <2>1
  <1>. HIDE DEF N, Is
  <1>6. N \in S
    <2>1. Capacity \in Nat /\ HistoryCells \in Nat
      BY DashAssumption
    <2>. QED
      BY <1>1, <1>5, <2>1
  <1>7. S \in SUBSET Int /\ (\A x \in S : 0 <= x) /\ S # {} /\ \A x \in S : x \in 0 .. N
    BY <1>1, <1>6
  <1>. HIDE DEF S
  <1>8. Smallest(S, Min(S))
    <2>1. 0 \in Int
      OBVIOUS
    <2>. QED
      BY <1>7, <2>1, MinIs, Zenon
  <1>. QED
    BY <1>1, <1>4, <1>7, <1>8 DEF Smallest

\* The rows of a history s that is h without its e oldest lines
Shortened(h, w, e, s) ==
  /\ s \in Histories /\ Len(s) = Len(h) - e
  /\ \A k \in 0 .. Len(h) - e : Before(h, w, e + k) = Before(h, w, e) + Before(s, w, k)
  /\ \A k \in 0 .. Len(h) - e - 1 : Frags(s, w, k) = Frags(h, w, e + k)

LEMMA BeforeShort ==
  ASSUME NEW h \in Histories, NEW w \in Widths, NEW e \in 0 .. Len(h)
  PROVE  Shortened(h, w, e, SubSeq(h, e + 1, Len(h)))
  <1>. DEFINE s == SubSeq(h, e + 1, Len(h))
  <1>1. PICK n \in Nat : n = Len(h)
    BY DEF Histories
  <1>2. e \in 0 .. n
    BY <1>1
  <1>3. s \in Histories /\ Len(s) = n - e /\ \A i \in 1 .. n - e : s[i] = h[(e + 1) + i - 1]
    <2>1. PICK a \in Nat : a = e + 1
      BY <1>2
    <2>2. a >= 1 /\ n <= Len(h) /\ a <= n + 1 /\ n + 1 - a = n - e /\ s = SubSeq(h, a, n)
      BY <1>1, <1>2, <2>1
    <2>. HIDE DEF s
    <2>3. /\ s \in Histories /\ Len(s) = n + 1 - a
          /\ \A i \in 1 .. n + 1 - a : s[i] = h[a + i - 1]
      BY <2>2, HistoriesShort
    <2>. QED
      BY <2>1, <2>2, <2>3
  <1>. HIDE DEF s
  <1>4. ASSUME NEW k \in 0 .. n - e - 1 PROVE Frags(s, w, k) = Frags(h, w, e + k)
    <2>1. k + 1 \in 1 .. n - e /\ (e + 1) + (k + 1) - 1 = (e + k) + 1
      BY <1>2
    <2>2. s[k + 1] = h[(e + k) + 1]
      BY <1>3, <2>1
    <2>. QED
      BY <2>2 DEF Frags
  <1>. DEFINE m == n - e
              Q == {k \in 0 .. m : Before(h, w, e + k) = Before(h, w, e) + Before(s, w, k)}
  <1>5. m \in Nat /\ e \in Nat
    BY <1>2
  <1>6. 0 \in Q
    <2>1. Before(s, w, 0) = 0 /\ Before(h, w, e) \in Nat
      BY <1>3, BeforeMore
    <2>. QED
      BY <1>5, <2>1
  <1>7. ASSUME NEW k \in 1 .. m, k - 1 \in Q PROVE k \in Q
    <2>1. PICK j \in 0 .. m - 1 : j = k - 1 /\ k = j + 1 /\ (e + j) + 1 = e + k
      BY <1>5
    <2>2. e + j \in 0 .. n - 1 /\ j \in 0 .. Len(s) - 1 /\ j \in 0 .. m
      BY <1>2, <1>3
    <2>3. Before(h, w, e + k) = Before(h, w, e + j) + Len(Frags(h, w, e + j))
      BY <1>1, <2>1, <2>2, BeforeMore
    <2>4. Before(s, w, k) = Before(s, w, j) + Len(Frags(s, w, j))
      BY <1>3, <2>1, <2>2, BeforeMore
    <2>5. Frags(s, w, j) = Frags(h, w, e + j)
      BY <1>4
    <2>6. Before(h, w, e + j) = Before(h, w, e) + Before(s, w, j)
      BY <1>7, <2>1
    <2>7. Before(h, w, e) \in Nat /\ Before(s, w, j) \in Nat /\ Len(Frags(s, w, j)) \in Nat
      BY <1>1, <1>3, <2>2, BeforeMore, FragsAre
    <2>. HIDE DEF m
    <2>. QED
      BY <2>3, <2>4, <2>5, <2>6, <2>7
  <1>8. \A k \in 0 .. m : k \in Q
    <2>. HIDE DEF Q, m
    <2>. QED
      BY <1>5, <1>6, <1>7, Upward
  <1>. HIDE DEF Q
  <1>9. \A k \in 0 .. n - e : Before(h, w, e + k) = Before(h, w, e) + Before(s, w, k)
    BY <1>8 DEF Q
  <1>10. Shortened(h, w, e, s)
    BY <1>1, <1>3, <1>4, <1>9 DEF Shortened
  <1>. QED
    BY <1>10 DEF s

\* The rows of a history with one more line
LEMMA BeforeLonger ==
  ASSUME NEW h \in Histories, NEW w \in Widths, NEW x \in ToSet(LogLines)
  PROVE  /\ Append(h, x) \in Histories /\ Len(Append(h, x)) = Len(h) + 1
         /\ \A l \in 0 .. Len(h) : Before(Append(h, x), w, l) = Before(h, w, l)
         /\ \A l \in 0 .. Len(h) - 1 : Frags(Append(h, x), w, l) = Frags(h, w, l)
  <1>1. PICK g : g = Append(h, x)
    OBVIOUS
  <1>2. g \in Histories /\ Len(g) = Len(h) + 1 /\ Len(h) \in Nat /\ \A i \in 1 .. Len(h) : g[i] = h[i]
    BY <1>1 DEF Histories
  <1>3. ASSUME NEW l \in 0 .. Len(h) PROVE Before(g, w, l) = Before(h, w, l)
    <2>1. l \in Nat /\ l <= Len(g) /\ l <= Len(h)
      BY <1>2
    <2>2. /\ SubSeq(g, 1, l) \in Histories /\ Len(SubSeq(g, 1, l)) = l
          /\ \A i \in 1 .. l : SubSeq(g, 1, l)[i] = g[i]
      BY <1>2, <2>1, HistoriesShort
    <2>3. /\ SubSeq(h, 1, l) \in Histories /\ Len(SubSeq(h, 1, l)) = l
          /\ \A i \in 1 .. l : SubSeq(h, 1, l)[i] = h[i]
      BY <1>2, <2>1, HistoriesShort
    <2>4. \A i \in 1 .. l : SubSeq(g, 1, l)[i] = SubSeq(h, 1, l)[i]
      <3>1. \A i \in 1 .. l : i \in 1 .. Len(h)
        BY <1>2
      <3>. QED
        BY <1>2, <2>2, <2>3, <3>1
    <2>5. SubSeq(g, 1, l) = SubSeq(h, 1, l)
      BY <2>2, <2>3, <2>4 DEF Histories
    <2>. QED
      BY <2>5 DEF Before
  <1>4. ASSUME NEW l \in 0 .. Len(h) - 1 PROVE Frags(g, w, l) = Frags(h, w, l)
    <2>1. l + 1 \in 1 .. Len(h)
      BY <1>2
    <2>. QED
      BY <1>2, <2>1 DEF Frags
  <1>. QED
    BY <1>1, <1>2, <1>3, <1>4

-----------------------------------------------------------------------------
\* A history after one more line, of which the first e lines are let go
After(h, x, e) == SubSeq(Append(h, x), e + 1, Len(h) + 1)

LEMMA AfterIs ==
  ASSUME NEW h \in Histories, NEW x \in ToSet(LogLines), NEW e \in 0 .. Len(h) + 1
  PROVE  /\ After(h, x, e) \in Histories /\ Len(After(h, x, e)) = Len(h) + 1 - e
         /\ \A i \in 1 .. Len(h) + 1 - e :
              After(h, x, e)[i] = IF e + i = Len(h) + 1 THEN x ELSE h[e + i]
  <1>1. PICK g : g = Append(h, x)
    OBVIOUS
  <1>2. PICK n \in Nat : n = Len(h)
    BY DEF Histories
  <1>3. /\ g \in Histories /\ Len(g) = n + 1
        /\ \A i \in 1 .. n + 1 : g[i] = IF i = n + 1 THEN x ELSE h[i]
    BY <1>1, <1>2 DEF Histories
  <1>4. PICK a \in Nat : a = e + 1
    BY <1>2
  <1>5. PICK b \in Nat : b = n + 1
    OBVIOUS
  <1>6. PICK s : s = SubSeq(g, a, b)
    OBVIOUS
  <1>7. a >= 1 /\ b <= Len(g) /\ a <= b + 1 /\ b + 1 - a = n + 1 - e
    BY <1>2, <1>3, <1>4, <1>5
  <1>8. s \in Histories /\ Len(s) = b + 1 - a /\ \A i \in 1 .. b + 1 - a : s[i] = g[a + i - 1]
    BY <1>3, <1>6, <1>7, HistoriesShort
  <1>9. s = After(h, x, e)
    BY <1>1, <1>2, <1>4, <1>5, <1>6 DEF After
  <1>10. ASSUME NEW i \in 1 .. n + 1 - e PROVE s[i] = IF e + i = n + 1 THEN x ELSE h[e + i]
    <2>1. a + i - 1 = e + i /\ e + i \in 1 .. n + 1
      BY <1>2, <1>4
    <2>2. s[i] = g[e + i]
      BY <1>7, <1>8, <2>1
    <2>. QED
      BY <1>3, <2>1, <2>2
  <1>. QED
    BY <1>2, <1>7, <1>8, <1>9, <1>10

LEMMA AfterAppendIs ==
  ASSUME NEW h \in Histories, NEW first \in Nat, NEW v \in Views(first, first + Len(h) - 1),
         NEW e \in 0 .. Len(h) + 1
  PROVE  /\ AfterAppend(v, first + e, e) \in Views(first + e, first + Len(h))
         /\ AfterAppend(v, first + e, e).follow = v.follow
         /\ AfterAppend(v, first + e, e).query = v.query
         /\ AfterAppend(v, first + e, e).match = IF v.match < e THEN NoMatch ELSE v.match - e
         /\ ViewPlace(AfterAppend(v, first + e, e)) =
              IF v.top < e THEN Origin ELSE [line |-> v.top - e, offset |-> v.offset]
  <1>1. PICK n \in Nat : n = Len(h)
    BY DEF Histories
  <1>2. PICK first2 : first2 = first + e
    OBVIOUS
  <1>. DEFINE moved == IF v.top < e THEN At(v, Origin) ELSE [v EXCEPT !.top = @ - e]
              found == IF v.match < e THEN NoMatch ELSE v.match - e
              gone == v.sel.valid /\ (v.sel.anchor.seq < first2 \/ v.sel.focus.seq < first2)
              sel == IF gone THEN Nothing ELSE v.sel
              m == AfterAppend(v, first2, e)
              top == IF v.top < e THEN 0 ELSE v.top - e
              offset == IF v.top < e THEN 0 ELSE v.offset
  <1>3. found \in Int /\ top \in Nat /\ offset \in Nat
    BY <1>1 DEF Views, NoMatch
  <1>4. sel \in Selections(first2, first + n)
    <2>1. v.sel \in Selections(first, first + n - 1)
      BY <1>1 DEF Views
    <2>2. CASE v.sel = Nothing
      BY <2>2 DEF Selections, Nothing
    <2>3. CASE v.sel # Nothing
      <3>1. PICK s : s = v.sel
        OBVIOUS
      <3>2. s \in [valid : {TRUE}, active : BOOLEAN, anchor : Points(first, first + n - 1),
                   focus : Points(first, first + n - 1), edge : Int, column : Int]
        BY <2>1, <2>3, <3>1 DEF Selections
      <3>3. CASE s.anchor.seq < first2 \/ s.focus.seq < first2
        BY <3>1, <3>2, <3>3 DEF Selections
      <3>4. CASE ~(s.anchor.seq < first2 \/ s.focus.seq < first2)
        <4>1. sel = s
          BY <3>1, <3>4
        <4>2. s.anchor \in Points(first2, first + n)
          <5>1. s.anchor \in Points(first, first + n - 1)
            BY <3>2
          <5>. QED
            BY <1>1, <1>2, <3>4, <5>1 DEF Points
        <4>3. s.focus \in Points(first2, first + n)
          <5>1. s.focus \in Points(first, first + n - 1)
            BY <3>2
          <5>. QED
            BY <1>1, <1>2, <3>4, <5>1 DEF Points
        <4>. QED
          BY <3>2, <4>1, <4>2, <4>3 DEF Selections
      <3>. QED
        BY <3>3, <3>4
    <2>. QED
      BY <2>2, <2>3
  <1>5. m = [v EXCEPT !.top = top, !.offset = offset, !.match = found, !.sel = sel]
    <2>1. m = [moved EXCEPT !.match = found, !.sel = IF gone THEN Nothing ELSE @]
      BY Zenon DEF AfterAppend
    <2>. HIDE DEF m, found, gone
    <2>2. moved = [v EXCEPT !.top = top, !.offset = offset]
      <3>1. CASE v.top < e
        BY <3>1 DEF At, Origin
      <3>2. CASE ~(v.top < e)
        BY <3>2 DEF Views
      <3>. QED
        BY <3>1, <3>2
    <2>3. m = [[v EXCEPT !.top = top, !.offset = offset] EXCEPT !.match = found, !.sel = IF gone THEN Nothing ELSE @]
      BY <2>1, <2>2
    <2>. HIDE DEF top, offset, moved
    <2>. QED
      BY <2>3 DEF Views
  <1>6. PICK c : c = m
    OBVIOUS
  <1>. HIDE DEF m, moved, found, gone, sel, top, offset
  <1>7. v \in [follow : BOOLEAN, top : Nat, offset : Nat, typing : BOOLEAN, query : BOOLEAN, match : Int,
               sel : Selections(first, first + n - 1)]
    BY <1>1 DEF Views
  <1>8. /\ c \in Views(first2, first + n)
        /\ c.follow = v.follow /\ c.query = v.query /\ c.match = found
        /\ c.top = top /\ c.offset = offset
    BY <1>3, <1>4, <1>5, <1>6, <1>7 DEF Views
  <1>9. ViewPlace(c) = IF v.top < e THEN Origin ELSE [line |-> v.top - e, offset |-> v.offset]
    BY <1>8 DEF ViewPlace, Origin, top, offset
  <1>. QED
    BY <1>1, <1>2, <1>6, <1>8, <1>9 DEF m, found

\* The match of the view stays the line it is.
LEMMA AfterMatches ==
  ASSUME NEW h \in Histories, NEW x \in ToSet(LogLines), NEW e \in 0 .. Len(h) + 1,
         NEW match \in Int, NEW query, Matches(match, query, h)
  PROVE  Matches(IF match < e THEN NoMatch ELSE match - e, query, After(h, x, e))
  <1>1. CASE match < e \/ match = NoMatch
    <2>1. (IF match < e THEN NoMatch ELSE match - e) = NoMatch
      BY <1>1 DEF NoMatch
    <2>. QED
      BY <2>1 DEF Matches
  <1>2. CASE ~(match < e \/ match = NoMatch)
    <2>1. PICK n \in Nat : n = Len(h)
      BY DEF Histories
    <2>2. query /\ match \in 0 .. n - 1 /\ h[match + 1].hits # {}
      BY <1>2, <2>1 DEF Matches
    <2>3. PICK i \in 1 .. n + 1 - e : i = match - e + 1 /\ e + i = match + 1 /\ e + i # n + 1 /\ match - e \in 0 .. n + 1 - e - 1
      <3>1. /\ match - e + 1 \in 1 .. n + 1 - e /\ e + (match - e + 1) = match + 1
            /\ e + (match - e + 1) # n + 1 /\ match - e \in 0 .. n + 1 - e - 1
        BY <1>2, <2>1, <2>2
      <3>. QED
        BY <3>1
    <2>4. Len(After(h, x, e)) = n + 1 - e /\ After(h, x, e)[i] = h[match + 1]
      BY <2>1, <2>3, AfterIs
    <2>. QED
      BY <1>2, <2>2, <2>3, <2>4 DEF Matches
  <1>. QED
    BY <1>1, <1>2

-----------------------------------------------------------------------------
\* A row of the history is, after one more line, as much higher as there were
\* rows in what was let go, and at least one row comes below it.
LEMMA RowsAfter ==
  ASSUME NEW h \in Histories, NEW w \in Widths, NEW x \in ToSet(LogLines), NEW e \in 0 .. Len(h),
         NEW l \in e .. Len(h) - 1
  PROVE  /\ l - e \in 0 .. Len(After(h, x, e)) - 1
         /\ Frags(After(h, x, e), w, l - e) = Frags(h, w, l)
         /\ \A i \in Nat : RowNumber(h, w, l, i) = Before(h, w, e) + RowNumber(After(h, x, e), w, l - e, i)
         /\ Len(AllRows(h, w)) < Before(h, w, e) + Len(AllRows(After(h, x, e), w))
         /\ Before(h, w, e) \in Nat
  <1>1. PICK g, s : g = Append(h, x) /\ s = After(h, x, e)
    OBVIOUS
  <1>2. PICK n \in Nat : n = Len(h)
    BY DEF Histories
  <1>3. /\ g \in Histories /\ Len(g) = n + 1
        /\ \A k \in 0 .. n : Before(g, w, k) = Before(h, w, k)
        /\ \A k \in 0 .. n - 1 : Frags(g, w, k) = Frags(h, w, k)
    BY <1>1, <1>2, BeforeLonger
  <1>4. /\ s \in Histories /\ Len(s) = n + 1 - e
        /\ \A k \in 0 .. n + 1 - e : Before(g, w, e + k) = Before(g, w, e) + Before(s, w, k)
        /\ \A k \in 0 .. n + 1 - e - 1 : Frags(s, w, k) = Frags(g, w, e + k)
    <2>1. s = SubSeq(g, e + 1, Len(g)) /\ e \in 0 .. Len(g)
      BY <1>1, <1>2, <1>3 DEF After
    <2>2. /\ s \in Histories /\ Len(s) = Len(g) - e
          /\ \A k \in 0 .. Len(g) - e : Before(g, w, e + k) = Before(g, w, e) + Before(s, w, k)
          /\ \A k \in 0 .. Len(g) - e - 1 : Frags(s, w, k) = Frags(g, w, e + k)
      <3>1. Shortened(g, w, e, SubSeq(g, e + 1, Len(g)))
        BY <1>3, <2>1, BeforeShort, Zenon
      <3>. QED
        BY <2>1, <3>1, Zenon DEF Shortened
    <2>. QED
      BY <1>3, <2>2
  <1>5. PICK k \in 0 .. n - e - 1 : k = l - e /\ e + k = l /\ k \in 0 .. n + 1 - e - 1 /\ k \in 0 .. n + 1 - e
    <2>1. l - e \in 0 .. n - e - 1 /\ e + (l - e) = l /\ l - e \in 0 .. n + 1 - e - 1 /\ l - e \in 0 .. n + 1 - e
      BY <1>2
    <2>. QED
      BY <2>1
  <1>6. Frags(s, w, k) = Frags(h, w, l)
    BY <1>2, <1>3, <1>4, <1>5
  <1>7. Before(h, w, l) = Before(h, w, e) + Before(s, w, k)
    <2>1. l \in 0 .. n /\ e \in 0 .. n
      BY <1>2
    <2>. QED
      BY <1>3, <1>4, <1>5, <2>1
  <1>8. Before(h, w, e) \in Nat /\ Before(s, w, k) \in Nat
    <2>1. e \in 0 .. Len(h) /\ k \in 0 .. Len(s)
      BY <1>4, <1>5
    <2>. QED
      BY <1>4, <2>1, BeforeMore
  <1>9. \A i \in Nat : RowNumber(h, w, l, i) = Before(h, w, e) + RowNumber(s, w, k, i)
    BY <1>7, <1>8 DEF RowNumber
  <1>10. Len(AllRows(h, w)) < Before(h, w, e) + Len(AllRows(s, w))
    <2>1. /\ Len(AllRows(h, w)) = Before(h, w, n) /\ Len(AllRows(s, w)) = Before(s, w, n + 1 - e)
          /\ Before(g, w, n + 1) = Before(g, w, n) + Len(Frags(g, w, n))
      <3>1. Len(AllRows(h, w)) = Before(h, w, n)
        BY <1>2, BeforeMore
      <3>2. Len(AllRows(s, w)) = Before(s, w, n + 1 - e)
        BY <1>4, BeforeMore
      <3>3. n \in 0 .. Len(g) - 1
        BY <1>3
      <3>. QED
        BY <1>3, <3>1, <3>2, <3>3, BeforeMore
    <2>2. Len(Frags(g, w, n)) \in Nat /\ Len(Frags(g, w, n)) >= 1
      <3>1. n \in 0 .. Len(g) - 1
        BY <1>3
      <3>. QED
        BY <1>3, <3>1, FragsAre
    <2>3. Before(g, w, n + 1) = Before(g, w, e) + Before(s, w, n + 1 - e)
      <3>1. n + 1 - e \in 0 .. n + 1 - e /\ e + (n + 1 - e) = n + 1
        BY <1>2
      <3>. QED
        BY <1>4, <3>1
    <2>4. Before(g, w, n) = Before(h, w, n) /\ Before(g, w, e) = Before(h, w, e)
      BY <1>2, <1>3
    <2>5. Before(h, w, n) \in Nat
      BY <1>2, BeforeMore
    <2>. QED
      BY <2>1, <2>2, <2>3, <2>4, <2>5
  <1>. QED
    BY <1>1, <1>2, <1>4, <1>5, <1>6, <1>8, <1>9, <1>10

LEMMA StillFollows ==
  ASSUME NEW R \in Nat, NEW N \in Nat, NEW N2 \in Nat, NEW B \in Nat, NEW q \in Nat, NEW r \in Nat,
         q >= 1, r = B + q, N < B + N2, r <= IF 1 <= N - R + 1 THEN N - R + 1 ELSE 1
  PROVE  q <= IF 1 <= N2 - R + 1 THEN N2 - R + 1 ELSE 1
  <1>1. CASE 1 <= N - R + 1
    BY <1>1
  <1>2. CASE ~(1 <= N - R + 1)
    BY <1>2
  <1>. QED
    BY <1>1, <1>2

\* A paused view keeps its place under one more line.
LEMMA PausedTake ==
  ASSUME NEW h \in Histories, NEW size \in SizeSet, NEW first \in Nat, NEW x \in ToSet(LogLines),
         NEW e \in 0 .. Len(h) + 1, NEW v, ViewGood(v, h, first, size), ~v.follow, h # <<>>,
         NEW c, c = Clamped(AfterAppend(v, first + e, e), After(h, x, e), size)
  PROVE  IF e <= v.top THEN c.top = v.top - e /\ c.offset = v.offset ELSE ViewPlace(c) = Origin
  <1>1. PICK n \in Nat : n = Len(h)
    BY DEF Histories
  <1>2. PICK s, m : s = After(h, x, e) /\ m = AfterAppend(v, first + e, e)
    OBVIOUS
  <1>3. PICK w \in Widths : w = size.width
    BY SizesAre
  <1>4. v \in Views(first, first + n - 1) /\ v.top \in Nat /\ v.offset \in Nat
    BY <1>1 DEF ViewGood, Views
  <1>5. s \in Histories
    BY <1>2, AfterIs
  <1>6. /\ m \in Views(first + e, first + n) /\ ~m.follow
        /\ ViewPlace(m) = IF v.top < e THEN Origin ELSE [line |-> v.top - e, offset |-> v.offset]
    BY <1>1, <1>2, <1>4, AfterAppendIs
  <1>7. /\ Rests(ViewPlace(c), m.follow, s, size)
        /\ s # <<>> /\ RowOf(s, w, ViewPlace(m)) <= FollowRow(s, size) =>
             ViewPlace(c) = PlaceOf(s, w, RowOf(s, w, ViewPlace(m)))
    BY <1>2, <1>3, <1>5, <1>6, ClampedIs
  <1>8. CASE ~(e <= v.top)
    <2>1. ViewPlace(m) = Origin
      BY <1>1, <1>4, <1>6, <1>8
    <2>2. CASE s = <<>>
      BY <1>7, <1>8, <2>2 DEF Rests
    <2>3. CASE s # <<>>
      <3>1. PlaceOf(s, w, 1) = Origin /\ RowOf(s, w, Origin) = 1
        BY <1>5, <2>3, FirstRow
      <3>2. 1 <= FollowRow(s, size)
        <4>1. FollowRow(s, size) \in 1 .. Len(AllRows(s, size.width))
          BY <1>5, <2>3, FollowIs
        <4>. QED
          BY <4>1
      <3>. QED
        BY <1>7, <1>8, <2>1, <2>3, <3>1, <3>2
    <2>. QED
      BY <2>2, <2>3
  <1>9. CASE e <= v.top
    <2>1. PICK r \in 1 .. FollowRow(h, size) : ViewPlace(v) = PlaceOf(h, w, r)
      BY <1>3 DEF ViewGood, Rests
    <2>2. PICK N, N2, B : N = Len(AllRows(h, w)) /\ N2 = Len(AllRows(s, w)) /\ B = Before(h, w, e)
      OBVIOUS
    <2>3. /\ FollowRow(h, size) \in 1 .. N
          /\ FollowRow(h, size) = IF 1 <= N - size.rows + 1 THEN N - size.rows + 1 ELSE 1
          /\ N \in Nat /\ size.rows \in Nat
      BY <1>3, <2>2, FollowIs, FirstRow, SizesAre
    <2>4. r \in 1 .. Len(AllRows(h, w))
      BY <2>2, <2>3
    <2>5. PICK l \in 0 .. n - 1 : \E i \in 1 .. Len(Frags(h, w, l)) : r = RowNumber(h, w, l, i)
      BY <1>1, <2>4, FragmentOfRow
    <2>6. PICK i \in 1 .. Len(Frags(h, w, l)) : r = RowNumber(h, w, l, i)
      BY <2>5
    <2>7. ViewPlace(v) = [line |-> l, offset |-> Frags(h, w, l)[i].start]
      <3>1. PlaceOf(h, w, RowNumber(h, w, l, i)) = [line |-> l, offset |-> Frags(h, w, l)[i].start]
        BY <1>1, <2>6, PlaceOfIs
      <3>. QED
        BY <2>1, <2>6, <3>1
    <2>8. v.top = l /\ v.offset = Frags(h, w, l)[i].start
      BY <2>7 DEF ViewPlace
    <2>9. e \in 0 .. n /\ l \in e .. n - 1 /\ i \in Nat
      <3>1. Len(Frags(h, w, l)) \in Nat
        BY <1>1, FragsAre
      <3>2. i \in Nat
        BY <2>6, <3>1
      <3>3. e <= l
        BY <1>9, <2>8
      <3>4. e \in Nat /\ l \in 0 .. n - 1
        BY <1>1
      <3>. QED
        BY <3>2, <3>3, <3>4
    <2>10. /\ l - e \in 0 .. Len(s) - 1
           /\ Frags(s, w, l - e) = Frags(h, w, l)
           /\ RowNumber(h, w, l, i) = B + RowNumber(s, w, l - e, i)
           /\ N < B + N2 /\ B \in Nat
      <3>1. e \in 0 .. Len(h) /\ l \in e .. Len(h) - 1
        BY <1>1, <2>9
      <3>2. /\ l - e \in 0 .. Len(s) - 1
            /\ Frags(s, w, l - e) = Frags(h, w, l)
            /\ Len(AllRows(h, w)) < Before(h, w, e) + Len(AllRows(s, w)) /\ Before(h, w, e) \in Nat
        BY <1>2, <3>1, RowsAfter
      <3>3. \A j \in Nat : RowNumber(h, w, l, j) = Before(h, w, e) + RowNumber(s, w, l - e, j)
        BY <1>2, <3>1, RowsAfter
      <3>. QED
        BY <2>2, <2>9, <3>2, <3>3
    <2>11. s # <<>>
      BY <1>5, <2>10 DEF Histories
    <2>12. PICK k \in 0 .. Len(s) - 1 : k = l - e
      BY <2>10
    <2>13. PICK q : q = RowNumber(s, w, k, i)
      OBVIOUS
    <2>14. i \in 1 .. Len(Frags(s, w, k))
      BY <2>6, <2>10, <2>12
    <2>15. /\ PlaceOf(s, w, q) = [line |-> k, offset |-> Frags(s, w, k)[i].start]
           /\ RowOf(s, w, [line |-> k, offset |-> Frags(s, w, k)[i].start]) = q
      BY <1>5, <2>12, <2>13, <2>14, PlaceOfIs
    <2>16. q \in 1 .. N2
      BY <1>5, <2>2, <2>12, <2>13, <2>14, RowOfFragment
    <2>17. /\ N2 \in Nat
           /\ FollowRow(s, size) = IF 1 <= N2 - size.rows + 1 THEN N2 - size.rows + 1 ELSE 1
      BY <1>3, <1>5, <2>2, <2>11, FollowIs, FirstRow
    <2>18. r = B + q
      BY <2>6, <2>10, <2>12, <2>13
    <2>19. q <= FollowRow(s, size)
      <3>1. PICK R \in Nat : R = size.rows
        BY <2>3
      <3>2. N \in Nat /\ N2 \in Nat /\ B \in Nat
        BY <2>3, <2>10, <2>17
      <3>3. q \in Nat /\ r \in Nat /\ q >= 1 /\ r = B + q /\ N < B + N2
        BY <2>3, <2>10, <2>16, <2>18
      <3>4. r <= IF 1 <= N - R + 1 THEN N - R + 1 ELSE 1
        BY <2>3, <3>1
      <3>5. q <= IF 1 <= N2 - R + 1 THEN N2 - R + 1 ELSE 1
        BY <3>2, <3>3, <3>4, StillFollows, Zenon
      <3>. QED
        BY <2>17, <3>1, <3>5
    <2>20. ViewPlace(m) = [line |-> k, offset |-> Frags(s, w, k)[i].start]
      <3>1. ~(v.top < e) /\ v.top - e = k
        BY <1>9, <2>8, <2>9, <2>12
      <3>. QED
        BY <1>6, <2>8, <2>10, <2>12, <3>1
    <2>21. ViewPlace(c) = [line |-> k, offset |-> Frags(s, w, k)[i].start]
      BY <1>7, <2>11, <2>15, <2>19, <2>20
    <2>22. c.top = k /\ c.offset = Frags(s, w, k)[i].start
      BY <2>21 DEF ViewPlace
    <2>. QED
      BY <1>9, <2>8, <2>10, <2>12, <2>22
  <1>. QED
    BY <1>8, <1>9

-----------------------------------------------------------------------------
\* The history holds the lines after the first ones.
HistoryAt(h, first) ==
  /\ h \in Histories /\ first \in Nat /\ first + Len(h) <= Len(LogLines)
  /\ \A i \in 1 .. Len(h) : h[i] = LogLines[first + i]

\* A row on the screen is a fragment of a line, whether or not the line is still kept.
VisibleRow(row, h, first, w) ==
  \E l \in 0 .. Len(h) - 1 : \E i \in 1 .. Len(Frags(h, w, l)) :
    row = [seq |-> first + l, offset |-> Frags(h, w, l)[i].start, end |-> Frags(h, w, l)[i].end]

DrawnRow(row, w) == VisibleRow(row, LogLines, 0, w)

\* What is shown of the rows from one on
ShownFrom(rows, all, from, first, R) ==
  /\ from \in 1 .. Len(all) /\ Len(all) \in Nat /\ DOMAIN rows = 1 .. Len(rows)
  /\ Len(rows) = IF Len(all) <= from + R - 1 THEN Len(all) - from + 1 ELSE R
  /\ \A r \in 1 .. Len(rows) :
       /\ from + r - 1 \in 1 .. Len(all)
       /\ rows[r] = [seq |-> first + all[from + r - 1].line, offset |-> all[from + r - 1].offset,
                     end |-> all[from + r - 1].end]

LEMMA VisibleAre ==
  ASSUME NEW h \in Histories, NEW first \in Nat, NEW size \in SizeSet, NEW place,
         place.line \in Int, place.offset \in Int, h # <<>>
  PROVE  ShownFrom(VisibleRows(h, first, place, size), AllRows(h, size.width),
                   RowOf(h, size.width, place), first, size.rows)
  <1>0. PICK rows, from, n : /\ rows = VisibleRows(h, first, place, size)
                             /\ from = RowOf(h, size.width, place) /\ n = Len(AllRows(h, size.width))
    OBVIOUS
  <1>1. h \in Histories /\ size.width \in Widths /\ size.rows \in Nat /\ size.rows >= 1
    BY SizesAre
  <1>2. from \in 1 .. n /\ n \in Nat
    BY <1>0, <1>1, RowOfIs
  <1>3. PICK to : to = Min({n, from + size.rows - 1})
    OBVIOUS
  <1>4. to = IF n <= from + size.rows - 1 THEN n ELSE from + size.rows - 1
    <2>1. n \in Int /\ from + size.rows - 1 \in Int
      BY <1>1, <1>2
    <2>. QED
      BY <1>3, <2>1, MinOfTwo
  <1>5. to \in Nat /\ from <= to /\ to <= n
    BY <1>1, <1>2, <1>4
  <1>6. PICK all : all = AllRows(h, size.width)
    OBVIOUS
  <1>7. all \in Seq(RowType) /\ Len(all) = n
    BY <1>0, <1>1, <1>6, BeforeMore
  <1>8. PICK s : s = SubSeq(all, from, to)
    OBVIOUS
  <1>9. /\ Len(s) = to - from + 1 /\ DOMAIN s = 1 .. Len(s)
        /\ \A r \in 1 .. Len(s) : s[r] = all[from + r - 1]
    BY <1>2, <1>5, <1>7, <1>8
  <1>10. rows = [i \in DOMAIN s |-> [seq |-> first + s[i].line, offset |-> s[i].offset, end |-> s[i].end]]
    BY <1>0, <1>3, <1>6, <1>7, <1>8, Zenon DEF VisibleRows
  <1>11. Len(s) \in Nat
    BY <1>2, <1>5, <1>9
  <1>12. Len(rows) = Len(s) /\ DOMAIN rows = 1 .. Len(rows)
    BY <1>9, <1>10, <1>11
  <1>13. Len(rows) = IF n <= from + size.rows - 1 THEN n - from + 1 ELSE size.rows
    BY <1>1, <1>2, <1>4, <1>9, <1>12
  <1>14. ASSUME NEW r \in 1 .. Len(rows)
         PROVE  /\ from + r - 1 \in 1 .. n
                /\ rows[r] = [seq |-> first + all[from + r - 1].line, offset |-> all[from + r - 1].offset,
                              end |-> all[from + r - 1].end]
    <2>1. r \in 1 .. Len(s) /\ r \in DOMAIN s
      BY <1>9, <1>12
    <2>2. from + r - 1 \in 1 .. n
      BY <1>2, <1>5, <1>9, <2>1
    <2>3. s[r] = all[from + r - 1]
      BY <1>9, <2>1
    <2>. QED
      BY <1>10, <2>1, <2>2, <2>3
  <1>15. ShownFrom(rows, all, from, first, size.rows)
    BY <1>2, <1>7, <1>12, <1>13, <1>14 DEF ShownFrom
  <1>. QED
    BY <1>0, <1>6, <1>15

\* What Snapshot shows are rows of the history, as many as there is room for.
RowsGood(rows, h, first, size) ==
  /\ DOMAIN rows = 1 .. Len(rows) /\ Len(rows) \in 0 .. size.rows
  /\ \A r \in 1 .. Len(rows) : VisibleRow(rows[r], h, first, size.width)

LEMMA VisibleGood ==
  ASSUME NEW h \in Histories, NEW first \in Nat, NEW size \in SizeSet, NEW place,
         place.line \in Int, place.offset \in Int,
         NEW rows, rows = VisibleRows(h, first, place, size)
  PROVE  RowsGood(rows, h, first, size) /\ (h # <<>> => Len(rows) >= 1)
  <1>1. h \in Histories /\ size.width \in Widths /\ size.rows \in Nat /\ size.rows >= 1
    BY SizesAre
  <1>2. CASE h = <<>>
    <2>1. rows = <<>>
      BY <1>2 DEF VisibleRows
    <2>. QED
      BY <1>1, <1>2, <2>1 DEF RowsGood
  <1>3. CASE h # <<>>
    <2>1. PICK from, n : from = RowOf(h, size.width, place) /\ n = Len(AllRows(h, size.width))
      OBVIOUS
    <2>2. /\ from \in 1 .. n /\ n \in Nat /\ DOMAIN rows = 1 .. Len(rows)
          /\ Len(rows) = IF n <= from + size.rows - 1 THEN n - from + 1 ELSE size.rows
          /\ \A r \in 1 .. Len(rows) :
               /\ from + r - 1 \in 1 .. n
               /\ rows[r] = [seq |-> first + AllRows(h, size.width)[from + r - 1].line,
                             offset |-> AllRows(h, size.width)[from + r - 1].offset,
                             end |-> AllRows(h, size.width)[from + r - 1].end]
      <3>1. ShownFrom(VisibleRows(h, first, place, size), AllRows(h, size.width),
                      RowOf(h, size.width, place), first, size.rows)
        BY <1>3, VisibleAre, Zenon
      <3>2. ShownFrom(rows, AllRows(h, size.width), from, first, size.rows)
        BY <2>1, <3>1
      <3>. QED
        BY <2>1, <3>2 DEF ShownFrom
    <2>3. Len(rows) \in 0 .. size.rows /\ Len(rows) >= 1
      <3>1. PICK R \in Nat : R = size.rows
        BY <1>1
      <3>2. R >= 1 /\ Len(rows) = IF n <= from + R - 1 THEN n - from + 1 ELSE R
        BY <1>1, <2>2, <3>1
      <3>3. Len(rows) \in 0 .. R /\ Len(rows) >= 1
        BY <2>2, <3>2
      <3>. QED
        BY <3>1, <3>3
    <2>4. ASSUME NEW r \in 1 .. Len(rows) PROVE VisibleRow(rows[r], h, first, size.width)
      <3>1. PICK q \in 1 .. n : q = from + r - 1
        BY <2>2
      <3>2. PICK l \in 0 .. Len(h) - 1 : \E i \in 1 .. Len(Frags(h, size.width, l)) :
              q = RowNumber(h, size.width, l, i)
        BY <1>1, <2>1, FragmentOfRow
      <3>3. PICK i \in 1 .. Len(Frags(h, size.width, l)) : q = RowNumber(h, size.width, l, i)
        BY <3>2
      <3>4. AllRows(h, size.width)[q] = FragRow(h, size.width, l, i)
        BY <1>1, <3>3, RowOfFragment
      <3>5. rows[r] = [seq |-> first + l, offset |-> Frags(h, size.width, l)[i].start,
                       end |-> Frags(h, size.width, l)[i].end]
        <4>1. PICK at : at = AllRows(h, size.width)[q]
          OBVIOUS
        <4>2. rows[r] = [seq |-> first + at.line, offset |-> at.offset, end |-> at.end]
          BY <2>2, <3>1, <4>1
        <4>3. /\ at.line = l /\ at.offset = Frags(h, size.width, l)[i].start
              /\ at.end = Frags(h, size.width, l)[i].end
          BY <3>4, <4>1 DEF FragRow
        <4>. QED
          BY <4>2, <4>3
      <3>. QED
        BY <3>5 DEF VisibleRow
    <2>. QED
      BY <1>3, <2>2, <2>3, <2>4 DEF RowsGood
  <1>. QED
    BY <1>2, <1>3

\* A row of the history is one of the log.
LEMMA VisibleDrawn ==
  ASSUME NEW h, NEW first, HistoryAt(h, first), NEW w \in Widths, NEW row, VisibleRow(row, h, first, w)
  PROVE  /\ DrawnRow(row, w) /\ h[row.seq - first + 1] = LogLines[row.seq - 0 + 1]
         /\ row.seq \in first .. first + Len(h) - 1 /\ row.offset \in Nat /\ row.end \in Nat
         /\ row.offset <= row.end /\ row.end <= Len(h[row.seq - first + 1].cells)
  <1>1. PICK n \in Nat : n = Len(h)
    BY DEF HistoryAt, Histories
  <1>2. h \in Histories /\ first \in Nat /\ first + n <= Len(LogLines) /\ \A i \in 1 .. n : h[i] = LogLines[first + i]
    BY <1>1 DEF HistoryAt
  <1>3. PICK l \in 0 .. n - 1 : \E i \in 1 .. Len(Frags(h, w, l)) :
          row = [seq |-> first + l, offset |-> Frags(h, w, l)[i].start, end |-> Frags(h, w, l)[i].end]
    BY <1>1 DEF VisibleRow
  <1>4. PICK i \in 1 .. Len(Frags(h, w, l)) :
          row = [seq |-> first + l, offset |-> Frags(h, w, l)[i].start, end |-> Frags(h, w, l)[i].end]
    BY <1>3
  <1>5. /\ l + 1 \in 1 .. n /\ first + l \in 0 .. Len(LogLines) - 1 /\ first + (l + 1) = (first + l) + 1
        /\ (first + l) - first + 1 = l + 1 /\ (first + l) - 0 + 1 = (first + l) + 1
        /\ 0 + (first + l) = first + l /\ first + l \in first .. first + n - 1
    BY <1>2
  <1>6. h[l + 1] = LogLines[(first + l) + 1]
    BY <1>2, <1>5
  <1>7. Frags(h, w, l) = Frags(LogLines, w, first + l)
    BY <1>6 DEF Frags
  <1>8. DrawnRow(row, w)
    <2>1. PICK k \in 0 .. Len(LogLines) - 1 : k = first + l /\ 0 + k = first + l
      BY <1>5
    <2>2. i \in 1 .. Len(Frags(LogLines, w, k))
      BY <1>7, <2>1
    <2>3. row = [seq |-> 0 + k, offset |-> Frags(LogLines, w, k)[i].start, end |-> Frags(LogLines, w, k)[i].end]
      BY <1>4, <1>7, <2>1
    <2>. QED
      BY <2>2, <2>3 DEF DrawnRow, VisibleRow
  <1>9. h[row.seq - first + 1] = LogLines[row.seq - 0 + 1] /\ row.seq - first + 1 = l + 1
    BY <1>4, <1>5, <1>6
  <1>10. Fragments(Frags(h, w, l), Len(h[l + 1].cells)) /\ Len(h[l + 1].cells) \in Nat
    BY <1>1, <1>2, FragsAre
  <1>11. row.offset \in Nat /\ row.end \in Nat
    BY <1>4, <1>10, FragmentsTyped
  <1>12. row.offset <= row.end /\ row.end <= Len(h[l + 1].cells)
    <2>1. PICK f, m : f = Frags(h, w, l) /\ m = Len(h[l + 1].cells)
      OBVIOUS
    <2>2. /\ Fragments(f, m) /\ m \in Nat /\ i \in 1 .. Len(f)
          /\ row.offset = f[i].start /\ row.end = f[i].end
          /\ Len(f) \in Nat /\ \A j \in 1 .. Len(f) : f[j].start \in Nat /\ f[j].end \in Nat
      BY <1>4, <1>10, <2>1, FragmentsTyped
    <2>3. f[i].start = 0 \/ f[i].start < m
      BY <2>2 DEF Fragments
    <2>4. CASE i = Len(f)
      <3>1. f[i].end = m
        BY <2>2, <2>4 DEF Fragments
      <3>. QED
        BY <2>1, <2>2, <2>3, <3>1
    <2>5. CASE i # Len(f)
      <3>1. i < Len(f) /\ i + 1 \in 1 .. Len(f) /\ i < i + 1
        BY <2>2, <2>5
      <3>2. f[i].end = f[i + 1].start /\ (f[i + 1].start = 0 \/ f[i + 1].start < m)
        BY <2>2, <3>1 DEF Fragments
      <3>3. f[i].start < f[i + 1].start
        BY <2>2, <3>1 DEF Fragments
      <3>. QED
        BY <2>1, <2>2, <3>1, <3>2, <3>3
    <2>. QED
      BY <2>4, <2>5
  <1>. QED
    BY <1>1, <1>4, <1>5, <1>8, <1>9, <1>11, <1>12

\* Of one line and one width, the place a row begins at tells where it ends.
LEMMA RowsSame ==
  ASSUME NEW w \in Widths, NEW a, NEW b, DrawnRow(a, w), DrawnRow(b, w), SameRow(a, b)
  PROVE  a = b
  <1>1. PICK n \in Nat : n = Len(LogLines)
    BY DashAssumption
  <1>2. PICK k \in 0 .. n - 1 : \E i \in 1 .. Len(Frags(LogLines, w, k)) :
          a = [seq |-> 0 + k, offset |-> Frags(LogLines, w, k)[i].start, end |-> Frags(LogLines, w, k)[i].end]
    BY <1>1 DEF DrawnRow, VisibleRow
  <1>3. PICK l \in 0 .. n - 1 : \E i \in 1 .. Len(Frags(LogLines, w, l)) :
          b = [seq |-> 0 + l, offset |-> Frags(LogLines, w, l)[i].start, end |-> Frags(LogLines, w, l)[i].end]
    BY <1>1 DEF DrawnRow, VisibleRow
  <1>4. k = l
    BY <1>2, <1>3 DEF SameRow
  <1>5. PICK f : f = Frags(LogLines, w, k)
    OBVIOUS
  <1>6. PICK i \in 1 .. Len(f) : a = [seq |-> 0 + k, offset |-> f[i].start, end |-> f[i].end]
    BY <1>2, <1>5
  <1>7. PICK j \in 1 .. Len(f) : b = [seq |-> 0 + k, offset |-> f[j].start, end |-> f[j].end]
    BY <1>3, <1>4, <1>5
  <1>8. f[i].start = f[j].start
    BY <1>6, <1>7 DEF SameRow
  <1>9. Fragments(f, Len(LogLines[k + 1].cells)) /\ Len(f) \in Nat
    <2>1. LogLines \in Histories /\ k \in 0 .. Len(LogLines) - 1
      <3>1. LogLines \in Seq(LineType)
        BY DashAssumption DEF LineType
      <3>2. LogLines \in [1 .. n -> ToSet(LogLines)]
        BY <1>1, <3>1 DEF ToSet
      <3>. QED
        BY <1>1, <3>2 DEF Histories
    <2>. QED
      BY <1>5, <2>1, FragsAre
  <1>10. i = j
    <2>1. \A p, q \in 1 .. Len(f) : p < q => f[p].start < f[q].start
      BY <1>9 DEF Fragments
    <2>2. f[i].start \in Nat /\ f[j].start \in Nat
      BY <1>9, FragmentsTyped
    <2>3. ~(i < j) /\ ~(j < i)
      BY <1>8, <2>1, <2>2
    <2>. QED
      BY <1>9, <2>3
  <1>. QED
    BY <1>6, <1>7, <1>10

-----------------------------------------------------------------------------
DrawnGood(d) == d.size \in SizeSet /\ RowsGood(d.rows, LogLines, 0, d.size)

LEMMA FullSame ==
  ASSUME NEW h, NEW first, HistoryAt(h, first), NEW d, d.size \in SizeSet,
         RowsGood(d.rows, h, first, d.size)
  PROVE  DrawnGood(d) /\ FullFrame(h, first, d) = FullFrame(LogLines, 0, d)
  <1>1. PICK n \in Nat : n = Len(d.rows)
    BY SizesAre DEF RowsGood
  <1>2. d.size.width \in Widths
    BY SizesAre
  <1>3. ASSUME NEW r \in 1 .. n
        PROVE  /\ DrawnRow(d.rows[r], d.size.width)
               /\ h[d.rows[r].seq - first + 1] = LogLines[d.rows[r].seq - 0 + 1]
    <2>1. VisibleRow(d.rows[r], h, first, d.size.width)
      BY <1>1 DEF RowsGood
    <2>. QED
      BY <1>2, <2>1, VisibleDrawn
  <1>4. DrawnGood(d)
    BY <1>1, <1>3 DEF DrawnGood, RowsGood, DrawnRow
  <1>5. ASSUME NEW r \in 1 .. n
        PROVE  Styled(h, first, d.rows[r], d.query, d.sel) = Styled(LogLines, 0, d.rows[r], d.query, d.sel)
    BY <1>3 DEF Styled
  <1>6. \A r \in 1 .. d.size.rows : r <= Len(d.rows) => r \in 1 .. n
    BY <1>1
  <1>7. FullFrame(h, first, d) = FullFrame(LogLines, 0, d)
    BY <1>5, <1>6 DEF FullFrame
  <1>. QED
    BY <1>4, <1>7

\* A frame that continues the last one shows what a whole one would.
LEMMA PartialSame ==
  ASSUME NEW h, NEW first, HistoryAt(h, first), NEW old, NEW next, NEW shift \in Int,
         DrawnGood(old), next.size \in SizeSet, RowsGood(next.rows, h, first, next.size),
         Continues(old, next), screen = FullFrame(LogLines, 0, old)
  PROVE  PartialFrame(h, first, old, next, shift) = FullFrame(LogLines, 0, next)
  <1>1. PICK R \in Nat, w \in Widths : R = next.size.rows /\ w = next.size.width
    BY SizesAre
  <1>2. PICK n \in Nat : n = Len(next.rows)
    BY SizesAre DEF RowsGood
  <1>3. PICK o \in Nat : o = Len(old.rows)
    BY SizesAre DEF RowsGood, DrawnGood
  <1>4. old.size = next.size /\ old.query = next.query /\ old.sel = next.sel
    BY DEF Continues
  <1>5. /\ DrawnGood(next) /\ FullFrame(h, first, next) = FullFrame(LogLines, 0, next)
    BY FullSame
  <1>6. /\ o <= R /\ DOMAIN old.rows = 1 .. o /\ \A r \in 1 .. o : DrawnRow(old.rows[r], w)
        /\ n <= R /\ DOMAIN next.rows = 1 .. n /\ \A r \in 1 .. n : DrawnRow(next.rows[r], w)
    BY <1>1, <1>2, <1>3, <1>4, <1>5 DEF DrawnGood, RowsGood, DrawnRow
  <1>. DEFINE StyledRow(row) == Styled(LogLines, 0, row, next.query, next.sel)
  <1>7. /\ DOMAIN screen = 1 .. R
        /\ \A r \in 1 .. R : screen[r] = IF r <= o THEN StyledRow(old.rows[r]) ELSE BlankRow
    <2>1. screen = [r \in 1 .. old.size.rows |->
            IF r <= Len(old.rows) THEN Styled(LogLines, 0, old.rows[r], old.query, old.sel) ELSE BlankRow]
      BY DEF FullFrame
    <2>2. screen = [r \in 1 .. R |-> IF r <= o THEN StyledRow(old.rows[r]) ELSE BlankRow]
      BY <1>1, <1>3, <1>4, <2>1
    <2>. HIDE DEF StyledRow
    <2>. QED
      BY <2>2
  <1>. DEFINE whole == FullFrame(LogLines, 0, next)
              moved == Scrolled(screen, shift)
              Same(r) == /\ r \in DOMAIN next.rows /\ r + shift \in DOMAIN old.rows
                         /\ SameRow(old.rows[r + shift], next.rows[r])
              Blank(r) == r \notin DOMAIN next.rows /\ r + shift \notin DOMAIN old.rows
  <1>8. whole = [r \in 1 .. R |-> IF r <= n THEN StyledRow(next.rows[r]) ELSE BlankRow]
    <2>1. whole = [r \in 1 .. next.size.rows |->
            IF r <= Len(next.rows) THEN Styled(LogLines, 0, next.rows[r], next.query, next.sel) ELSE BlankRow]
      BY DEF FullFrame
    <2>. QED
      BY <1>1, <1>2, <2>1
  <1>9. PartialFrame(h, first, old, next, shift) =
          [r \in DOMAIN moved |-> IF Same(r) \/ Blank(r) THEN moved[r] ELSE whole[r]]
    BY <1>5, Zenon DEF PartialFrame
  <1>. HIDE DEF StyledRow, whole
  <1>10. /\ DOMAIN moved = 1 .. R
         /\ \A r \in 1 .. R : moved[r] = IF r + shift \in 1 .. R THEN screen[r + shift] ELSE BlankRow
    BY <1>7 DEF Scrolled
  <1>. HIDE DEF moved
  <1>11. ASSUME NEW r \in 1 .. R, Same(r) PROVE moved[r] = whole[r]
    <2>1. r \in 1 .. n /\ r + shift \in 1 .. o /\ SameRow(old.rows[r + shift], next.rows[r])
      BY <1>6, <1>11
    <2>2. old.rows[r + shift] = next.rows[r]
      BY <1>6, <2>1, RowsSame
    <2>3. r + shift \in 1 .. R /\ r + shift <= o /\ r <= n
      BY <1>6, <2>1
    <2>4. moved[r] = StyledRow(old.rows[r + shift])
      BY <1>7, <1>10, <2>3
    <2>5. whole[r] = StyledRow(next.rows[r])
      BY <1>8, <2>3
    <2>. QED
      BY <2>2, <2>4, <2>5
  <1>12. ASSUME NEW r \in 1 .. R, Blank(r) PROVE moved[r] = whole[r]
    <2>1. r \notin 1 .. n /\ r + shift \notin 1 .. o
      BY <1>6, <1>12
    <2>2. whole[r] = BlankRow
      BY <1>8, <2>1
    <2>3. CASE r + shift \in 1 .. R
      <3>1. ~(r + shift <= o)
        BY <2>1, <2>3
      <3>. QED
        BY <1>7, <1>10, <2>2, <2>3, <3>1
    <2>4. CASE r + shift \notin 1 .. R
      BY <1>10, <2>2, <2>4
    <2>. QED
      BY <2>3, <2>4
  <1>. HIDE DEF Same, Blank
  <1>13. PartialFrame(h, first, old, next, shift) = [r \in 1 .. R |-> whole[r]]
    BY <1>9, <1>10, <1>11, <1>12
  <1>14. whole = [r \in 1 .. R |-> whole[r]]
    BY <1>8
  <1>. QED
    BY <1>13, <1>14 DEF whole

LEMMA RowShiftIs ==
  ASSUME NEW old, NEW new, Len(old) \in Nat, Len(new) \in Nat, DOMAIN new = 1 .. Len(new),
         Shifts(old, new) # {} \/ (old = <<>> /\ new = <<>>)
  PROVE  RowShift(old, new) \in Int
  <1>1. CASE old = <<>> /\ new = <<>>
    BY <1>1 DEF RowShift
  <1>2. CASE ~(old = <<>> /\ new = <<>>)
    <2>. DEFINE shifts == Shifts(old, new)
                Kept(shift) == Cardinality(Overlap(old, new, shift))
                counts == {Kept(shift) : shift \in shifts}
                most == Max(counts)
                best == {shift \in shifts : Kept(shift) = most}
    <2>1. RowShift(old, new) = Min(best)
      BY <1>2, Zenon DEF RowShift
    <2>2. ASSUME NEW shift \in shifts PROVE Kept(shift) \in Nat /\ Kept(shift) <= Len(new)
      <3>1. Overlap(old, new, shift) \subseteq 1 .. Len(new)
        BY DEF Overlap
      <3>2. PICK n \in Nat : n = Len(new)
        OBVIOUS
      <3>3. 1 \in Int /\ n \in Int
        BY <3>2
      <3>4. IsFiniteSet(1 .. n) /\ Cardinality(1 .. n) = IF 1 > n THEN 0 ELSE n - 1 + 1
        BY <3>3, FS_Interval, Zenon
      <3>5. /\ IsFiniteSet(Overlap(old, new, shift))
            /\ Cardinality(Overlap(old, new, shift)) <= Cardinality(1 .. n)
        BY <3>1, <3>2, <3>4, FS_Subset
      <3>6. Cardinality(Overlap(old, new, shift)) \in Nat
        BY <3>5, FS_CardinalityType
      <3>. QED
        BY <3>2, <3>4, <3>5, <3>6
    <2>. HIDE DEF Kept, shifts
    <2>3. counts \in SUBSET Int /\ (\A x \in counts : x <= Len(new)) /\ counts # {}
      BY <1>2, <2>2 DEF shifts
    <2>4. Greatest(counts, most)
      <3>. HIDE DEF counts
      <3>1. Len(new) \in Int
        OBVIOUS
      <3>. QED
        BY <2>3, <3>1, MaxIs, Zenon
    <2>5. best # {}
      <3>1. most \in counts
        BY <2>4 DEF Greatest
      <3>. HIDE DEF most
      <3>. QED
        BY <3>1
    <2>6. best \in SUBSET Int /\ \A x \in best : -Len(new) <= x
      <3>1. \A shift \in shifts : shift \in -Len(new) .. Len(old)
        BY DEF shifts, Shifts
      <3>. HIDE DEF most
      <3>2. \A x \in best : x \in -Len(new) .. Len(old)
        BY <3>1
      <3>. QED
        BY <3>2
    <2>. HIDE DEF best
    <2>7. Smallest(best, Min(best))
      <3>1. -Len(new) \in Int
        OBVIOUS
      <3>. QED
        BY <2>5, <2>6, <3>1, MinIs, Zenon
    <2>. QED
      BY <2>1, <2>6, <2>7 DEF Smallest
  <1>. QED
    BY <1>1, <1>2

-----------------------------------------------------------------------------
\* A place in a line of the history, for every column of the mouse
LEMMA ColumnIs ==
  ASSUME NEW cells, Len(cells) \in Nat, NEW column, NEW after
  PROVE  ColumnOffset(cells, column, after) \in Nat
  <1>. DEFINE n == Len(cells)
              used == CHOOSE f : f = [o \in 0 .. Len(cells) |-> IF o = 0 THEN 0 ELSE f[o - 1] + cells[o]]
              over == {o \in 1 .. Len(cells) : column - 1 < used[o]}
  <1>1. ColumnOffset(cells, column, after) =
          IF over = {} THEN Len(cells) ELSE IF after THEN Min(over) ELSE Min(over) - 1
    BY Zenon DEF ColumnOffset
  <1>. HIDE DEF used
  <1>2. over \in SUBSET Int /\ \A x \in over : x >= 1
    OBVIOUS
  <1>. HIDE DEF over
  <1>3. over # {} => Min(over) \in Int /\ Min(over) >= 1
    <2>1. 1 \in Int /\ \A x \in over : 1 <= x
      BY <1>2
    <2>2. over # {} => Smallest(over, Min(over))
      BY <1>2, <2>1, MinIs, Zenon
    <2>. QED
      BY <1>2, <2>2 DEF Smallest
  <1>. QED
    BY <1>1, <1>3

LEMMA PointIs ==
  ASSUME NEW h, NEW first, HistoryAt(h, first), NEW w \in Widths, NEW row, VisibleRow(row, h, first, w),
         NEW column, NEW after
  PROVE  PointOn(h, first, row, column, after) \in Points(first, first + Len(h) - 1)
  <1>1. /\ row.seq \in first .. first + Len(h) - 1 /\ row.offset \in Nat /\ row.end \in Nat
        /\ row.offset <= row.end /\ row.end <= Len(h[row.seq - first + 1].cells)
    BY VisibleDrawn
  <1>2. PICK c : c = h[row.seq - first + 1].cells
    OBVIOUS
  <1>3. c \in Seq(Nat)
    <2>1. h \in Histories /\ first \in Nat /\ Len(h) \in Nat
      BY DEF HistoryAt, Histories
    <2>2. row.seq - first + 1 \in 1 .. Len(h)
      BY <1>1, <2>1
    <2>3. h[row.seq - first + 1] \in ToSet(LogLines)
      BY <2>1, <2>2 DEF Histories
    <2>. QED
      BY <1>2, <2>3, LinesAre
  <1>4. PICK s : s = SubSeq(c, row.offset + 1, row.end)
    OBVIOUS
  <1>5. Len(s) \in Nat
    <2>1. PICK a \in Nat, b \in Nat : a = row.offset + 1 /\ b = row.end
      BY <1>1
    <2>2. a >= 1 /\ a <= b + 1 /\ b <= Len(c)
      BY <1>1, <1>2, <2>1
    <2>. QED
      BY <1>3, <1>4, <2>1, <2>2
  <1>6. ColumnOffset(s, column, after) \in Nat
    BY <1>5, ColumnIs
  <1>7. RowCells(h, first, row) = s
    BY <1>2, <1>4 DEF RowCells
  <1>. QED
    BY <1>1, <1>6, <1>7 DEF PointOn, Points

-----------------------------------------------------------------------------
\* What keeps the place of a view keeps it good.
LEMMA SamePlaceGood ==
  ASSUME NEW h, NEW first, NEW size, NEW v, ViewGood(v, h, first, size),
         NEW u \in Views(first, first + Len(h) - 1), ViewPlace(u) = ViewPlace(v), u.follow = v.follow,
         Matches(u.match, u.query, h)
  PROVE  ViewGood(u, h, first, size)
  BY DEF ViewGood

\* A view that is v at another place
OnlyMoved(u, v, a, b) ==
  /\ u \in Views(a, b)
  /\ u.match = v.match /\ u.query = v.query /\ u.sel = v.sel /\ u.follow = v.follow

LEMMA MovedTo ==
  ASSUME NEW h \in Histories, NEW w \in Widths, NEW a, NEW b, NEW v \in Views(a, b), NEW row,
         h # <<>> => row \in 1 .. Len(AllRows(h, w))
  PROVE  OnlyMoved(At(v, PlaceOf(h, w, row)), v, a, b)
  <1>1. PICK place : place = PlaceOf(h, w, row)
    OBVIOUS
  <1>2. place.line \in Nat /\ place.offset \in Nat
    <2>1. CASE h = <<>>
      BY <1>1, <2>1 DEF PlaceOf, Origin
    <2>2. CASE h # <<>>
      <3>1. place \in [line : 0 .. Len(h) - 1, offset : Nat] /\ Len(h) \in Nat
        BY <1>1, <2>2, RowOfPlace DEF Histories
      <3>. QED
        BY <3>1
    <2>. QED
      BY <2>1, <2>2
  <1>3. At(v, place) = [v EXCEPT !.top = place.line, !.offset = place.offset]
    BY DEF At
  <1>4. OnlyMoved(At(v, place), v, a, b)
    BY <1>2, <1>3 DEF Views, OnlyMoved
  <1>. QED
    BY <1>1, <1>4

\* The line a search goes to has the query.
LEMMA MatchIs ==
  ASSUME NEW h \in Histories, NEW start \in Int, NEW direction \in {1, -1}
  PROVE  \/ MatchFrom(h, start, direction) = NoMatch
         \/ /\ h # <<>> /\ MatchFrom(h, start, direction) \in 0 .. Len(h) - 1
            /\ h[MatchFrom(h, start, direction) + 1].hits # {}
  <1>. DEFINE Index(i) == (start + direction * i) % Len(h)
              hits == {i \in 1 .. Len(h) : h[Index(i) + 1].hits # {}}
  <1>1. MatchFrom(h, start, direction) = IF h = <<>> \/ hits = {} THEN NoMatch ELSE Index(Min(hits))
    BY Zenon DEF MatchFrom
  <1>2. CASE h = <<>> \/ hits = {}
    BY <1>1, <1>2
  <1>3. CASE ~(h = <<>> \/ hits = {})
    <2>1. PICK n \in Nat : n = Len(h)
      BY DEF Histories
    <2>2. n >= 1
      BY <1>3, <2>1 DEF Histories
    <2>3. hits \in SUBSET Int /\ hits # {} /\ \A x \in hits : x \in 1 .. n /\ h[Index(x) + 1].hits # {}
      <3>1. hits # {}
        BY <1>3
      <3>2. \A x \in hits : x \in 1 .. n /\ h[Index(x) + 1].hits # {}
        BY <2>1
      <3>3. 1 .. n \subseteq Int
        OBVIOUS
      <3>. HIDE DEF hits, Index
      <3>. QED
        BY <3>1, <3>2, <3>3
    <2>. HIDE DEF hits
    <2>4. Smallest(hits, Min(hits))
      <3>1. 1 \in Int /\ \A x \in hits : 1 <= x
        BY <2>3
      <3>. HIDE DEF Index
      <3>. QED
        BY <2>3, <3>1, MinIs, Zenon
    <2>5. PICK m \in 1 .. n : m = Min(hits) /\ h[Index(m) + 1].hits # {}
      <3>. HIDE DEF Index
      <3>. QED
        BY <2>3, <2>4 DEF Smallest
    <2>6. Index(m) \in 0 .. n - 1
      <3>1. start + direction * m \in Int
        <4>1. direction * m = m \/ direction * m = -m
          OBVIOUS
        <4>. QED
          BY <4>1
      <3>2. \A k \in Int : k % n \in 0 .. n - 1
        BY <2>2
      <3>. QED
        BY <2>1, <3>1, <3>2
    <2>7. MatchFrom(h, start, direction) = Index(m)
      BY <1>1, <1>3, <2>5
    <2>. HIDE DEF Index
    <2>. QED
      BY <1>3, <2>1, <2>5, <2>6, <2>7
  <1>. QED
    BY <1>2, <1>3

LEMMA SelectGood ==
  ASSUME NEW h, NEW first, HistoryAt(h, first), NEW size \in SizeSet, NEW v, ViewGood(v, h, first, size),
         v.query, NEW start \in Int, NEW direction \in {1, -1}
  PROVE  ViewGood(SelectMatch(v, h, size, start, direction), h, first, size)
  <1>1. h \in Histories /\ size.width \in Widths
    BY SizesAre DEF HistoryAt
  <1>2. PICK b : b = first + Len(h) - 1
    OBVIOUS
  <1>3. v \in Views(first, b)
    BY <1>2 DEF ViewGood
  <1>. DEFINE match == MatchFrom(h, start, direction)
              found == [line |-> match, offset |-> SearchOffset(h[match + 1])]
              centre == MovedRow(h, size.width, found, -(size.rows \div 2))
  <1>4. SelectMatch(v, h, size, start, direction) =
          IF match = NoMatch THEN [v EXCEPT !.match = NoMatch]
          ELSE Clamped([At(v, PlaceOf(h, size.width, centre)) EXCEPT !.match = match, !.follow = FALSE],
                       h, size)
    BY Zenon DEF SelectMatch
  <1>5. \/ match = NoMatch
        \/ h # <<>> /\ match \in 0 .. Len(h) - 1 /\ h[match + 1].hits # {}
    BY <1>1, MatchIs
  <1>. HIDE DEF match
  <1>6. CASE match = NoMatch
    <2>1. PICK u : u = [v EXCEPT !.match = NoMatch]
      OBVIOUS
    <2>2. u \in Views(first, b) /\ ViewPlace(u) = ViewPlace(v) /\ u.follow = v.follow /\ u.match = NoMatch
      BY <1>3, <2>1 DEF Views, ViewPlace, NoMatch
    <2>3. Matches(u.match, u.query, h)
      BY <2>2 DEF Matches
    <2>4. ViewGood(u, h, first, size)
      BY <1>2, <2>2, <2>3, SamePlaceGood
    <2>. QED
      BY <1>4, <1>6, <2>1, <2>4
  <1>7. CASE match # NoMatch
    <2>1. h # <<>> /\ match \in 0 .. Len(h) - 1 /\ h[match + 1].hits # {}
      BY <1>5, <1>7
    <2>2. found.line \in Int /\ found.offset \in Int
      <3>1. match + 1 \in 1 .. Len(h) /\ match \in Int
        BY <1>1, <2>1 DEF Histories
      <3>2. h[match + 1] \in LineType
        <4>1. h[match + 1] \in ToSet(LogLines)
          BY <1>1, <3>1 DEF Histories
        <4>. QED
          BY <4>1, LinesAre
      <3>3. PICK S \in SUBSET Nat : S = h[match + 1].hits
        BY <3>2 DEF LineType
      <3>4. S \in SUBSET Int /\ S # {} /\ 0 \in Int /\ \A x \in S : 0 <= x
        BY <2>1, <3>3
      <3>5. Smallest(S, Min(S))
        BY <3>4, MinIs, Zenon
      <3>6. SearchOffset(h[match + 1]) \in Int
        BY <3>3, <3>4, <3>5 DEF SearchOffset, Smallest
      <3>. QED
        BY <3>1, <3>6
    <2>3. -(size.rows \div 2) \in Int
      <3>1. size.rows \in Nat
        BY SizesAre
      <3>. QED
        BY <3>1
    <2>4. centre \in 1 .. Len(AllRows(h, size.width))
      <3>. HIDE DEF found
      <3>. QED
        BY <1>1, <2>1, <2>2, <2>3, MovedRowIs
    <2>. HIDE DEF centre
    <2>5. PICK a : a = At(v, PlaceOf(h, size.width, centre))
      OBVIOUS
    <2>6. a \in Views(first, b) /\ a.query = v.query
      <3>1. h # <<>> => centre \in 1 .. Len(AllRows(h, size.width))
        BY <2>4
      <3>2. h \in Histories /\ size.width \in Widths /\ v \in Views(first, b)
        BY <1>1, <1>3
      <3>3. OnlyMoved(At(v, PlaceOf(h, size.width, centre)), v, first, b)
        BY <3>1, <3>2, MovedTo, Zenon
      <3>. QED
        BY <2>5, <3>3 DEF OnlyMoved
    <2>7. PICK u : u = [a EXCEPT !.match = match, !.follow = FALSE]
      OBVIOUS
    <2>8. u \in Views(first, b) /\ u.query = v.query /\ u.match = match
      <3>1. match \in Int
        BY <1>1, <2>1 DEF Histories
      <3>. QED
        BY <2>6, <2>7, <3>1 DEF Views
    <2>9. Matches(u.match, u.query, h)
      BY <2>1, <2>8 DEF Matches
    <2>10. ViewGood(Clamped(u, h, size), h, first, size)
      BY <1>1, <1>2, <2>8, <2>9, ClampedGood
    <2>. QED
      BY <1>4, <1>7, <2>5, <2>7, <2>10
  <1>. QED
    BY <1>6, <1>7

LEMMA BackFromIs ==
  ASSUME NEW h \in Histories, NEW size \in SizeSet, NEW a, NEW b, NEW v \in Views(a, b)
  PROVE  BackFrom(v, h, size) \in Int
  <1>1. v.match \in Int /\ v.top \in Nat /\ ViewPlace(v).line \in Int /\ ViewPlace(v).offset \in Int
    BY DEF Views, ViewPlace
  <1>2. PICK rows : rows = VisibleRows(h, 0, ViewPlace(v), size)
    OBVIOUS
  <1>3. RowsGood(rows, h, 0, size) /\ (h # <<>> => Len(rows) >= 1)
    BY <1>1, <1>2, VisibleGood
  <1>4. rows # <<>> => Last(rows).seq \in Int
    <2>1. CASE h = <<>>
      BY <1>2, <2>1 DEF VisibleRows
    <2>2. CASE h # <<>>
      <3>1. Len(rows) \in 1 .. Len(rows)
        BY <1>3, <2>2, SizesAre DEF RowsGood
      <3>2. PICK row : row = rows[Len(rows)]
        OBVIOUS
      <3>3. VisibleRow(row, h, 0, size.width)
        BY <1>3, <3>1, <3>2 DEF RowsGood
      <3>4. row.seq \in Int
        BY <3>3 DEF VisibleRow, Histories
      <3>. QED
        BY <3>2, <3>4 DEF Last
    <2>. QED
      BY <2>1, <2>2
  <1>. QED
    BY <1>1, <1>2, <1>4 DEF BackFrom

LEMMA ScrollsGood ==
  ASSUME NEW first, HistoryAt(kept, first), NEW size \in SizeSet, NEW p, ViewGood(p, kept, first, size),
         NEW distance \in Int
  PROVE  /\ ViewGood(Scrolls(p, size, distance), kept, first, size)
         /\ Scrolls(p, size, distance).sel = p.sel /\ Scrolls(p, size, distance).query = p.query
  <1>1. kept \in Histories /\ size.width \in Widths
    BY SizesAre DEF HistoryAt
  <1>2. PICK b : b = first + Len(kept) - 1
    OBVIOUS
  <1>3. p \in Views(first, b) /\ Matches(p.match, p.query, kept)
    BY <1>2 DEF ViewGood
  <1>. DEFINE row == MovedRow(kept, size.width, ViewPlace(p), distance)
              to == At(p, PlaceOf(kept, size.width, row))
              Ends == distance > 0 /\ (kept = <<>> \/ row >= FollowRow(kept, size))
  <1>4. Scrolls(p, size, distance) =
          IF Ends THEN Clamped(Resumed(p), kept, size) ELSE Clamped(to, kept, size)
    BY Zenon DEF Scrolls
  <1>5. /\ Resumed(p) \in Views(first, b) /\ Resumed(p).match = p.match /\ Resumed(p).query = p.query
        /\ Resumed(p).sel = p.sel
    BY <1>3 DEF Resumed, Views
  <1>6. kept # <<>> => row \in 1 .. Len(AllRows(kept, size.width))
    <2>1. ViewPlace(p).line \in Int /\ ViewPlace(p).offset \in Int
      BY <1>3 DEF Views, ViewPlace
    <2>. QED
      BY <1>1, <2>1, MovedRowIs
  <1>. HIDE DEF row, Ends, to
  <1>7. to \in Views(first, b) /\ to.match = p.match /\ to.query = p.query /\ to.sel = p.sel
    <2>1. OnlyMoved(to, p, first, b)
      BY <1>1, <1>3, <1>6, MovedTo DEF to
    <2>. QED
      BY <2>1 DEF OnlyMoved
  <1>8. PICK u : /\ Scrolls(p, size, distance) = Clamped(u, kept, size) /\ u \in Views(first, b)
                 /\ u.match = p.match /\ u.query = p.query /\ u.sel = p.sel
    BY <1>4, <1>5, <1>7
  <1>9. Clamped(u, kept, size).sel = p.sel /\ Clamped(u, kept, size).query = p.query
    BY <1>1, <1>8, ClampedIs
  <1>10. ViewGood(Clamped(u, kept, size), kept, first, size)
    <2>1. Matches(u.match, u.query, kept) /\ u \in Views(first, first + Len(kept) - 1)
      BY <1>2, <1>3, <1>8
    <2>. QED
      BY <1>1, <2>1, ClampedGood
  <1>. QED
    BY <1>8, <1>9, <1>10

-----------------------------------------------------------------------------
(* The inductive invariant of the dashboard: the history holds the lines   *)
(* after those let go; the view begins at a row that leaves the screen     *)
(* full, its match has the query and its selection is of lines that are    *)
(* kept; the screen is the whole frame of the rows last drawn, whatever    *)
(* has become of their lines; and when no event waits for a frame those    *)
(* rows are the ones the view names.                                       *)
FrameGood == DrawnGood(drawn) /\ screen = FullFrame(LogLines, 0, drawn)

DashInv ==
  /\ HistoryAt(kept, expired) /\ terminal \in SizeSet /\ dirty \in Nat
  /\ ViewGood(dashView, kept, expired, terminal)
  /\ FrameGood
  /\ dirty = 0 => drawn = Snapshot(kept, expired, dashView, terminal)

LEMMA SnapshotGood ==
  ASSUME NEW h, NEW first, HistoryAt(h, first), NEW size \in SizeSet, NEW a, NEW b, NEW v \in Views(a, b),
         NEW d, d = Snapshot(h, first, v, size)
  PROVE  d.size = size /\ RowsGood(d.rows, h, first, size) /\ d.query = v.query /\ d.sel = v.sel
  <1>1. d = [size |-> size, query |-> v.query, sel |-> v.sel,
             rows |-> VisibleRows(h, first, ViewPlace(v), size)]
    BY DEF Snapshot
  <1>2. ViewPlace(v).line \in Int /\ ViewPlace(v).offset \in Int
    BY DEF Views, ViewPlace
  <1>3. RowsGood(d.rows, h, first, size)
    BY <1>1, <1>2, VisibleGood DEF HistoryAt
  <1>. QED
    BY <1>1, <1>3

LEMMA InitGood == DashInit => DashInv
  <1>. SUFFICES ASSUME DashInit PROVE DashInv
    OBVIOUS
  <1>. USE DEF DashInit
  <1>1. terminal \in SizeSet
    <2>1. 1 \in DOMAIN Sizes
      <3>1. Sizes \in Seq([width : Nat \ {0}, rows : Nat \ {0}]) /\ Sizes # <<>>
        BY DashAssumption
      <3>. QED
        BY <3>1
    <2>. QED
      BY <2>1 DEF SizeSet
  <1>2. HistoryAt(kept, expired)
    <2>1. LogLines \in Seq(LineType)
      BY DashAssumption DEF LineType
    <2>2. Len(LogLines) \in Nat
      BY <2>1
    <2>. QED
      BY <2>2 DEF HistoryAt, Histories
  <1>3. ViewGood(dashView, kept, expired, terminal)
    BY DEF ViewGood, Views, Selections, Matches, Rests, ViewPlace, Origin, NoMatch
  <1>4. drawn = Snapshot(kept, expired, dashView, terminal)
    OBVIOUS
  <1>5. drawn.size = terminal /\ drawn.rows = <<>>
    BY DEF Snapshot, VisibleRows
  <1>6. FrameGood
    <2>1. terminal.rows \in Nat
      BY <1>1, SizesAre
    <2>2. Len(drawn.rows) = 0 /\ DOMAIN drawn.rows = 1 .. 0
      <3>1. ASSUME NEW rows, rows = <<>> PROVE Len(rows) = 0 /\ DOMAIN rows = 1 .. 0
        BY <3>1
      <3>. QED
        BY <1>5, <3>1, Zenon
    <2>3. DrawnGood(drawn)
      <3>1. 0 \in 0 .. drawn.size.rows
        BY <1>5, <2>1
      <3>2. \A r \in 1 .. 0 : FALSE
        OBVIOUS
      <3>. QED
        BY <1>1, <1>5, <2>2, <3>1, <3>2, Zenon DEF DrawnGood, RowsGood
    <2>4. screen = FullFrame(LogLines, 0, drawn)
      <3>1. \A r \in 1 .. terminal.rows : ~(r <= 0)
        BY <2>1
      <3>2. screen = [r \in 1 .. terminal.rows |-> BlankRow]
        OBVIOUS
      <3>3. FullFrame(LogLines, 0, drawn) =
              [r \in 1 .. terminal.rows |->
                 IF r <= 0 THEN Styled(LogLines, 0, drawn.rows[r], drawn.query, drawn.sel) ELSE BlankRow]
        BY <1>5, <2>2, Zenon DEF FullFrame
      <3>. QED
        BY <3>1, <3>2, <3>3
    <2>. QED
      BY <2>3, <2>4 DEF FrameGood
  <1>. QED
    BY <1>1, <1>2, <1>3, <1>4, <1>6 DEF DashInv

\* A frame shows the view, scrolled from the last one or not.
LEMMA RenderGood ==
  ASSUME HistoryAt(kept, expired), FrameGood, NEW size \in SizeSet,
         NEW v \in Views(expired, expired + Len(kept) - 1), Matches(v.match, v.query, kept),
         NEW full \in BOOLEAN, RenderFrame(v, size, full)
  PROVE  /\ ViewGood(dashView', kept, expired, size)
         /\ DrawnGood(drawn') /\ screen' = FullFrame(LogLines, 0, drawn')
         /\ drawn' = Snapshot(kept, expired, dashView', size) /\ dirty' = 0
  <1>1. PICK c, next : c = Clamped(v, kept, size) /\ next = Snapshot(kept, expired, c, size)
    OBVIOUS
  <1>. DEFINE partial == /\ ~full /\ Continues(drawn, next)
                         /\ Shifts(drawn.rows, next.rows) # {} \/ (drawn.rows = <<>> /\ next.rows = <<>>)
  <1>2. /\ dashView' = c /\ drawn' = next /\ dirty' = 0
        /\ screen' = IF partial
                       THEN PartialFrame(kept, expired, drawn, next, RowShift(drawn.rows, next.rows))
                       ELSE FullFrame(kept, expired, next)
    BY <1>1, Zenon DEF RenderFrame
  <1>3. ViewGood(c, kept, expired, size)
    BY <1>1, ClampedGood DEF HistoryAt
  <1>4. next.size = size /\ RowsGood(next.rows, kept, expired, size)
    BY <1>1, <1>3, SnapshotGood DEF ViewGood
  <1>5. DrawnGood(next) /\ FullFrame(kept, expired, next) = FullFrame(LogLines, 0, next)
    BY <1>4, FullSame
  <1>6. ASSUME partial
        PROVE  PartialFrame(kept, expired, drawn, next, RowShift(drawn.rows, next.rows)) = FullFrame(LogLines, 0, next)
    <2>1. RowShift(drawn.rows, next.rows) \in Int
      <3>1. Len(drawn.rows) \in Nat
        BY SizesAre DEF FrameGood, DrawnGood, RowsGood
      <3>2. Len(next.rows) \in Nat /\ DOMAIN next.rows = 1 .. Len(next.rows)
        BY <1>4, SizesAre DEF RowsGood
      <3>. QED
        BY <1>6, <3>1, <3>2, RowShiftIs
    <2>. QED
      BY <1>4, <1>6, <2>1, PartialSame DEF FrameGood
  <1>7. screen' = FullFrame(LogLines, 0, next)
    <2>. HIDE DEF partial
    <2>. QED
      BY <1>2, <1>5, <1>6
  <1>. QED
    BY <1>1, <1>2, <1>3, <1>5, <1>7

LEMMA HistoryAfter ==
  ASSUME NEW h, NEW first, HistoryAt(h, first), first + Len(h) < Len(LogLines),
         NEW x, x = LogLines[first + Len(h) + 1], NEW e \in 0 .. Len(h) + 1
  PROVE  HistoryAt(After(h, x, e), first + e) /\ x \in ToSet(LogLines)
  <1>1. PICK n \in Nat, N \in Nat : n = Len(h) /\ N = Len(LogLines)
    <2>1. LogLines \in Seq(LineType)
      BY DashAssumption DEF LineType
    <2>2. Len(LogLines) \in Nat /\ Len(h) \in Nat
      BY <2>1 DEF HistoryAt, Histories
    <2>. QED
      BY <2>2
  <1>2. DOMAIN LogLines = 1 .. N
    <2>1. LogLines \in Seq(LineType)
      BY DashAssumption DEF LineType
    <2>. QED
      BY <1>1, <2>1
  <1>3. h \in Histories /\ first \in Nat /\ \A i \in 1 .. n : h[i] = LogLines[first + i]
    BY <1>1 DEF HistoryAt
  <1>4. x \in ToSet(LogLines)
    <2>1. first + n + 1 \in 1 .. N
      BY <1>1, <1>3
    <2>. QED
      BY <1>1, <1>2, <2>1 DEF ToSet
  <1>5. PICK s : s = After(h, x, e)
    OBVIOUS
  <1>6. /\ s \in Histories /\ Len(s) = n + 1 - e
        /\ \A i \in 1 .. n + 1 - e : s[i] = IF e + i = n + 1 THEN x ELSE h[e + i]
    <2>1. /\ After(h, x, e) \in Histories /\ Len(After(h, x, e)) = Len(h) + 1 - e
          /\ \A i \in 1 .. Len(h) + 1 - e :
               After(h, x, e)[i] = IF e + i = Len(h) + 1 THEN x ELSE h[e + i]
      BY <1>3, <1>4, AfterIs
    <2>. QED
      BY <1>1, <1>5, <2>1
  <1>7. ASSUME NEW i \in 1 .. n + 1 - e PROVE s[i] = LogLines[(first + e) + i]
    <2>1. (first + e) + i = first + (e + i) /\ e + i \in 1 .. n + 1
      BY <1>1, <1>3
    <2>2. CASE e + i = n + 1
      <3>1. s[i] = x
        BY <1>6, <2>2
      <3>2. (first + e) + i = first + n + 1
        BY <1>1, <1>3, <2>1, <2>2
      <3>3. x = LogLines[first + n + 1]
        BY <1>1
      <3>. QED
        BY <3>1, <3>2, <3>3
    <2>3. CASE e + i # n + 1
      <3>1. e + i \in 1 .. n
        BY <2>1, <2>3
      <3>. QED
        BY <1>3, <1>6, <2>1, <2>3, <3>1
    <2>. QED
      BY <2>2, <2>3
  <1>8. first + e \in Nat /\ (first + e) + (n + 1 - e) <= N
    BY <1>1, <1>3
  <1>9. HistoryAt(s, first + e)
    BY <1>1, <1>6, <1>7, <1>8 DEF HistoryAt
  <1>. QED
    BY <1>4, <1>5, <1>9

-----------------------------------------------------------------------------
\* An event that leaves the view good keeps the invariant: a frame is due.
LEMMA DueGood ==
  ASSUME DashInv, Due, UNCHANGED <<drawn, screen>>, HistoryAt(kept', expired'), terminal' = terminal,
         ViewGood(dashView', kept', expired', terminal)
  PROVE  DashInv'
  <1>1. dirty' \in Nat /\ dirty' # 0
    BY DEF Due, DashInv
  <1>2. FrameGood'
    BY DEF FrameGood, DashInv
  <1>3. ViewGood(dashView', kept', expired', terminal') /\ terminal' \in SizeSet
    BY DEF DashInv
  <1>. QED
    BY <1>1, <1>2, <1>3 DEF DashInv

LEMMA TakeLineGood ==
  ASSUME DashInv, TakeLine
  PROVE  DashInv'
  <1>1. PICK line, e : line = LogLines[expired + Len(kept) + 1] /\ e = Evicted(kept, line)
    OBVIOUS
  <1>2. /\ expired + Len(kept) < Len(LogLines)
        /\ kept' = After(kept, line, e) /\ expired' = expired + e
        /\ dashView' = Clamped(AfterAppend(dashView, expired + e, e), kept', terminal)
        /\ Due /\ UNCHANGED <<terminal, drawn, screen>>
    BY <1>1, Zenon DEF TakeLine, After
  <1>3. HistoryAt(kept, expired) /\ terminal \in SizeSet /\ ViewGood(dashView, kept, expired, terminal)
    BY DEF DashInv
  <1>4. kept \in Histories /\ expired \in Nat
    BY <1>3 DEF HistoryAt
  <1>5. line \in ToSet(LogLines)
    <2>1. 0 \in 0 .. Len(kept) + 1
      BY <1>4 DEF Histories
    <2>. QED
      BY <1>1, <1>2, <1>3, <2>1, HistoryAfter
  <1>6. e \in 0 .. Len(kept) + 1
    BY <1>1, <1>4, <1>5, EvictedIs
  <1>7. HistoryAt(kept', expired')
    BY <1>1, <1>2, <1>3, <1>6, HistoryAfter
  <1>8. kept' \in Histories /\ Len(kept') = Len(kept) + 1 - e /\ Len(kept) \in Nat
    <2>1. Len(After(kept, line, e)) = Len(kept) + 1 - e
      BY <1>4, <1>5, <1>6, AfterIs
    <2>. QED
      BY <1>2, <1>4, <1>7, <2>1 DEF HistoryAt, Histories
  <1>9. PICK m : m = AfterAppend(dashView, expired + e, e)
    OBVIOUS
  <1>10. /\ m \in Views(expired + e, expired + Len(kept)) /\ m.query = dashView.query
         /\ m.match = IF dashView.match < e THEN NoMatch ELSE dashView.match - e
    BY <1>3, <1>4, <1>6, <1>9, AfterAppendIs DEF ViewGood
  <1>11. Matches(m.match, m.query, kept')
    <2>1. dashView.match \in Int /\ Matches(dashView.match, dashView.query, kept)
      BY <1>3 DEF ViewGood, Views
    <2>2. Matches(IF dashView.match < e THEN NoMatch ELSE dashView.match - e, dashView.query, After(kept, line, e))
      BY <1>4, <1>5, <1>6, <2>1, AfterMatches
    <2>. QED
      BY <1>2, <1>10, <2>2
  <1>12. ViewGood(dashView', kept', expired', terminal)
    <2>1. expired' + Len(kept') - 1 = expired + Len(kept)
      BY <1>2, <1>4, <1>6, <1>8
    <2>2. m \in Views(expired', expired' + Len(kept') - 1)
      BY <1>2, <1>10, <2>1
    <2>3. ViewGood(Clamped(m, kept', terminal), kept', expired', terminal)
      BY <1>3, <1>8, <1>11, <2>2, ClampedGood
    <2>. QED
      BY <1>2, <1>9, <2>3
  <1>. QED
    BY <1>2, <1>7, <1>12, DueGood

-----------------------------------------------------------------------------
LEMMA NoMatchIs == NoMatch \in Int
  BY DEF NoMatch

\* Each key leaves the view good.
LEMMA TypeGood ==
  ASSUME DashInv, NEW given \in BOOLEAN, TypeKey(given)
  PROVE  ViewGood(dashView', kept, expired, terminal)
  <1>1. HistoryAt(kept, expired) /\ terminal \in SizeSet /\ ViewGood(dashView, kept, expired, terminal)
    BY DEF DashInv
  <1>2. PICK b : b = expired + Len(kept) - 1
    OBVIOUS
  <1>3. dashView \in Views(expired, b) /\ Matches(dashView.match, dashView.query, kept)
    BY <1>1, <1>2 DEF ViewGood
  <1>4. PICK u : u = [dashView EXCEPT !.typing = FALSE]
    OBVIOUS
  <1>5. PICK asked : asked = [dashView EXCEPT !.typing = FALSE, !.query = given, !.match = NoMatch]
    OBVIOUS
  <1>6. ViewGood(u, kept, expired, terminal)
    <2>1. /\ u \in Views(expired, b) /\ ViewPlace(u) = ViewPlace(dashView) /\ u.follow = dashView.follow
          /\ u.match = dashView.match /\ u.query = dashView.query
      BY <1>3, <1>4 DEF Views, ViewPlace
    <2>2. Matches(u.match, u.query, kept)
      BY <1>3, <2>1
    <2>. QED
      BY <1>1, <1>2, <2>1, <2>2, SamePlaceGood
  <1>7. asked.query = given /\ ViewGood(asked, kept, expired, terminal)
    <2>1. /\ asked \in Views(expired, b) /\ ViewPlace(asked) = ViewPlace(dashView)
          /\ asked.follow = dashView.follow /\ asked.match = NoMatch /\ asked.query = given
      BY <1>3, <1>5, NoMatchIs DEF Views, ViewPlace
    <2>2. Matches(asked.match, asked.query, kept)
      BY <2>1 DEF Matches
    <2>. QED
      BY <1>1, <1>2, <2>1, <2>2, SamePlaceGood
  <1>8. ASSUME given = TRUE
        PROVE  ViewGood(SelectMatch(asked, kept, terminal, dashView.top - 1, 1), kept, expired, terminal)
    <2>1. dashView.top - 1 \in Int
      BY <1>3 DEF Views
    <2>. QED
      BY <1>1, <1>7, <1>8, <2>1, SelectGood
  <1>9. \/ dashView' = u
        \/ dashView' = IF given THEN SelectMatch(asked, kept, terminal, dashView.top - 1, 1) ELSE asked
    BY <1>4, <1>5, Zenon DEF TypeKey
  <1>. QED
    BY <1>6, <1>7, <1>8, <1>9

LEMMA CommandGood ==
  ASSUME DashInv, CommandKey
  PROVE  ViewGood(dashView', kept, expired, terminal)
  <1>1. HistoryAt(kept, expired) /\ terminal \in SizeSet /\ ViewGood(dashView, kept, expired, terminal) /\ kept \in Histories
    BY DEF DashInv, HistoryAt
  <1>2. PICK b : b = expired + Len(kept) - 1
    OBVIOUS
  <1>3. dashView \in Views(expired, b) /\ Matches(dashView.match, dashView.query, kept)
    BY <1>1, <1>2 DEF ViewGood
  <1>4. PICK paused : paused = Paused(dashView, kept, terminal)
    OBVIOUS
  <1>5. ViewGood(paused, kept, expired, terminal)
    BY <1>1, <1>4, PausedGood DEF Keeps
  <1>6. CASE Escape
    <2>1. PICK u : u = [dashView EXCEPT !.sel = Nothing]
      OBVIOUS
    <2>2. PICK q : q = [dashView EXCEPT !.query = FALSE, !.match = NoMatch]
      OBVIOUS
    <2>3. ViewGood(u, kept, expired, terminal)
      <3>1. /\ u \in Views(expired, b) /\ ViewPlace(u) = ViewPlace(dashView) /\ u.follow = dashView.follow
            /\ u.match = dashView.match /\ u.query = dashView.query
        <4>1. Nothing \in Selections(expired, b)
          BY DEF Selections
        <4>. QED
          BY <1>3, <2>1, <4>1 DEF Views, ViewPlace
      <3>. QED
        BY <1>1, <1>2, <1>3, <3>1, SamePlaceGood
    <2>4. ViewGood(q, kept, expired, terminal)
      <3>1. /\ q \in Views(expired, b) /\ ViewPlace(q) = ViewPlace(dashView) /\ q.follow = dashView.follow
            /\ q.match = NoMatch
        BY <1>3, <2>2, NoMatchIs DEF Views, ViewPlace
      <3>2. Matches(q.match, q.query, kept)
        BY <3>1 DEF Matches
      <3>. QED
        BY <1>1, <1>2, <3>1, <3>2, SamePlaceGood
    <2>. QED
      BY <1>6, <2>1, <2>2, <2>3, <2>4 DEF Escape
  <1>7. ASSUME NEW key \in {"up", "down", "pageUp", "pageDown"},
               dashView' = Scrolls(paused, terminal, Distance(terminal)[key])
        PROVE  ViewGood(dashView', kept, expired, terminal)
    <2>1. Distance(terminal)[key] \in Int
      BY <1>1, SizesAre DEF Distance
    <2>. QED
      BY <1>1, <1>5, <1>7, <2>1, ScrollsGood
  <1>8. CASE dashView' = Clamped(At(paused, Origin), kept, terminal)
    <2>1. PICK u : u = At(paused, Origin)
      OBVIOUS
    <2>2. u \in Views(expired, b) /\ u.match = paused.match /\ u.query = paused.query
      BY <1>2, <1>5, <2>1 DEF At, Origin, ViewGood, Views
    <2>3. Matches(u.match, u.query, kept)
      BY <1>5, <2>2 DEF ViewGood
    <2>. QED
      BY <1>1, <1>2, <1>8, <2>1, <2>2, <2>3, ClampedGood
  <1>9. CASE dashView' = Clamped(Resumed(dashView), kept, terminal)
    <2>1. PICK u : u = Resumed(dashView)
      OBVIOUS
    <2>2. u \in Views(expired, b) /\ u.match = dashView.match /\ u.query = dashView.query
      BY <1>3, <2>1 DEF Resumed, Views
    <2>3. Matches(u.match, u.query, kept)
      BY <1>3, <2>2
    <2>. QED
      BY <1>1, <1>2, <1>9, <2>1, <2>2, <2>3, ClampedGood
  <1>10. CASE dashView' = [dashView EXCEPT !.typing = TRUE]
    <2>1. PICK u : u = [dashView EXCEPT !.typing = TRUE]
      OBVIOUS
    <2>2. /\ u \in Views(expired, b) /\ ViewPlace(u) = ViewPlace(dashView) /\ u.follow = dashView.follow
          /\ u.match = dashView.match /\ u.query = dashView.query
      BY <1>3, <2>1 DEF Views, ViewPlace
    <2>3. Matches(u.match, u.query, kept)
      BY <1>3, <2>2
    <2>. QED
      BY <1>1, <1>2, <1>10, <2>1, <2>2, <2>3, SamePlaceGood
  <1>11. ASSUME dashView.query, NEW start \in Int, NEW direction \in {1, -1},
                dashView' = SelectMatch(dashView, kept, terminal, start, direction)
         PROVE  ViewGood(dashView', kept, expired, terminal)
    BY <1>1, <1>11, SelectGood
  <1>12. dashView.match \in Int /\ BackFrom(dashView, kept, terminal) \in Int
    BY <1>1, <1>3, BackFromIs DEF Views
  <1>13. \/ Escape
         \/ \E key \in {"up", "down", "pageUp", "pageDown"} :
              dashView' = Scrolls(paused, terminal, Distance(terminal)[key])
         \/ dashView' = Clamped(At(paused, Origin), kept, terminal)
         \/ dashView' = Clamped(Resumed(dashView), kept, terminal)
         \/ dashView' = [dashView EXCEPT !.typing = TRUE]
         \/ dashView.query /\ dashView' = SelectMatch(dashView, kept, terminal, dashView.match, 1)
         \/ /\ dashView.query
            /\ dashView' = SelectMatch(dashView, kept, terminal, BackFrom(dashView, kept, terminal), -1)
    BY <1>4, Zenon DEF CommandKey
  <1>14. 1 \in {1, -1} /\ -1 \in {1, -1}
    OBVIOUS
  <1>15. CASE dashView.query /\ dashView' = SelectMatch(dashView, kept, terminal, dashView.match, 1)
    BY <1>11, <1>12, <1>14, <1>15, Zenon
  <1>16. CASE /\ dashView.query
              /\ dashView' = SelectMatch(dashView, kept, terminal, BackFrom(dashView, kept, terminal), -1)
    BY <1>11, <1>12, <1>14, <1>16, Zenon
  <1>. QED
    BY <1>6, <1>7, <1>8, <1>9, <1>10, <1>13, <1>15, <1>16, Zenon

-----------------------------------------------------------------------------
\* A selection is of lines that are kept.
LEMMA PickedGood ==
  ASSUME NEW h, NEW first, NEW size, NEW v, ViewGood(v, h, first, size),
         NEW s \in Selections(first, first + Len(h) - 1), NEW u, u = [v EXCEPT !.sel = s]
  PROVE  ViewGood(u, h, first, size)
  <1>1. PICK b : b = first + Len(h) - 1
    OBVIOUS
  <1>2. v \in Views(first, b) /\ s \in Selections(first, b) /\ Matches(v.match, v.query, h)
    BY <1>1 DEF ViewGood
  <1>3. /\ u \in Views(first, b) /\ ViewPlace(u) = ViewPlace(v) /\ u.follow = v.follow
        /\ u.match = v.match /\ u.query = v.query
    BY <1>2 DEF Views, ViewPlace
  <1>4. Matches(u.match, u.query, h)
    BY <1>2, <1>3
  <1>. QED
    BY <1>1, <1>3, <1>4, SamePlaceGood

LEMMA VisiblePoint ==
  ASSUME NEW h, NEW first, HistoryAt(h, first), NEW size \in SizeSet, NEW a, NEW b, NEW v \in Views(a, b),
         NEW rows, rows = VisibleRows(h, first, ViewPlace(v), size), h # <<>>
  PROVE  /\ Len(rows) \in Nat /\ Len(rows) >= 1
         /\ \A r \in 1 .. Len(rows) : \A column, after :
              PointOn(h, first, rows[r], column, after) \in Points(first, first + Len(h) - 1)
  <1>1. ViewPlace(v).line \in Int /\ ViewPlace(v).offset \in Int
    BY DEF Views, ViewPlace
  <1>2. RowsGood(rows, h, first, size) /\ Len(rows) >= 1
    BY <1>1, VisibleGood DEF HistoryAt
  <1>3. Len(rows) \in Nat
    BY <1>2, SizesAre DEF RowsGood
  <1>4. ASSUME NEW r \in 1 .. Len(rows), NEW column, NEW after
        PROVE  PointOn(h, first, rows[r], column, after) \in Points(first, first + Len(h) - 1)
    <2>1. VisibleRow(rows[r], h, first, size.width) /\ size.width \in Widths
      BY <1>2, SizesAre DEF RowsGood
    <2>. QED
      BY <2>1, PointIs
  <1>. QED
    BY <1>2, <1>3, <1>4

\* A selection that takes another point
LEMMA SelectionTo ==
  ASSUME NEW a, NEW b, NEW s \in Selections(a, b), s.valid, NEW p \in Points(a, b),
         NEW column \in Int, NEW edge \in Int
  PROVE  /\ [s EXCEPT !.focus = p, !.column = column, !.edge = edge] \in Selections(a, b)
         /\ [s EXCEPT !.focus = p, !.active = FALSE, !.edge = edge] \in Selections(a, b)
         /\ [s EXCEPT !.focus = p] \in Selections(a, b)
         /\ s.column \in Int /\ s.edge \in Int
  <1>1. s \in [valid : {TRUE}, active : BOOLEAN, anchor : Points(a, b), focus : Points(a, b),
               edge : Int, column : Int]
    <2>1. s # Nothing
      <3>. SUFFICES ASSUME s = Nothing PROVE FALSE
        OBVIOUS
      <3>1. s.valid = FALSE
        BY DEF Nothing
      <3>. QED
        BY <3>1
    <2>. QED
      BY <2>1 DEF Selections
  <1>2. [s EXCEPT !.focus = p, !.column = column, !.edge = edge] \in Selections(a, b)
    BY <1>1 DEF Selections
  <1>3. [s EXCEPT !.focus = p, !.active = FALSE, !.edge = edge] \in Selections(a, b)
    BY <1>1 DEF Selections
  <1>4. [s EXCEPT !.focus = p] \in Selections(a, b)
    BY <1>1 DEF Selections
  <1>. QED
    BY <1>1, <1>2, <1>3, <1>4

LEMMA TakeMouseGood ==
  ASSUME DashInv, TakeMouse
  PROVE  ViewGood(dashView', kept, expired, terminal)
  <1>1. HistoryAt(kept, expired) /\ terminal \in SizeSet /\ ViewGood(dashView, kept, expired, terminal)
    BY DEF DashInv
  <1>2. PICK b : b = expired + Len(kept) - 1
    OBVIOUS
  <1>3. dashView \in Views(expired, b) /\ dashView.sel \in Selections(expired, b) /\ kept # <<>>
    BY <1>1, <1>2 DEF ViewGood, Views, TakeMouse
  <1>4. PICK rows : rows = VisibleRows(kept, expired, ViewPlace(dashView), terminal)
    OBVIOUS
  <1>5. PICK place \in MousePlaces :
          \/ MouseDown(RowAt(rows, place[2]), place[1], place[2])
          \/ MouseDrag(RowAt(rows, place[2]), place[1], place[2])
          \/ MouseUp(RowAt(rows, place[2]), place[1], place[2])
    BY <1>4, Zenon DEF TakeMouse
  <1>6. PICK column \in Int, row \in Int : column = place[1] /\ row = place[2]
    BY DashAssumption
  <1>7. PICK at : at = RowAt(rows, row)
    OBVIOUS
  <1>8. Len(rows) \in Nat /\ Len(rows) >= 1
    BY <1>1, <1>3, <1>4, VisiblePoint
  <1>9. \A after : PointOn(kept, expired, at, column, after) \in Points(expired, b)
    <2>1. PICK n \in Int : n = Len(rows)
      BY <1>8
    <2>2. PICK m : m = Min({row, n})
      OBVIOUS
    <2>3. m = IF row <= n THEN row ELSE n
      BY <2>2, MinOfTwo
    <2>4. m \in Int /\ 1 \in Int
      BY <2>3
    <2>5. Max({1, m}) = IF 1 <= m THEN m ELSE 1
      BY <2>4, MinOfTwo
    <2>6. Max({1, m}) \in 1 .. n
      BY <1>8, <2>1, <2>3, <2>4, <2>5
    <2>7. at = rows[Max({1, m})]
      BY <1>7, <2>1, <2>2 DEF RowAt
    <2>8. \A r \in 1 .. n : \A c, after : PointOn(kept, expired, rows[r], c, after) \in Points(expired, b)
      BY <1>1, <1>2, <1>3, <1>4, <2>1, VisiblePoint
    <2>. QED
      BY <2>6, <2>7, <2>8
  <1>10. CASE MouseDown(at, column, row)
    <2>1. PICK p \in Points(expired, b) : p = PointOn(kept, expired, at, column, FALSE)
      BY <1>9
    <2>2. PICK s : s = [valid |-> TRUE, active |-> TRUE, anchor |-> p, focus |-> p, edge |-> 0, column |-> column]
      OBVIOUS
    <2>3. s \in Selections(expired, b)
      BY <2>2 DEF Selections
    <2>4. dashView' = [Paused(dashView, kept, terminal) EXCEPT !.sel = s]
      BY <1>10, <2>1, <2>2 DEF MouseDown
    <2>5. ViewGood(Paused(dashView, kept, terminal), kept, expired, terminal)
      BY <1>1, PausedGood DEF HistoryAt, Keeps
    <2>. QED
      BY <1>2, <2>3, <2>4, <2>5, PickedGood
  <1>11. CASE MouseDrag(at, column, row)
    <2>1. PICK p \in Points(expired, b) : p = PointOn(kept, expired, at, column, TRUE)
      BY <1>9
    <2>2. PICK edge \in Int : edge = Edge(row, terminal)
      BY DEF Edge
    <2>3. dashView.sel.valid
      BY <1>11 DEF MouseDrag
    <2>4. PICK s : s = [dashView.sel EXCEPT !.focus = p, !.column = column, !.edge = edge]
      OBVIOUS
    <2>5. s \in Selections(expired, b)
      BY <1>3, <2>3, <2>4, SelectionTo
    <2>6. dashView' = [dashView EXCEPT !.sel = s]
      BY <1>3, <1>11, <2>1, <2>2, <2>4 DEF MouseDrag, Views
    <2>. QED
      BY <1>1, <1>2, <2>5, <2>6, PickedGood
  <1>12. CASE MouseUp(at, column, row)
    <2>1. PICK p \in Points(expired, b) : p = PointOn(kept, expired, at, column, TRUE)
      BY <1>9
    <2>2. dashView.sel.valid
      BY <1>12 DEF MouseUp
    <2>3. PICK s : s = [dashView.sel EXCEPT !.focus = p, !.active = FALSE, !.edge = 0]
      OBVIOUS
    <2>4. s \in Selections(expired, b)
      <3>1. PICK edge \in Int : edge = 0
        OBVIOUS
      <3>2. s = [dashView.sel EXCEPT !.focus = p, !.active = FALSE, !.edge = edge]
        BY <2>3, <3>1
      <3>. QED
        BY <1>3, <2>2, <3>2, SelectionTo
    <2>5. dashView' = [dashView EXCEPT !.sel = s]
      BY <1>3, <1>12, <2>1, <2>3 DEF MouseUp, Views
    <2>. QED
      BY <1>1, <1>2, <2>4, <2>5, PickedGood
  <1>. QED
    BY <1>5, <1>6, <1>7, <1>10, <1>11, <1>12

LEMMA ResizeGood ==
  ASSUME DashInv, NEW size \in SizeSet, Resize(size)
  PROVE  DashInv'
  <1>1. HistoryAt(kept, expired) /\ FrameGood /\ ViewGood(dashView, kept, expired, terminal)
    BY DEF DashInv
  <1>2. PICK v : v = Clamped(dashView, kept, size)
    OBVIOUS
  <1>3. v \in Views(expired, expired + Len(kept) - 1) /\ Matches(v.match, v.query, kept)
    <2>1. ViewGood(v, kept, expired, size)
      BY <1>1, <1>2, ClampedGood DEF HistoryAt, ViewGood
    <2>. QED
      BY <2>1 DEF ViewGood
  <1>4. terminal' = size /\ RenderFrame(v, size, TRUE) /\ kept' = kept /\ expired' = expired
    BY <1>2 DEF Resize
  <1>5. /\ ViewGood(dashView', kept, expired, size)
        /\ DrawnGood(drawn') /\ screen' = FullFrame(LogLines, 0, drawn')
        /\ drawn' = Snapshot(kept, expired, dashView', size) /\ dirty' = 0
    BY <1>1, <1>3, <1>4, RenderGood
  <1>. QED
    BY <1>1, <1>4, <1>5 DEF DashInv, FrameGood

\* The ticker draws what the view names, unless it is drawn already.
LEMMA DrawGood ==
  ASSUME DashInv, NEW v, ViewGood(v, kept, expired, terminal),
         ViewPlace(v) = ViewPlace(dashView) => v.query = dashView.query /\ v.sel = dashView.sel,
         Draw(v), UNCHANGED <<kept, expired, terminal>>
  PROVE  DashInv'
  <1>1. HistoryAt(kept, expired) /\ FrameGood /\ terminal \in SizeSet /\ dirty \in Nat
    BY DEF DashInv
  <1>2. v \in Views(expired, expired + Len(kept) - 1) /\ Matches(v.match, v.query, kept)
    BY DEF ViewGood
  <1>3. CASE RenderFrame(v, terminal, FALSE)
    <2>1. /\ ViewGood(dashView', kept, expired, terminal)
          /\ DrawnGood(drawn') /\ screen' = FullFrame(LogLines, 0, drawn')
          /\ drawn' = Snapshot(kept, expired, dashView', terminal) /\ dirty' = 0
      BY <1>1, <1>2, <1>3, RenderGood
    <2>. QED
      BY <1>1, <2>1 DEF DashInv, FrameGood
  <1>4. CASE /\ ~(dirty > 0 \/ ViewPlace(v) # ViewPlace(dashView))
             /\ dashView' = v /\ UNCHANGED <<drawn, screen, dirty>>
    <2>1. drawn = Snapshot(kept, expired, dashView, terminal)
      BY <1>1, <1>4 DEF DashInv
    <2>2. Snapshot(kept, expired, v, terminal) = Snapshot(kept, expired, dashView, terminal)
      BY <1>4 DEF Snapshot
    <2>3. /\ kept' = kept /\ expired' = expired /\ terminal' = terminal /\ dashView' = v
          /\ drawn' = drawn /\ screen' = screen /\ dirty' = dirty
      BY <1>4
    <2>4. FrameGood'
      BY <1>1, <2>3 DEF FrameGood
    <2>. QED
      BY <1>1, <2>1, <2>2, <2>3, <2>4 DEF DashInv
  <1>. QED
    BY <1>3, <1>4 DEF Draw

LEMMA TickGood ==
  ASSUME DashInv, Frame
  PROVE  DashInv'
  <1>1. HistoryAt(kept, expired) /\ terminal \in SizeSet /\ ViewGood(dashView, kept, expired, terminal)
    BY DEF DashInv
  <1>2. UNCHANGED <<kept, expired, terminal>>
    BY DEF Frame
  <1>3. CASE ~Held
    <2>1. Draw(dashView)
      BY <1>3 DEF Frame
    <2>. QED
      BY <1>1, <1>2, <2>1, DrawGood
  <1>4. CASE Held
    <2>1. PICK paused : paused = Paused(dashView, kept, terminal)
      OBVIOUS
    <2>2. PICK moved : moved = Scrolls(paused, terminal, dashView.sel.edge)
      OBVIOUS
    <2>3. PICK view : view = Dragged(moved)
      OBVIOUS
    <2>4. Draw(view)
      BY <1>4, <2>1, <2>2, <2>3 DEF Frame
    <2>5. PICK b : b = expired + Len(kept) - 1
      OBVIOUS
    <2>6. dashView.sel \in Selections(expired, b) /\ dashView.sel.valid /\ kept # <<>>
      BY <1>1, <1>4, <2>5 DEF Held, ViewGood, Views
    <2>7. dashView.sel.edge \in Int /\ dashView.sel.column \in Int
      <3>1. dashView.sel # Nothing
        <4>. SUFFICES ASSUME dashView.sel = Nothing PROVE FALSE
          OBVIOUS
        <4>1. dashView.sel.valid = FALSE
          BY DEF Nothing
        <4>. QED
          BY <2>6, <4>1
      <3>. QED
        BY <2>6, <3>1 DEF Selections
    <2>8. ViewGood(paused, kept, expired, terminal) /\ paused.sel = dashView.sel /\ paused.query = dashView.query
      <3>1. kept \in Histories
        BY <1>1 DEF HistoryAt
      <3>2. Keeps(paused, dashView, kept, expired, terminal)
        BY <1>1, <2>1, <3>1, PausedGood
      <3>. QED
        BY <3>2 DEF Keeps
    <2>9. ViewGood(moved, kept, expired, terminal) /\ moved.sel = dashView.sel /\ moved.query = dashView.query
      BY <1>1, <2>2, <2>7, <2>8, ScrollsGood
    <2>10. CASE ViewPlace(moved) = ViewPlace(dashView)
      <3>1. view = moved
        BY <2>3, <2>10 DEF Dragged
      <3>. QED
        BY <1>2, <2>4, <2>9, <3>1, DrawGood
    <2>11. CASE ViewPlace(moved) # ViewPlace(dashView)
      <3>1. PICK rows, down : /\ rows = VisibleRows(kept, expired, ViewPlace(moved), terminal)
                              /\ down = (dashView.sel.edge > 0)
        OBVIOUS
      <3>2. PICK p : p = PointOn(kept, expired, IF down THEN Last(rows) ELSE Head(rows), moved.sel.column, down)
        OBVIOUS
      <3>3. view = [moved EXCEPT !.sel.focus = p]
        BY <2>3, <2>11, <3>1, <3>2 DEF Dragged, TakeRow
      <3>4. moved \in Views(expired, b)
        BY <2>5, <2>9 DEF ViewGood
      <3>5. p \in Points(expired, b)
        <4>1. /\ Len(rows) \in Nat /\ Len(rows) >= 1
              /\ \A r \in 1 .. Len(rows) : \A column, after :
                   PointOn(kept, expired, rows[r], column, after) \in Points(expired, b)
          BY <1>1, <2>5, <2>6, <3>1, <3>4, VisiblePoint
        <4>2. Len(rows) \in 1 .. Len(rows) /\ 1 \in 1 .. Len(rows)
          BY <4>1
        <4>3. PICK r \in 1 .. Len(rows) : rows[r] = IF down THEN Last(rows) ELSE Head(rows)
          BY <4>2 DEF Last
        <4>. QED
          BY <3>2, <4>1, <4>3
      <3>6. PICK s : s = [moved.sel EXCEPT !.focus = p]
        OBVIOUS
      <3>7. s \in Selections(expired, b)
        BY <2>6, <2>7, <2>9, <3>5, <3>6, SelectionTo
      <3>8. view = [moved EXCEPT !.sel = s]
        BY <3>3, <3>4, <3>6 DEF Views
      <3>9. ViewGood(view, kept, expired, terminal)
        BY <2>5, <2>9, <3>7, <3>8, PickedGood
      <3>10. ViewPlace(view) = ViewPlace(moved)
        BY <3>4, <3>8 DEF ViewPlace, Views
      <3>. QED
        BY <1>2, <2>4, <2>11, <3>9, <3>10, DrawGood
    <2>. QED
      BY <2>10, <2>11
  <1>. QED
    BY <1>3, <1>4

LEMMA DashStepGood == DashInv /\ [DashNext]_dashVars => DashInv'
  <1>. SUFFICES ASSUME DashInv, [DashNext]_dashVars PROVE DashInv'
    OBVIOUS
  <1>1. CASE TakeLine
    BY <1>1, TakeLineGood
  <1>2. CASE TakeKey
    <2>1. ViewGood(dashView', kept, expired, terminal)
      BY <1>2, TypeGood, CommandGood DEF TakeKey
    <2>2. Due /\ kept' = kept /\ expired' = expired /\ terminal' = terminal /\ UNCHANGED <<drawn, screen>>
      BY <1>2 DEF TakeKey
    <2>3. HistoryAt(kept', expired') /\ ViewGood(dashView', kept', expired', terminal)
      BY <2>1, <2>2 DEF DashInv
    <2>. QED
      BY <2>2, <2>3, DueGood
  <1>3. CASE TakeMouse
    <2>1. ViewGood(dashView', kept, expired, terminal)
      BY <1>3, TakeMouseGood
    <2>2. Due /\ kept' = kept /\ expired' = expired /\ terminal' = terminal /\ UNCHANGED <<drawn, screen>>
      BY <1>3 DEF TakeMouse
    <2>3. HistoryAt(kept', expired') /\ ViewGood(dashView', kept', expired', terminal)
      BY <2>1, <2>2 DEF DashInv
    <2>. QED
      BY <2>2, <2>3, DueGood
  <1>4. CASE \E size \in {Sizes[i] : i \in DOMAIN Sizes} : Resize(size)
    BY <1>4, ResizeGood DEF SizeSet
  <1>5. CASE Frame
    BY <1>5, TickGood
  <1>6. CASE UNCHANGED dashVars
    <2>1. /\ kept' = kept /\ expired' = expired /\ dashView' = dashView /\ terminal' = terminal
          /\ drawn' = drawn /\ screen' = screen /\ dirty' = dirty
      BY <1>6 DEF dashVars
    <2>2. FrameGood'
      BY <2>1 DEF FrameGood, DashInv
    <2>. QED
      BY <2>1, <2>2 DEF DashInv
  <1>. QED
    BY <1>1, <1>2, <1>3, <1>4, <1>5, <1>6 DEF DashNext

\* The invariant of the dashboard holds whatever is logged, typed and clicked,
\* and whatever sizes the terminal takes.
THEOREM DashInvariance == DashSpec => []DashInv
  <1>1. DashInit => DashInv
    BY InitGood
  <1>2. DashInv /\ [DashNext]_dashVars => DashInv'
    BY DashStepGood
  <1>. QED
    BY <1>1, <1>2, PTL DEF DashSpec

-----------------------------------------------------------------------------
PausedStep ==
  expired' + Len(kept') > expired + Len(kept) /\ ~dashView.follow /\ kept # <<>> =>
    IF expired + dashView.top >= expired'
      THEN expired' + dashView'.top = expired + dashView.top /\ dashView'.offset = dashView.offset
      ELSE ViewPlace(dashView') = Origin

LEMMA PausedStepHolds == DashInv /\ [DashNext]_dashVars => [PausedStep]_dashVars
  <1>. SUFFICES ASSUME DashInv, DashNext, expired' + Len(kept') > expired + Len(kept),
                       ~dashView.follow, kept # <<>>
                PROVE  IF expired + dashView.top >= expired'
                         THEN /\ expired' + dashView'.top = expired + dashView.top
                              /\ dashView'.offset = dashView.offset
                         ELSE ViewPlace(dashView') = Origin
    BY DEF PausedStep
  <1>1. HistoryAt(kept, expired) /\ terminal \in SizeSet /\ ViewGood(dashView, kept, expired, terminal)
    BY DEF DashInv
  <1>2. kept \in Histories /\ expired \in Nat /\ Len(kept) \in Nat
    BY <1>1 DEF HistoryAt, Histories
  <1>3. TakeLine
    <2>. SUFFICES ASSUME ~TakeLine PROVE FALSE
      OBVIOUS
    <2>1. kept' = kept /\ expired' = expired
      BY DEF DashNext, TakeKey, TakeMouse, Resize, Frame
    <2>. QED
      BY <1>2, <2>1
  <1>4. PICK line, e : line = LogLines[expired + Len(kept) + 1] /\ e = Evicted(kept, line)
    OBVIOUS
  <1>5. /\ expired + Len(kept) < Len(LogLines)
        /\ kept' = After(kept, line, e) /\ expired' = expired + e
        /\ dashView' = Clamped(AfterAppend(dashView, expired + e, e), After(kept, line, e), terminal)
    BY <1>3, <1>4, Zenon DEF TakeLine, After
  <1>6. line \in ToSet(LogLines)
    <2>1. 0 \in 0 .. Len(kept) + 1
      BY <1>2
    <2>. QED
      BY <1>1, <1>4, <1>5, <2>1, HistoryAfter
  <1>7. e \in 0 .. Len(kept) + 1
    BY <1>2, <1>4, <1>6, EvictedIs
  <1>8. PICK c : c = dashView'
    OBVIOUS
  <1>9. IF e <= dashView.top THEN c.top = dashView.top - e /\ c.offset = dashView.offset
        ELSE ViewPlace(c) = Origin
    BY <1>1, <1>2, <1>5, <1>6, <1>7, <1>8, PausedTake
  <1>10. dashView.top \in Nat
    BY <1>1 DEF ViewGood, Views
  <1>. QED
    BY <1>2, <1>5, <1>7, <1>8, <1>9, <1>10

\* A line that arrives does not move a paused view, whatever the history lets go.
THEOREM PausedViewsStay == DashSpec => PausedViewStays
  <1>1. DashInv /\ [DashNext]_dashVars => [PausedStep]_dashVars
    BY PausedStepHolds
  <1>. QED
    BY <1>1, DashInvariance, PTL DEF DashSpec, PausedViewStays, PausedStep

-----------------------------------------------------------------------------
\* What is marked of a row is what the clipboard gets of it.
MarkedIsCopied(h, first, sel, row) ==
  (row.offset .. row.end - 1) \cap Marked(sel, row.seq, Len(h[row.seq - first + 1].cells)) =
  (row.offset .. row.end - 1) \cap
    LET text == SelectedText(h, first, sel)
    IN UNION {text[i].cells : i \in {j \in DOMAIN text : text[j].seq = row.seq}}

LEMMA CopiedOfRow ==
  ASSUME NEW h, NEW first, HistoryAt(h, first), NEW sel \in Selections(first, first + Len(h) - 1), sel.valid,
         NEW w \in Widths, NEW row, VisibleRow(row, h, first, w)
  PROVE  MarkedIsCopied(h, first, sel, row)
  <1>1. PICK b : b = first + Len(h) - 1
    OBVIOUS
  <1>2. first \in Nat /\ Len(h) \in Nat /\ b \in Int
    BY <1>1 DEF HistoryAt, Histories
  <1>3. sel \in [valid : {TRUE}, active : BOOLEAN, anchor : Points(first, b), focus : Points(first, b),
                 edge : Int, column : Int]
    <2>1. sel # Nothing
      <3>. SUFFICES ASSUME sel = Nothing PROVE FALSE
        OBVIOUS
      <3>1. sel.valid = FALSE
        BY DEF Nothing
      <3>. QED
        BY <3>1
    <2>. QED
      BY <1>1, <2>1 DEF Selections
  <1>4. PICK from, to : from = Ordered(sel)[1] /\ to = Ordered(sel)[2]
    OBVIOUS
  <1>5. from \in Points(first, b) /\ to \in Points(first, b)
    <2>1. \/ from = sel.anchor /\ to = sel.focus
          \/ from = sel.focus /\ to = sel.anchor
      BY <1>4 DEF Ordered
    <2>. QED
      BY <1>3, <2>1
  <1>6. /\ from.seq \in first .. b /\ to.seq \in first .. b /\ from.offset \in Nat /\ to.offset \in Nat
    BY <1>5 DEF Points
  <1>7. PICK q, n, o, m : /\ q = row.seq /\ n = Len(h[row.seq - first + 1].cells)
                          /\ o = row.offset /\ m = row.end
    OBVIOUS
  <1>8. q \in first .. b /\ o \in Nat /\ m \in Nat /\ m <= n
    BY <1>1, <1>7, VisibleDrawn
  <1>9. n \in Nat
    <2>1. h \in Histories /\ q - first + 1 \in 1 .. Len(h)
      <3>1. PICK d \in Nat : d = Len(h)
        BY <1>2
      <3>2. b = first + d - 1
        BY <1>1, <3>1
      <3>3. q - first + 1 \in 1 .. d
        BY <1>2, <1>8, <3>2
      <3>. QED
        BY <3>1, <3>3 DEF HistoryAt
    <2>2. h[q - first + 1] \in ToSet(LogLines)
      BY <2>1 DEF Histories
    <2>. QED
      BY <1>7, <2>2, LinesAre
  <1>. DEFINE Length(seq) == Len(h[seq - first + 1].cells)
              Start(seq) == IF seq = from.seq THEN from.offset ELSE 0
              Stop(seq) == IF seq = to.seq THEN Min({to.offset, Length(seq)}) ELSE Length(seq)
              End(seq) == Max({Start(seq), Stop(seq)})
              text == SelectedText(h, first, sel)
  <1>10. text = [i \in 1 .. to.seq - from.seq + 1 |->
                   [seq |-> from.seq + i - 1, cells |-> Start(from.seq + i - 1) .. End(from.seq + i - 1) - 1]]
    <2>1. ~(~sel.valid \/ from.seq < first \/ to.seq > first + Len(h) - 1)
      BY <1>1, <1>2, <1>6
    <2>. QED
      BY <1>4, <2>1, Zenon DEF SelectedText
  <1>. DEFINE here == {j \in DOMAIN text : text[j].seq = q}
              copied == UNION {text[i].cells : i \in here}
  <1>11. Marked(sel, q, n) = {x \in 0 .. n - 1 : /\ from.seq <= q /\ q <= to.seq
                                                 /\ q = from.seq => x >= from.offset
                                                 /\ q = to.seq => x < to.offset}
    BY <1>3, <1>4 DEF Marked
  <1>12. PICK s, e : s = Start(q) /\ e = End(q)
    OBVIOUS
  <1>13. /\ s \in Nat /\ s = (IF q = from.seq THEN from.offset ELSE 0)
         /\ \A x \in Nat : s <= x => (x < e <=> x < n /\ (q = to.seq => x < to.offset))
    <2>1. s \in Nat /\ s = (IF q = from.seq THEN from.offset ELSE 0)
      BY <1>6, <1>12
    <2>2. PICK k : k = Stop(q)
      OBVIOUS
    <2>3. Length(q) = n
      BY <1>7
    <2>4. to.offset \in Int /\ n \in Int
      BY <1>6, <1>9
    <2>5. Min({to.offset, n}) = IF to.offset <= n THEN to.offset ELSE n
      BY <2>4, MinOfTwo
    <2>6. k = IF q = to.seq THEN Min({to.offset, n}) ELSE n
      BY <2>2, <2>3
    <2>7. k \in Int /\ s \in Int
      BY <2>1, <2>4, <2>5, <2>6
    <2>8. Max({s, k}) = IF s <= k THEN k ELSE s
      BY <2>7, MinOfTwo
    <2>9. e = Max({s, k})
      BY <1>12, <2>2
    <2>. HIDE DEF Start, Stop, End, Length, text, here, copied
    <2>10. ASSUME NEW x \in Nat, s <= x PROVE x < e <=> x < n /\ (q = to.seq => x < to.offset)
      <3>1. x < e <=> x < k
        BY <2>7, <2>8, <2>9, <2>10
      <3>2. CASE q = to.seq
        BY <2>4, <2>5, <2>6, <3>1, <3>2
      <3>3. CASE q # to.seq
        BY <2>6, <3>1, <3>3
      <3>. QED
        BY <3>2, <3>3
    <2>. QED
      BY <2>1, <2>10
  <1>. HIDE DEF Start, End, text
  <1>14. DOMAIN text = 1 .. to.seq - from.seq + 1
    BY <1>10
  <1>15. \A j \in DOMAIN text : /\ text[j].seq = from.seq + j - 1
                                /\ text[j].cells = Start(from.seq + j - 1) .. End(from.seq + j - 1) - 1
    BY <1>10
  <1>16. \A j \in here : text[j].cells = s .. e - 1 /\ from.seq + j - 1 = q
    BY <1>12, <1>15
  <1>17. from.seq <= q /\ q <= to.seq => q - from.seq + 1 \in here
    <2>. SUFFICES ASSUME from.seq <= q, q <= to.seq PROVE q - from.seq + 1 \in here
      OBVIOUS
    <2>1. q - from.seq + 1 \in 1 .. to.seq - from.seq + 1 /\ from.seq + (q - from.seq + 1) - 1 = q
      <3>1. PICK a, z : a = from.seq /\ z = to.seq
        OBVIOUS
      <3>2. q \in Int /\ a \in Int /\ z \in Int /\ a <= q /\ q <= z
        BY <1>2, <1>6, <1>8, <3>1
      <3>3. q - a + 1 \in 1 .. z - a + 1 /\ a + (q - a + 1) - 1 = q
        BY <3>2
      <3>. QED
        BY <3>1, <3>3
    <2>. QED
      BY <1>14, <1>15, <2>1
  <1>18. here # {} => from.seq <= q /\ q <= to.seq
    <2>. SUFFICES ASSUME NEW j \in here PROVE from.seq <= q /\ q <= to.seq
      OBVIOUS
    <2>1. j \in 1 .. to.seq - from.seq + 1 /\ from.seq + j - 1 = q
      BY <1>14, <1>16
    <2>. QED
      BY <1>2, <1>6, <2>1
  <1>. HIDE DEF here
  <1>19. copied = IF from.seq <= q /\ q <= to.seq THEN s .. e - 1 ELSE {}
    <2>1. CASE from.seq <= q /\ q <= to.seq
      BY <1>16, <1>17, <2>1
    <2>2. CASE ~(from.seq <= q /\ q <= to.seq)
      BY <1>18, <2>2
    <2>. QED
      BY <2>1, <2>2
  <1>. HIDE DEF copied
  <1>20. ASSUME NEW x \in o .. m - 1 PROVE x \in Marked(sel, q, n) <=> x \in copied
    <2>1. x \in Nat /\ x \in 0 .. n - 1 /\ x < n
      BY <1>8, <1>9
    <2>2. CASE ~(from.seq <= q /\ q <= to.seq)
      BY <1>11, <1>19, <2>2
    <2>3. CASE from.seq <= q /\ q <= to.seq
      <3>1. x \in Marked(sel, q, n) <=> /\ q = from.seq => x >= from.offset
                                        /\ q = to.seq => x < to.offset
        BY <1>11, <2>1, <2>3
      <3>2. (q = from.seq => x >= from.offset) <=> s <= x
        BY <1>6, <1>13, <2>1
      <3>3. x \in copied <=> s <= x /\ x <= e - 1
        BY <1>13, <1>19, <2>1, <2>3
      <3>4. s <= x => (x <= e - 1 <=> (q = to.seq => x < to.offset))
        <4>1. e \in Int
          <5>1. PICK k : k = Stop(q)
            OBVIOUS
          <5>2. k \in Int
            <6>1. to.offset \in Int /\ n \in Int
              BY <1>6, <1>9
            <6>2. Min({to.offset, n}) \in Int
              BY <6>1, MinOfTwo
            <6>3. k = IF q = to.seq THEN Min({to.offset, n}) ELSE n
              BY <1>7, <5>1
            <6>. QED
              BY <6>1, <6>2, <6>3
          <5>3. e = Max({s, k})
            BY <1>12, <5>1 DEF End
          <5>4. s \in Int
            BY <1>13
          <5>. QED
            BY <5>2, <5>3, <5>4, MinOfTwo
        <4>. QED
          BY <1>13, <2>1, <4>1
      <3>. QED
        BY <3>1, <3>2, <3>3, <3>4
    <2>. QED
      BY <2>2, <2>3
  <1>21. (o .. m - 1) \cap Marked(sel, q, n) = (o .. m - 1) \cap copied
    BY <1>20
  <1>. QED
    BY <1>7, <1>21, Zenon DEF copied, here, text, MarkedIsCopied

LEMMA ShownIs ==
  ASSUME DashInv, dirty = 0
  PROVE  ShownAnew
  <1>1. HistoryAt(kept, expired) /\ terminal \in SizeSet /\ dashView \in Views(expired, expired + Len(kept) - 1)
    BY DEF DashInv, ViewGood
  <1>2. drawn = Snapshot(kept, expired, dashView, terminal) /\ screen = FullFrame(LogLines, 0, drawn)
    BY DEF DashInv, FrameGood
  <1>3. drawn.size = terminal /\ RowsGood(drawn.rows, kept, expired, terminal)
    BY <1>1, <1>2, SnapshotGood
  <1>4. FullFrame(kept, expired, drawn) = FullFrame(LogLines, 0, drawn)
    BY <1>1, <1>3, FullSame
  <1>. QED
    BY <1>2, <1>4 DEF ShownAnew

\* The rows of the screen are those of the view and blank ones below them.
LEMMA ScreenIs ==
  ASSUME DashInv, dirty = 0
  PROVE  /\ DOMAIN screen = 1 .. terminal.rows /\ terminal.rows \in Nat
         /\ LET rows == VisibleRows(kept, expired, ViewPlace(dashView), terminal)
            IN /\ RowsGood(rows, kept, expired, terminal)
               /\ \A r \in 1 .. terminal.rows :
                    screen[r] = IF r <= Len(rows)
                                  THEN Styled(kept, expired, rows[r], dashView.query, dashView.sel)
                                  ELSE BlankRow
  <1>1. HistoryAt(kept, expired) /\ terminal \in SizeSet /\ dashView \in Views(expired, expired + Len(kept) - 1)
    BY DEF DashInv, ViewGood
  <1>2. PICK d : d = Snapshot(kept, expired, dashView, terminal)
    OBVIOUS
  <1>3. d.size = terminal /\ RowsGood(d.rows, kept, expired, terminal) /\ d.query = dashView.query /\ d.sel = dashView.sel
    BY <1>1, <1>2, SnapshotGood
  <1>4. d.rows = VisibleRows(kept, expired, ViewPlace(dashView), terminal)
    BY <1>2 DEF Snapshot
  <1>5. screen = FullFrame(kept, expired, d)
    BY <1>2, ShownIs DEF ShownAnew
  <1>6. screen = [r \in 1 .. terminal.rows |->
           IF r <= Len(d.rows) THEN Styled(kept, expired, d.rows[r], dashView.query, dashView.sel) ELSE BlankRow]
    BY <1>3, <1>5 DEF FullFrame
  <1>7. terminal.rows \in Nat
    BY <1>1, SizesAre
  <1>. QED
    BY <1>3, <1>4, <1>6, <1>7, Zenon

LEMMA CopiedIs ==
  ASSUME DashInv, dirty = 0
  PROVE  CopiedIsMarked
  <1>. DEFINE sel == dashView.sel
              text == SelectedText(kept, expired, sel)
              rows == VisibleRows(kept, expired, ViewPlace(dashView), terminal)
              Copied(seq) == UNION {text[i].cells : i \in {j \in DOMAIN text : text[j].seq = seq}}
  <1>. SUFFICES ASSUME sel.valid, NEW r \in DOMAIN screen, ~screen[r].blank
                PROVE  screen[r].marks = screen[r].cells \cap Copied(screen[r].seq)
    BY DEF CopiedIsMarked
  <1>1. /\ HistoryAt(kept, expired) /\ sel \in Selections(expired, expired + Len(kept) - 1)
        /\ terminal.width \in Widths
    BY SizesAre DEF DashInv, ViewGood, Views
  <1>2. /\ r \in 1 .. terminal.rows /\ RowsGood(rows, kept, expired, terminal)
        /\ screen[r] = IF r <= Len(rows) THEN Styled(kept, expired, rows[r], dashView.query, sel) ELSE BlankRow
    BY ScreenIs
  <1>. HIDE DEF rows
  <1>3. r <= Len(rows)
    BY <1>2 DEF BlankRow
  <1>4. r \in 1 .. Len(rows)
    <2>1. r \in Nat /\ r >= 1 /\ Len(rows) \in Int
      BY <1>2 DEF RowsGood
    <2>. QED
      BY <1>3, <2>1
  <1>5. PICK row : row = rows[r]
    OBVIOUS
  <1>6. VisibleRow(row, kept, expired, terminal.width)
    BY <1>2, <1>4, <1>5 DEF RowsGood
  <1>7. /\ screen[r].seq = row.seq /\ screen[r].cells = row.offset .. row.end - 1
        /\ screen[r].marks =
             (row.offset .. row.end - 1) \cap Marked(sel, row.seq, Len(kept[row.seq - expired + 1].cells))
    BY <1>2, <1>3, <1>5 DEF Styled
  <1>. HIDE DEF sel
  <1>8. (row.offset .. row.end - 1) \cap Marked(sel, row.seq, Len(kept[row.seq - expired + 1].cells)) =
        (row.offset .. row.end - 1) \cap Copied(row.seq)
    <2>1. MarkedIsCopied(kept, expired, sel, row)
      BY <1>1, <1>6, CopiedOfRow
    <2>. QED
      BY <2>1, Zenon DEF MarkedIsCopied
  <1>. HIDE DEF Copied
  <1>. QED
    BY <1>7, <1>8

LEMMA EndIs ==
  ASSUME DashInv, dirty = 0
  PROVE  EndIsShown
  <1>. SUFFICES ASSUME dashView.follow, kept # <<>>
                PROVE  LET last == screen[Min({terminal.rows, Len(AllRows(kept, terminal.width))})]
                       IN ~last.blank /\ last.seq = expired + Len(kept) - 1
                            /\ \A o \in last.cells : o + 1 = Len(kept[Len(kept)].cells) \/ o + 1 \in last.cells
    BY Zenon DEF EndIsShown
  <1>1. HistoryAt(kept, expired) /\ terminal \in SizeSet /\ ViewGood(dashView, kept, expired, terminal)
    BY DEF DashInv
  <1>2. PICK w \in Widths : w = terminal.width
    BY <1>1, SizesAre
  <1>3. kept \in Histories /\ expired \in Nat /\ Len(kept) \in Nat /\ Len(kept) >= 1
    BY <1>1 DEF HistoryAt, Histories
  <1>4. PICK place : place = ViewPlace(dashView)
    OBVIOUS
  <1>5. PICK all, N : all = AllRows(kept, w) /\ N = Len(all)
    OBVIOUS
  <1>6. PICK F : F = FollowRow(kept, terminal)
    OBVIOUS
  <1>7. PICK R \in Nat : R = terminal.rows /\ R >= 1
    BY <1>1, SizesAre
  <1>8. F \in 1 .. N /\ N \in Nat /\ F = IF 1 <= N - R + 1 THEN N - R + 1 ELSE 1
    BY <1>1, <1>2, <1>3, <1>5, <1>6, <1>7, FollowIs, FirstRow
  <1>9. place = PlaceOf(kept, w, F)
    BY <1>1, <1>2, <1>4, <1>6 DEF ViewGood, Rests
  <1>10. RowOf(kept, w, place) = F /\ place.line \in Int /\ place.offset \in Int
    <2>1. F \in 1 .. Len(AllRows(kept, w))
      BY <1>5, <1>8
    <2>2. RowOf(kept, w, PlaceOf(kept, w, F)) = F /\ PlaceOf(kept, w, F) \in [line : 0 .. Len(kept) - 1, offset : Nat]
      BY <1>3, <2>1, RowOfPlace
    <2>. QED
      BY <1>3, <1>9, <2>2
  <1>11. PICK rows : rows = VisibleRows(kept, expired, place, terminal)
    OBVIOUS
  <1>12. ShownFrom(rows, all, F, expired, R)
    BY <1>1, <1>2, <1>3, <1>5, <1>7, <1>10, <1>11, VisibleAre
  <1>13. PICK k : k = Min({R, N})
    OBVIOUS
  <1>14. k = (IF R <= N THEN R ELSE N) /\ k \in 1 .. R /\ k = Len(rows) /\ F + k - 1 = N
    <2>1. R \in Int /\ N \in Int
      BY <1>8
    <2>2. k = (IF R <= N THEN R ELSE N)
      BY <1>13, <2>1, MinOfTwo
    <2>3. Len(rows) = IF N <= F + R - 1 THEN N - F + 1 ELSE R
      BY <1>5, <1>12 DEF ShownFrom
    <2>4. N >= 1
      BY <1>8
    <2>5. k \in 1 .. R /\ F + k - 1 = N
      BY <1>7, <1>8, <2>2, <2>4
    <2>6. k = Len(rows)
      <3>1. CASE R <= N
        <4>1. F = N - R + 1
          BY <1>7, <1>8, <3>1
        <4>2. \A x, y \in Int : y <= (y - x + 1) + x - 1 /\ y - (y - x + 1) + 1 = x
          OBVIOUS
        <4>3. N <= F + R - 1 /\ N - F + 1 = R
          BY <2>1, <4>1, <4>2
        <4>. QED
          BY <2>2, <2>3, <3>1, <4>3
      <3>2. CASE ~(R <= N)
        BY <1>7, <1>8, <2>2, <2>3, <3>2
      <3>. QED
        BY <3>1, <3>2
    <2>. QED
      BY <2>2, <2>5, <2>6
  <1>15. PICK row, at : row = rows[k] /\ at = all[N]
    OBVIOUS
  <1>16. row = [seq |-> expired + at.line, offset |-> at.offset, end |-> at.end]
    <2>1. k \in 1 .. Len(rows)
      BY <1>14
    <2>. QED
      BY <1>12, <1>14, <1>15, <2>1 DEF ShownFrom
  <1>17. PICK l \in 0 .. Len(kept) - 1 : l = Len(kept) - 1 /\ l + 1 = Len(kept)
    <2>1. Len(kept) - 1 \in 0 .. Len(kept) - 1 /\ (Len(kept) - 1) + 1 = Len(kept)
      BY <1>3
    <2>. QED
      BY <2>1
  <1>18. PICK f, n : f = Frags(kept, w, l) /\ n = Len(kept[l + 1].cells)
    OBVIOUS
  <1>19. Fragments(f, n) /\ Len(f) \in Nat /\ Len(f) >= 1 /\ n \in Nat
    BY <1>3, <1>18, FragsAre
  <1>20. N = RowNumber(kept, w, l, Len(f))
    <2>1. Before(kept, w, l + 1) = Before(kept, w, l) + Len(f) /\ Before(kept, w, l + 1) = N
      BY <1>3, <1>5, <1>17, <1>18, BeforeMore
    <2>. QED
      BY <2>1 DEF RowNumber
  <1>21. at = FragRow(kept, w, l, Len(f))
    <2>1. Len(f) \in 1 .. Len(Frags(kept, w, l))
      BY <1>18, <1>19
    <2>. QED
      BY <1>3, <1>5, <1>15, <1>20, <2>1, RowOfFragment
  <1>22. at.line = l /\ at.end = n
    BY <1>18, <1>19, <1>21 DEF FragRow, Fragments
  <1>23. at.offset \in Nat
    <2>1. at.offset = f[Len(f)].start /\ Len(f) \in 1 .. Len(f)
      BY <1>18, <1>19, <1>21 DEF FragRow
    <2>. QED
      BY <1>19, <2>1, FragmentsTyped
  <1>24. screen[k] = Styled(kept, expired, row, dashView.query, dashView.sel)
    <2>1. k \in 1 .. terminal.rows /\ k <= Len(rows)
      BY <1>7, <1>14
    <2>. QED
      BY <1>4, <1>11, <1>15, <2>1, ScreenIs
  <1>25. /\ screen[k].blank = FALSE /\ screen[k].seq = expired + Len(kept) - 1
         /\ screen[k].cells = at.offset .. n - 1
    <2>1. screen[k].blank = FALSE /\ screen[k].seq = row.seq /\ screen[k].cells = row.offset .. row.end - 1
      BY <1>24 DEF Styled
    <2>2. row.seq = expired + Len(kept) - 1
      BY <1>3, <1>16, <1>17, <1>22
    <2>. QED
      BY <1>16, <1>22, <2>1, <2>2
  <1>26. \A o \in at.offset .. n - 1 : o + 1 = n \/ o + 1 \in at.offset .. n - 1
    BY <1>19, <1>23
  <1>27. n = Len(kept[Len(kept)].cells)
    BY <1>17, <1>18
  <1>28. screen[Min({terminal.rows, Len(AllRows(kept, terminal.width))})] = screen[k]
    BY <1>2, <1>5, <1>7, <1>13
  <1>. QED
    BY <1>25, <1>26, <1>27, <1>28

\* Once a frame is drawn the terminal shows what the view names, as if it had
\* been drawn anew, whatever was scrolled, searched, selected and let go before.
THEOREM ScreenIsTrue == DashSpec => []ScreenShowsView
  <1>1. DashInv => ScreenShowsView
    <2>. SUFFICES ASSUME DashInv, dirty = 0 PROVE ShownAnew /\ EndIsShown /\ MatchHasQuery /\ CopiedIsMarked
      BY DEF ScreenShowsView
    <2>1. MatchHasQuery
      BY DEF MatchHasQuery, DashInv, ViewGood, Matches
    <2>. QED
      BY <2>1, ShownIs, EndIs, CopiedIs
  <1>. QED
    BY <1>1, DashInvariance, PTL
=============================================================================
