--------------------------- MODULE DashboardInput ---------------------------
(***************************************************************************)
(* How keys reach the terminal dashboard: readDashboardInput and           *)
(* parseDashboardInputEvent in internal/runtime/dashboard.go.  A goroutine *)
(* polls the terminal, reads what is there, in pieces that end anywhere,   *)
(* and decodes what it has: a key may be one byte or a sequence that       *)
(* begins with an escape, which is a key itself if nothing follows it for  *)
(* 25 ms.  The loop of the dashboard takes the events from a channel and   *)
(* cancels the goroutine when it ends.  A byte stands for itself or, in    *)
(* the position of the mouse and its button, for a number.                 *)
(***************************************************************************)
EXTENDS Orders, Sequences

CONSTANTS
  MaxKeys,    \* bound: the keys that are pressed
  ReadSize,   \* the buffer of a read, 32 in the code
  KeyChannel  \* the room of the channel, 16 in the code

VARIABLES
  pressed,    \* the keys, in order
  wire,       \* the bytes the terminal has sent and nobody has read
  pendingIn,  \* pending: the bytes read and not decoded
  reading,    \* what the goroutine does: "poll", "drain" or "done"
  keyQueue,   \* the channel
  handled,    \* the events the loop of the dashboard has taken
  detached,   \* the loop has ended and cancelled the goroutine
  joined      \* history: "[" or "O" was typed right after an escape still to be decoded

inputVars == <<pressed, wire, pendingIn, reading, keyQueue, handled, detached, joined>>

\* What terminals send for the keys of the dashboard and for some others.
BytesOf ==
  [escape |-> <<"esc">>, up |-> <<"esc", "[", "A">>, pageUp |-> <<"esc", "[", "5", "~">>,
   home |-> <<"esc", "O", "H">>, wheelUp |-> <<"esc", "[", "<", "64", "M">>,
   press |-> <<"esc", "[", "<", "0", "M">>, release |-> <<"esc", "[", "<", "0", "m">>,
   function |-> <<"esc", "[", "15", "~">>, text |-> <<"q">>, accent |-> <<"lead", "rest">>,
   interrupt |-> <<"^C">>, tab |-> <<"^I">>, bracket |-> <<"[">>, letterO |-> <<"O">>]
Keys == DOMAIN BytesOf

\* The event a key is for the dashboard; of a text it is what was typed.
EventOf(key) ==
  IF key \in {"function", "tab"} THEN "ignored"
  ELSE IF key = "wheelUp" THEN "up"
  ELSE IF key \in {"text", "bracket", "letterO"} THEN BytesOf[key][1]
  ELSE key

\* The bytes from @ to ~, which end a sequence, typed ones too.
Finals == {"A", "H", "M", "O", "[", "m", "q", "~"}

-----------------------------------------------------------------------------
More == [event |-> "more", used |-> 0]
Decoded(event, used) == [event |-> event, used |-> used]

\* The sequence that begins with an escape and a bracket, up to its end.
\* The mouse counts its wheel as a button of its own.
Control(data, end) ==
  IF data[3] = "<" THEN
     IF data[4] = "64" THEN "up" ELSE IF data[end] = "m" THEN "release" ELSE "press"
  ELSE IF SubSeq(data, 3, end) = <<"A">> THEN "up"
  ELSE IF SubSeq(data, 3, end) = <<"5", "~">> THEN "pageUp"
  ELSE "ignored"

\* The byte that ends it is the first that can.
EndOf(ends) == CHOOSE i \in ends : \A j \in ends : i <= j

\* Mutant: a sequence that is cut is decoded as far as it goes.
SequenceCut(data) ==
  LET ends == {i \in 3 .. Len(data) : data[i] \in Finals}
      end == IF ends = {} THEN 2 ELSE EndOf(ends)
  IN IF data[2] = "[" THEN Decoded(IF ends = {} THEN "ignored" ELSE Control(data, end), end)
     ELSE IF data[2] = "O" /\ Len(data) < 3 THEN More
     ELSE IF data[2] = "O" THEN Decoded(IF data[3] = "H" THEN "home" ELSE "ignored", 3)
     ELSE Decoded("escape", 1)

Sequence(data) ==
  LET ends == {i \in 3 .. Len(data) : data[i] \in Finals}
      end == EndOf(ends)
  IN IF data[2] = "["
       THEN IF ends = {} THEN More ELSE Decoded(Control(data, end), end)
     ELSE IF data[2] = "O"
       THEN IF Len(data) < 3 THEN More
            ELSE Decoded(IF data[3] = "H" THEN "home" ELSE "ignored", 3)
     ELSE Decoded("escape", 1)

\* parseDashboardInputEvent
Parse(data) ==
  IF data = <<>> THEN More
  ELSE CASE data[1] = "^C" -> Decoded("interrupt", 1)
         [] data[1] = "esc" -> IF Len(data) = 1 THEN More ELSE Sequence(data)
         [] data[1] \in {"^I", "rest"} -> Decoded("ignored", 1)
         [] data[1] = "lead" -> IF Len(data) = 1 THEN More ELSE Decoded("accent", 2)
         [] OTHER -> Decoded(data[1], 1)

-----------------------------------------------------------------------------
InputInit ==
  /\ pressed = <<>> /\ wire = <<>> /\ pendingIn = <<>> /\ keyQueue = <<>> /\ handled = <<>>
  /\ reading = "poll"
  /\ detached = FALSE /\ joined = FALSE

\* What is typed next to an escape that nobody has decoded looks like the middle of
\* a sequence.
JoinsEscape(key) ==
  LET undecoded == pendingIn \o wire
  IN /\ BytesOf[key][1] \in {"[", "O"}
     /\ undecoded # <<>> /\ undecoded[Len(undecoded)] = "esc"

\* A terminal sends what a key is in one piece.
Press(key) ==
  /\ Len(pressed) < MaxKeys
  /\ pressed' = Append(pressed, key)
  /\ wire' = wire \o BytesOf[key]
  /\ joined' = (joined \/ JoinsEscape(key))
  /\ UNCHANGED <<pendingIn, reading, keyQueue, handled, detached>>

\* Poll finds input, and as much of it is read as was there or fits.
ReadInput(n) ==
  /\ reading = "poll" /\ ~detached
  /\ n \in 1 .. Len(wire) /\ n <= ReadSize
  /\ pendingIn' = pendingIn \o SubSeq(wire, 1, n)
  /\ wire' = SubSeq(wire, n + 1, Len(wire))
  /\ reading' = "drain"
  /\ UNCHANGED <<pressed, keyQueue, handled, detached, joined>>

\* emit waits for room in the channel, or for the end.
EmitKey(event, rest) ==
  \/ /\ event = "ignored" \/ Len(keyQueue) < KeyChannel
     /\ keyQueue' = IF event = "ignored" THEN keyQueue ELSE Append(keyQueue, event)
     /\ pendingIn' = rest
     /\ reading' = "drain"
  \/ /\ event # "ignored" /\ detached
     /\ reading' = "done"
     /\ pendingIn' = rest
     /\ UNCHANGED keyQueue

Drain ==
  LET next == Parse(pendingIn)
  IN /\ reading = "drain"
     /\ IF next.event = "more"
          THEN reading' = "poll" /\ UNCHANGED <<pendingIn, keyQueue>>
          ELSE EmitKey(next.event, SubSeq(pendingIn, next.used + 1, Len(pendingIn)))
     /\ UNCHANGED <<pressed, wire, handled, detached, joined>>

\* Nothing comes for 25 ms: an escape that waits was the key.
Quiet ==
  /\ reading = "poll"
  /\ wire = <<>> /\ pendingIn # <<>> /\ pendingIn[1] = "esc"
  /\ EmitKey("escape", SubSeq(pendingIn, 2, Len(pendingIn)))
  /\ UNCHANGED <<pressed, wire, handled, detached, joined>>

\* At the latest after 100 ms the goroutine sees that it is cancelled.
Cancelled ==
  /\ reading = "poll" /\ detached
  /\ reading' = "done"
  /\ UNCHANGED <<pressed, wire, pendingIn, keyQueue, handled, detached, joined>>

\* The interrupt ends the loop, and so does a letter that is q and not a
\* part of a query.
EndsLoop(key) ==
  IF key = "interrupt" THEN {TRUE} ELSE IF key = "q" THEN BOOLEAN ELSE {FALSE}

HandleKey ==
  /\ keyQueue # <<>> /\ ~detached
  /\ handled' = Append(handled, Head(keyQueue))
  /\ keyQueue' = Tail(keyQueue)
  /\ detached' \in EndsLoop(Head(keyQueue))
  /\ UNCHANGED <<pressed, wire, pendingIn, reading, joined>>

InputNext ==
  \/ \E key \in Keys : Press(key)
  \/ \E n \in 1 .. ReadSize : ReadInput(n)
  \/ Drain
  \/ Quiet
  \/ Cancelled
  \/ HandleKey

InputSpec == InputInit /\ [][InputNext]_inputVars

-----------------------------------------------------------------------------
(* However the bytes of the keys are cut into reads, and whether the       *)
(* reader is ahead of the loop or behind it: the dashboard gets the keys   *)
(* that were pressed, in order, none twice, none made of the pieces of     *)
(* others; and all of them, once all is read and decoded and no escape is  *)
(* waited for. So it is until a [ or an O is typed after an Escape that is *)
(* not decoded yet, for want of 25 ms or of room in the channel: the code  *)
(* takes the two for the beginning of a sequence, and what follows them    *)
(* for the rest of it.                                                     *)
KeysAreTyped ==
  LET wanted == Sorted({i \in DOMAIN pressed : EventOf(pressed[i]) # "ignored"})
      got == handled \o keyQueue
  IN ~detached /\ ~joined =>
       /\ Len(got) <= Len(wanted)
       /\ \A i \in DOMAIN got : got[i] = EventOf(pressed[wanted[i]])
       /\ reading = "poll" /\ wire = <<>> /\ pendingIn = <<>> => Len(got) = Len(wanted)
=============================================================================
