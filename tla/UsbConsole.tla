----------------------------- MODULE UsbConsole -----------------------------
(***************************************************************************)
(* The USB console server (tools/usb-mcp): serial ports are opened once and*)
(* their output kept in a bounded buffer, from which clients read with a   *)
(* cursor, waiting if there is nothing new.  A byte is the number under    *)
(* which its port wrote it; an answer decodes them as UTF-8.               *)
(***************************************************************************)
EXTENDS Integers, Sequences, FiniteSets

CONSTANTS
  SerialPath,   \* serial ports of the host
  Opener,       \* tool calls that may be under way at the same time
  MaxDevices,   \* SerialManager.maxDevices
  MaxBytes,     \* CursorBuffer.maxBytes
  Lead,         \* the bytes that, with the next, are one character
  Noise,        \* the bytes that are no UTF-8, as at a wrong baud rate
  MaxWritten, MaxUnplug  \* bounds

ASSUME ConsoleAssumption ==
  /\ MaxDevices \in Nat \ {0} /\ MaxBytes \in Nat \ {0} /\ "free" \notin SerialPath
  /\ Lead \subseteq Nat \ {0} /\ Noise \subseteq Nat \ {0}
  /\ \A n \in Lead : n \notin Noise /\ n + 1 \notin Lead \cup Noise

VARIABLES
  written,  \* for each port, the bytes it wrote so far
  opening,  \* for each call, the port it is configuring and opening, or Free
  buffers,  \* the buffer of every stream opened so far
  devices,  \* SerialManager.devices: for each open port, which buffer is its
  reader,   \* a client that reads on and on: its cursor, and what it got
  unplugs   \* unplugged ports so far

consoleVars == <<written, opening, buffers, devices, reader, unplugs>>

Free == "free"
NewBuffer(p) == [path |-> p, base |-> 0, bytes |-> <<>>, closed |-> FALSE]
EndOffset(b) == b.base + Len(b.bytes)

ConsoleInit ==
  /\ written = [p \in SerialPath |-> 0]
  /\ opening = [c \in Opener |-> Free]
  /\ buffers = <<>> /\ devices = <<>> /\ unplugs = 0
  /\ reader = [path |-> Free, cursor |-> 0, on |-> 0, woken |-> FALSE, last |-> 0, gap |-> FALSE]

-----------------------------------------------------------------------------
(* Opening.                                                                *)

\* openDevice up to its first await: an open port is answered at once, a port
\* too many is refused.
OpenDevice(c, p) ==
  /\ opening[c] = Free /\ p \notin DOMAIN devices
  /\ Cardinality(DOMAIN devices) < MaxDevices
  /\ opening' = [opening EXCEPT ![c] = p]
  /\ UNCHANGED <<written, buffers, devices, reader, unplugs>>

\* The port is configured and opened: its buffer takes the place of any that a
\* call which overlapped this one left.
Opened(c) ==
  /\ opening[c] # Free /\ opening' = [opening EXCEPT ![c] = Free]
  /\ LET p == opening[c]
     IN  /\ buffers' = Append(buffers, NewBuffer(p))
         /\ devices' = [q \in DOMAIN devices \cup {p} |->
                          IF q = p THEN Len(buffers) + 1 ELSE devices[q]]
  /\ UNCHANGED <<written, reader, unplugs>>

\* stty or the open fails.
NotOpened(c) ==
  /\ opening[c] # Free /\ opening' = [opening EXCEPT ![c] = Free]
  /\ UNCHANGED <<written, buffers, devices, reader, unplugs>>

-----------------------------------------------------------------------------
(* The buffer.                                                             *)

\* Mutant: what is cut off the first chunk is not counted.
TrimUncounted(b) ==
  [b EXCEPT !.bytes = SubSeq(@, Len(@) - MaxBytes + 1, Len(@)),
            !.base = @ + (IF Len(b.bytes) > MaxBytes + 1 THEN Len(b.bytes) - MaxBytes ELSE 0)]

\* trim: the oldest bytes beyond the limit go, and the base moves with them.
Trim(b) ==
  [b EXCEPT !.bytes = SubSeq(@, Len(@) - MaxBytes + 1, Len(@)), !.base = @ + Len(b.bytes) - MaxBytes]

\* append: a chunk is kept, the buffer trimmed, and every waiter woken.  With
\* two streams on one port either may get the chunk, with none it is lost.
Arrive(p, n) ==
  /\ written[p] + n <= MaxWritten
  /\ written' = [written EXCEPT ![p] = @ + n]
  /\ LET streams == {i \in DOMAIN buffers : buffers[i].path = p /\ ~buffers[i].closed}
     IN  IF streams = {} THEN UNCHANGED <<buffers, reader>>
         ELSE \E i \in streams :
                LET b == [buffers[i] EXCEPT !.bytes = @ \o [k \in 1..n |-> written[p] + k]]
                IN  /\ buffers' = [buffers EXCEPT ![i] = IF Len(b.bytes) > MaxBytes THEN Trim(b) ELSE b]
                    /\ reader' = [reader EXCEPT !.woken = @ \/ reader.on = i]
  /\ UNCHANGED <<opening, devices, unplugs>>

\* The port is unplugged: its stream closes, but the port stays in the map.
Unplug(p) ==
  /\ unplugs < MaxUnplug /\ unplugs' = unplugs + 1
  /\ p \in DOMAIN devices
  /\ buffers' = [i \in DOMAIN buffers |->
                   IF buffers[i].path = p THEN [buffers[i] EXCEPT !.closed = TRUE] ELSE buffers[i]]
  /\ UNCHANGED <<written, opening, devices, reader>>

-----------------------------------------------------------------------------
(* Reading.                                                                *)

\* U+FFFD, which stands for a byte that cannot be decoded.
Mark == 0

\* A byte is decoded if it is UTF-8 and its character is there in full.
Legible(bytes, k) ==
  /\ bytes[k] \notin Noise
  /\ bytes[k] \in Lead => k < Len(bytes) /\ bytes[k + 1] = bytes[k] + 1
  /\ bytes[k] - 1 \in Lead => k > 1 /\ bytes[k - 1] = bytes[k] - 1

\* toString("utf8"): each answer is decoded on its own, so that a character cut
\* by its end is lost to this answer and to the next.
Decode(bytes) == [k \in 1..Len(bytes) |-> IF Legible(bytes, k) THEN bytes[k] ELSE Mark]

\* read: the text of the bytes from the cursor on, at most "most", and whether
\* some were lost since the cursor was given; the bytes themselves are history.
Read(b, cursor, most) ==
  LET start == IF cursor < b.base THEN b.base ELSE cursor
      rest == SubSeq(b.bytes, start - b.base + 1, Len(b.bytes))
      got == SubSeq(rest, 1, IF Len(rest) < most THEN Len(rest) ELSE most)
  IN  [got |-> got, data |-> Decode(got), next |-> start + Len(got), truncated |-> cursor < b.base]

\* What may stand at k in an answer for byte n: the byte, or the mark, if it is
\* no UTF-8 or the answer's end parts it from the rest of its character.
InPlace(data, k, n) ==
  \/ data[k] = n
  \/ /\ data[k] = Mark
     /\ \/ n \in Noise
        \/ n \in Lead /\ k = Len(data)
        \/ n - 1 \in Lead /\ k = 1

\* The client takes an answer and will go on from its next cursor.  It counts
\* the bytes by the text, anew when it is told that some were lost.
Take(answer) ==
  LET size == Len(answer.data)
      anew == reader.last = 0 \/ answer.truncated
      wrong == \E k \in 1..size : ~InPlace(answer.data, k, reader.last + k)
  IN  [reader EXCEPT
         !.cursor = answer.next, !.on = 0, !.woken = FALSE,
         !.last = IF size = 0 THEN @ ELSE IF anew THEN answer.got[size] ELSE @ + size,
         !.gap = @ \/ (~anew /\ wrong)]

\* readDevice, readWhenAvailable: at once if there is something, or waiting.
StartRead(p, most) ==
  /\ p \in DOMAIN devices /\ reader.on = 0 /\ reader.path \in {Free, p}
  /\ LET b == buffers[devices[p]]
         answer == Read(b, IF reader.path = Free THEN EndOffset(b) ELSE reader.cursor, most)
     IN  reader' = IF answer.got # <<>> THEN Take(answer)
                   ELSE [reader EXCEPT !.path = p, !.on = devices[p],
                           !.cursor = IF reader.path = Free THEN answer.next ELSE @]
  /\ UNCHANGED <<written, opening, buffers, devices, unplugs>>

\* It is woken, or its time is over, and reads the same buffer once more.
FinishRead(most) ==
  /\ reader.on # 0
  /\ reader' = Take(Read(buffers[reader.on], reader.cursor, most))
  /\ UNCHANGED <<written, opening, buffers, devices, unplugs>>

ConsoleNext ==
  \/ \E c \in Opener, p \in SerialPath : OpenDevice(c, p)
  \/ \E c \in Opener : Opened(c) \/ NotOpened(c)
  \/ \E p \in SerialPath : Unplug(p)
  \/ \E p \in SerialPath, n \in 1..2 : Arrive(p, n) \/ StartRead(p, n)
  \/ \E n \in 1..2 : FinishRead(n)

ConsoleSpec == ConsoleInit /\ [][ConsoleNext]_consoleVars

-----------------------------------------------------------------------------
\* A client that reads on from the cursor it was given gets every byte of the
\* port once and in order, or is told that some were lost, over trimming in the
\* middle of a chunk or of a character, waiting, and reads smaller than what is
\* there, for as long as the port was opened only once.  A byte may come as the
\* mark only if it is no UTF-8, or if the answer's end has cut its character in
\* two, of which nothing else tells (trim, read, readWhenAvailable).
NoSilentGap == reader.gap => Cardinality({i \in DOMAIN buffers : buffers[i].path = reader.path}) > 1

\* A client that waits while there are bytes beyond its cursor has been woken.
NoLostWakeup ==
  (reader.on # 0 /\ reader.cursor < EndOffset(buffers[reader.on])) => reader.woken

\* At most maxDevices serial ports are open.
DeviceLimit == Cardinality(DOMAIN devices) <= MaxDevices

\* A client is never left in the dark about bytes it missed.
NoSilentGapEver == ~reader.gap

\* No answer ends in the middle of a character.
CharactersArrive == [][reader'.last # reader.last => reader'.last \notin Lead]_consoleVars

-----------------------------------------------------------------------------
(* The inductive invariant.                                                *)

Buffer == [path : SerialPath, base : Nat, bytes : Seq(Nat), closed : BOOLEAN]
Reader == [path : SerialPath \cup {Free}, cursor : Nat, on : Nat, woken : BOOLEAN,
           last : Nat, gap : BOOLEAN]

ConsoleTypeOK ==
  /\ written \in [SerialPath -> Nat]
  /\ opening \in [Opener -> SerialPath \cup {Free}]
  /\ buffers \in Seq(Buffer)
  /\ DOMAIN devices \subseteq SerialPath
  /\ reader \in Reader
  /\ unplugs \in Nat

\* Ports have buffers of their own.
OwnBuffers ==
  /\ \A p \in DOMAIN devices : devices[p] \in DOMAIN buffers /\ buffers[devices[p]].path = p
  /\ reader.on # 0 => reader.on \in DOMAIN buffers /\ buffers[reader.on].path = reader.path
  /\ reader.path # Free => \E i \in DOMAIN buffers : buffers[i].path = reader.path
  /\ reader.path = Free => reader.last = 0 /\ ~reader.gap

\* What was trimmed left a full buffer.
FullOnceTrimmed ==
  \A i \in DOMAIN buffers : buffers[i].base > 0 => Len(buffers[i].bytes) > 0

OpenedOnce(p) ==
  \A i, j \in DOMAIN buffers : buffers[i].path = p /\ buffers[j].path = p => i = j

\* The buffer of a port that was opened once holds its bytes in order, from the
\* one that came "before" it was opened; the reader's cursor is behind the last
\* byte it got.
InOrder(i, before) ==
  LET b == buffers[i]
  IN  /\ \A k \in 1..Len(b.bytes) : b.bytes[k] = before + b.base + k
      /\ ~b.closed => written[b.path] = before + EndOffset(b)
      /\ reader.path = b.path =>
           /\ reader.cursor <= EndOffset(b)
           /\ reader.last > 0 => reader.last = before + reader.cursor
           /\ ~reader.gap

BytesInOrder ==
  \A i \in DOMAIN buffers : OpenedOnce(buffers[i].path) =>
    \E before \in 0..written[buffers[i].path] : InOrder(i, before)

ConsoleIInv ==
  ConsoleTypeOK /\ OwnBuffers /\ FullOnceTrimmed /\ BytesInOrder /\ NoLostWakeup
=============================================================================
