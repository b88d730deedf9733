------------------------- MODULE DevicePipelineProofs -------------------------
(***************************************************************************)
(* The receiver's two queues and its datagrams.  For every pool depth,     *)
(* every range of the counters above it and every interleaving of the CSI  *)
(* callback, the encode task and the draining task: wake-ups and frames    *)
(* match, and where the depth divides the range the frame queue is a lossy *)
(* first-in first-out queue.  For every ring depth above one, every        *)
(* datagram capacity and every interleaving of the encode and the network  *)
(* task: wake-ups and batches match, the ring holds exactly the newest     *)
(* batches, what is sent is in order, every batch is accounted for, and    *)
(* the ring is a drop-oldest queue.  For every size of the buffer and      *)
(* every length of a frame: what a recording gives back is what was sent.  *)
(***************************************************************************)
EXTENDS FrameQueue, BatchStream, Datagram, WrappingNumbers, SequenceTheorems

-----------------------------------------------------------------------------
(* Wrapping counters.                                                      *)

Diff(h, t) == (h - t) % Modulus

\* A difference of counters is a counter, zero only between equal ones.
LEMMA BehindType ==
  ASSUME NEW h \in Counter, NEW t \in Counter
  PROVE  /\ Diff(h, t) \in Counter
         /\ Diff(h, t) = IF h >= t THEN h - t ELSE h - t + Modulus
<1>. USE FrameQueueAssumption DEF Diff
<1>1. CASE h >= t
  BY <1>1 DEF Counter
<1>2. CASE ~(h >= t)
  <2>1. Diff(h, t) = (h - t + Modulus) % Modulus
    BY <1>2 DEF Counter
  <2>2. h - t + Modulus \in 0..(Modulus - 1)
    BY <1>2 DEF Counter
  <2>. QED BY <1>2, <2>1, <2>2 DEF Counter
<1>. QED BY <1>1, <1>2

LEMMA IncType ==
  ASSUME NEW c \in Counter
  PROVE  Inc(c) \in Counter /\ Inc(c) = IF c + 1 = Modulus THEN 0 ELSE c + 1
<1>. USE FrameQueueAssumption DEF Inc, Counter
<1>1. CASE c + 1 = Modulus
  BY <1>1
<1>2. CASE c + 1 # Modulus
  BY <1>2
<1>. QED BY <1>1, <1>2

\* Below the range, the difference grows with the head and shrinks with the tail.
LEMMA HeadMoves ==
  ASSUME NEW h \in Counter, NEW t \in Counter, Diff(h, t) < Modulus - 1
  PROVE  Diff(Inc(h), t) = Diff(h, t) + 1
<1>1. Inc(h) \in Counter /\ Inc(h) = IF h + 1 = Modulus THEN 0 ELSE h + 1
  BY IncType
<1>2. Diff(h, t) = IF h >= t THEN h - t ELSE h - t + Modulus
  BY BehindType
<1>3. Diff(Inc(h), t) = IF Inc(h) >= t THEN Inc(h) - t ELSE Inc(h) - t + Modulus
  BY <1>1, BehindType
<1>. QED BY <1>1, <1>2, <1>3, FrameQueueAssumption DEF Counter

LEMMA TailMoves ==
  ASSUME NEW h \in Counter, NEW t \in Counter, Diff(h, t) > 0
  PROVE  Diff(h, Inc(t)) = Diff(h, t) - 1
<1>1. Inc(t) \in Counter /\ Inc(t) = IF t + 1 = Modulus THEN 0 ELSE t + 1
  BY IncType
<1>2. Diff(h, t) = IF h >= t THEN h - t ELSE h - t + Modulus
  BY BehindType
<1>3. Diff(h, Inc(t)) = IF h >= Inc(t) THEN h - Inc(t) ELSE h - Inc(t) + Modulus
  BY <1>1, BehindType
<1>. QED BY <1>1, <1>2, <1>3, FrameQueueAssumption DEF Counter

LEMMA SlotType == ASSUME NEW c \in Nat PROVE SlotOf(c) \in SlotIndex
BY FrameQueueAssumption DEF SlotOf, SlotIndex

-----------------------------------------------------------------------------
(* The inductive invariant.                                                *)

\* The types of what the steps compute with.
LEMMA FrameNumbers ==
  ASSUME QueueTypeOK
  PROVE  /\ Capacity \in Nat \ {0} /\ Modulus \in Nat /\ Capacity < Modulus
         /\ ringHead \in Counter /\ ringTail \in Counter
         /\ encTail \in Counter /\ drnTail \in Counter
         /\ \A h, t \in Counter : Diff(h, t) \in 0..(Modulus - 1)
         /\ items \in Nat /\ arrived \in Int /\ frameDrops \in Int /\ drains \in Int
BY FrameQueueAssumption, BehindType DEF QueueTypeOK, Counter

\* Room and wake-ups, each tail by itself.
Room(t) == Diff(ringHead, t) <= Capacity - Owed(prod, {"copy"})

LEMMA RoomByTail ==
  RoomKept <=> /\ Room(ringTail)
               /\ encAt = "store" => Room(encTail)
               /\ drn = "store" => Room(drnTail)
BY DEF RoomKept, Tails, Room, Behind, Diff

LEMMA InitInv == QueueInit => QueueIInv
<1>. SUFFICES ASSUME QueueInit PROVE QueueIInv
  OBVIOUS
<1>. USE FrameQueueAssumption
<1>1. QueueTypeOK
  BY DEF QueueInit, QueueTypeOK, Counter, SlotIndex, Frame
<1>2. Count = 0 /\ Diff(ringHead, ringTail) = 0
  <2>1. 0 \in Counter
    BY DEF Counter
  <2>2. Diff(0, 0) = 0
    BY <2>1, BehindType
  <2>. QED BY <2>2 DEF QueueInit, Count, Diff
<1>3. Owing = 0 /\ TokensMatchFrames
  BY <1>2 DEF QueueInit, TokensMatchFrames, Owing, EncOwes, DrnOwes, Owed
<1>4. RoomKept
  BY <1>2, RoomByTail DEF QueueInit, Room, Owed
<1>5. StoresBacked /\ OneConsumer /\ FramesNumbered /\ HeldIsOldest
  BY DEF QueueInit, StoresBacked, OneConsumer, FramesNumbered, HeldIsOldest
<1>. QED BY <1>1, <1>3, <1>4, <1>5 DEF QueueIInv

LEMMA TypeStep == QueueIInv /\ [QueueNext]_queueVars => QueueTypeOK'
<1>. SUFFICES ASSUME QueueIInv, [QueueNext]_queueVars PROVE QueueTypeOK'
  OBVIOUS
<1>. USE FrameQueueAssumption
     DEF QueueTypeOK, prodVars, encoderVars, drnVars, histVars, Callback
<1>1. QueueTypeOK /\ FramesNumbered
  BY DEF QueueIInv
<1>2. CASE Drop
  BY <1>1, <1>2 DEF Drop, FramesNumbered
<1>3. CASE Claim
  <2>1. frameSlots' \in [SlotIndex -> Frame \cup {Torn}]
    BY <1>1, <1>3 DEF Claim
  <2>2. arrived' \in 0..MaxFrames /\ frame' \in 0..MaxFrames
    BY <1>1, <1>3 DEF Claim
  <2>. QED BY <1>1, <1>3, <2>1, <2>2 DEF Claim
<1>4. CASE Publish
  <2>1. frame \in Frame
    BY <1>1, <1>4 DEF Publish, FramesNumbered, Frame
  <2>. QED BY <1>1, <1>4, <2>1, IncType DEF Publish
<1>5. CASE Signal
  BY <1>1, <1>5 DEF Signal
<1>6. CASE Take
  BY <1>1, <1>6 DEF Take
<1>7. CASE Peek
  <2>1. SlotOf(ringTail) \in SlotIndex
    BY <1>1, SlotType DEF Counter
  <2>. QED BY <1>1, <1>7, <2>1 DEF Peek
<1>8. CASE EncodeFrame
  BY <1>1, <1>8 DEF EncodeFrame
<1>9. CASE LoadTail
  BY <1>1, <1>9 DEF LoadTail
<1>10. CASE StoreTail
  BY <1>1, <1>10, IncType DEF StoreTail
<1>11. CASE DrainStart
  <2>1. drains' \in 0..MaxDrains
    BY <1>1, <1>11 DEF DrainStart
  <2>. QED BY <1>1, <1>11, <2>1, Zenon DEF DrainStart
<1>12. CASE DrainTake
  BY <1>1, <1>12 DEF DrainTake
<1>13. CASE DrainLoad
  BY <1>1, <1>13 DEF DrainLoad
<1>14. CASE DrainStore
  <2>1. SlotOf(drnTail) \in SlotIndex
    BY <1>1, SlotType DEF Counter
  <2>. QED BY <1>1, <1>14, <2>1, IncType DEF DrainStore
<1>15. CASE Resume
  BY <1>1, <1>15 DEF Resume
<1>16. CASE UNCHANGED queueVars
  BY <1>1, <1>16 DEF queueVars
<1>. QED
  BY <1>2, <1>3, <1>4, <1>5, <1>6, <1>7, <1>8, <1>9, <1>10, <1>11, <1>12,
     <1>13, <1>14, <1>15, <1>16 DEF QueueNext, Producer, Encoder, Drainer
\* What the invariant says of counts and tails, and what it takes to keep it.
Counts == TokensMatchFrames /\ RoomKept /\ StoresBacked

Sums ==
  /\ items + Owed(prod, {"signal"}) + EncOwes + DrnOwes <= Diff(ringHead, ringTail)
  /\ drains = 0 =>
       items + Owed(prod, {"signal"}) + EncOwes + DrnOwes = Diff(ringHead, ringTail)
  /\ prod = "signal" => items < Capacity
  /\ Room(ringTail)
  /\ encAt = "store" => /\ Room(encTail)
                        /\ items + Owed(prod, {"signal"}) + DrnOwes < Diff(ringHead, encTail)
  /\ drn = "store" => /\ Room(drnTail)
                      /\ items + Owed(prod, {"signal"}) + EncOwes < Diff(ringHead, drnTail)

LEMMA CountsAreSums == ASSUME QueueTypeOK PROVE Counts <=> Sums
<1>1. WakeUps = items + Owed(prod, {"signal"}) /\ Count = Diff(ringHead, ringTail)
  BY DEF WakeUps, Count, Diff
<1>2. items + Owing = items + Owed(prod, {"signal"}) + EncOwes + DrnOwes
  <2>1. items \in Nat
    BY FrameNumbers
  <2>. QED BY <2>1 DEF Owing, Owed, EncOwes, DrnOwes
<1>3. TokensMatchFrames <=>
        /\ items + Owed(prod, {"signal"}) + EncOwes + DrnOwes <= Diff(ringHead, ringTail)
        /\ drains = 0 =>
             items + Owed(prod, {"signal"}) + EncOwes + DrnOwes = Diff(ringHead, ringTail)
        /\ prod = "signal" => items < Capacity
  BY <1>1, <1>2 DEF TokensMatchFrames
<1>. QED BY <1>1, <1>3, RoomByTail DEF Counts, StoresBacked, Sums, Behind, Diff, Room

LEMMA SumsStep ==
  ASSUME QueueTypeOK, QueueTypeOK', Sums, OneConsumer, [QueueNext]_queueVars
  PROVE  Sums'
<1>. USE DEF Sums, Room, Owed, EncOwes, DrnOwes,
             prodVars, encoderVars, drnVars, histVars, Callback
<1>1. /\ Capacity \in Nat \ {0} /\ Modulus \in Nat /\ Capacity < Modulus
      /\ \A h, t \in Counter : Diff(h, t) \in 0..(Modulus - 1)
      /\ ringHead \in Counter /\ ringTail \in Counter /\ encTail \in Counter
      /\ drnTail \in Counter /\ items \in Nat /\ drains \in Nat
      /\ prod \in {"idle", "copy", "signal"}
      /\ encAt \in {"idle", "peek", "encode", "load", "store"}
      /\ drn \in {"off", "take", "load", "store"}
  BY FrameNumbers DEF QueueTypeOK
<1>0. \A c \in Counter : Diff(c, c) = 0
  BY BehindType, FrameQueueAssumption DEF Counter
<1>2. CASE Drop
  BY <1>1, <1>2 DEF Drop
<1>3. CASE Claim
  <2>1. Diff(ringHead, ringTail) < Capacity
    BY <1>1, <1>3 DEF Claim, Full, Count, Diff
  <2>. QED BY <1>1, <1>3, <2>1 DEF Claim, OneConsumer
<1>4. CASE Publish
  <2>1. \A t \in Counter : Room(t) => Diff(Inc(ringHead), t) = Diff(ringHead, t) + 1
    BY <1>1, <1>4, HeadMoves DEF Publish
  <2>. QED BY <1>1, <1>4, <2>1 DEF Publish
<1>5. CASE Signal
  BY <1>1, <1>5 DEF Signal
<1>6. CASE Take
  BY <1>1, <1>6 DEF Take
<1>7. CASE Peek
  BY <1>0, <1>1, <1>7 DEF Peek
<1>8. CASE EncodeFrame
  BY <1>1, <1>8 DEF EncodeFrame
<1>9. CASE LoadTail
  BY <1>0, <1>1, <1>9 DEF LoadTail
<1>10. CASE StoreTail
  <2>1. Diff(ringHead, Inc(encTail)) = Diff(ringHead, encTail) - 1
    <3>1. Diff(ringHead, encTail) > 0
      BY <1>1, <1>10 DEF StoreTail
    <3>. QED BY <1>1, <3>1, TailMoves
  <2>2. \A t \in Counter : Diff(ringHead', t) = Diff(ringHead, t)
    BY <1>10 DEF StoreTail
  <2>. QED BY <1>1, <1>10, <2>1, <2>2 DEF StoreTail, OneConsumer
<1>11. CASE DrainStart
  BY <1>1, <1>11 DEF DrainStart
<1>12. CASE DrainTake
  BY <1>1, <1>12 DEF DrainTake
<1>13. CASE DrainLoad
  BY <1>1, <1>13 DEF DrainLoad, OneConsumer
<1>14. CASE DrainStore
  <2>1. Diff(ringHead, Inc(drnTail)) = Diff(ringHead, drnTail) - 1
    <3>1. Diff(ringHead, drnTail) > 0
      BY <1>1, <1>14 DEF DrainStore
    <3>. QED BY <1>1, <3>1, TailMoves
  <2>2. \A t \in Counter : Diff(ringHead', t) = Diff(ringHead, t)
    BY <1>14 DEF DrainStore
  <2>. QED BY <1>1, <1>14, <2>1, <2>2 DEF DrainStore, OneConsumer
<1>15. CASE Resume
  BY <1>1, <1>15 DEF Resume
<1>16. CASE UNCHANGED queueVars
  BY <1>1, <1>16 DEF queueVars
<1>. QED
  BY <1>2, <1>3, <1>4, <1>5, <1>6, <1>7, <1>8, <1>9, <1>10, <1>11, <1>12,
     <1>13, <1>14, <1>15, <1>16 DEF QueueNext, Producer, Encoder, Drainer
\* The three tasks keep out of each other's way.
LEMMA ControlStep ==
  ASSUME QueueIInv, [QueueNext]_queueVars
  PROVE  (OneConsumer /\ FramesNumbered /\ HeldIsOldest)'
<1>. USE DEF OneConsumer, FramesNumbered, HeldIsOldest, Callback,
             prodVars, encoderVars, drnVars, histVars
<1>1. /\ OneConsumer /\ FramesNumbered /\ HeldIsOldest
      /\ arrived \in Nat /\ frameDrops \in Nat /\ drains \in Nat
  BY FrameNumbers DEF QueueIInv, QueueTypeOK
<1>2. CASE Drop
  BY <1>1, <1>2 DEF Drop
<1>3. CASE Claim
  BY <1>1, <1>3 DEF Claim
<1>4. CASE Publish
  BY <1>1, <1>4 DEF Publish
<1>5. CASE Signal
  BY <1>1, <1>5 DEF Signal
<1>6. CASE Take
  BY <1>1, <1>6 DEF Take
<1>7. CASE Peek
  BY <1>1, <1>7 DEF Peek
<1>8. CASE EncodeFrame
  BY <1>1, <1>8 DEF EncodeFrame
<1>9. CASE LoadTail
  BY <1>1, <1>9 DEF LoadTail
<1>10. CASE StoreTail
  BY <1>1, <1>10 DEF StoreTail
<1>11. CASE DrainStart
  BY <1>1, <1>11 DEF DrainStart
<1>12. CASE DrainTake
  BY <1>1, <1>12 DEF DrainTake
<1>13. CASE DrainLoad
  BY <1>1, <1>13 DEF DrainLoad
<1>14. CASE DrainStore
  BY <1>1, <1>14 DEF DrainStore
<1>15. CASE Resume
  BY <1>1, <1>15 DEF Resume
<1>16. CASE UNCHANGED queueVars
  BY <1>1, <1>16 DEF queueVars
<1>. QED
  BY <1>2, <1>3, <1>4, <1>5, <1>6, <1>7, <1>8, <1>9, <1>10, <1>11, <1>12,
     <1>13, <1>14, <1>15, <1>16 DEF QueueNext, Producer, Encoder, Drainer

\* The inductive invariant of the frame queue: semaphore, queued frames and what
\* each task has in hand balance at every step of push, pop and drain (FrameRing,
\* FrameQueue).
THEOREM QueueInductive == QueueSpec => []QueueIInv
<1>1. QueueIInv /\ [QueueNext]_queueVars => QueueIInv'
  <2>. SUFFICES ASSUME QueueIInv, [QueueNext]_queueVars PROVE QueueIInv'
    OBVIOUS
  <2>1. QueueTypeOK /\ QueueTypeOK'
    BY TypeStep DEF QueueIInv
  <2>2. Sums
    BY <2>1, CountsAreSums DEF QueueIInv, Counts
  <2>3. Sums'
    BY <2>1, <2>2, SumsStep DEF QueueIInv
  <2>4. QueueTypeOK' => (Counts' <=> Sums')
    BY CountsAreSums, PTL
  <2>5. Counts'
    BY <2>1, <2>3, <2>4
  <2>. QED BY <2>1, <2>5, ControlStep DEF QueueIInv, Counts
<1>. QED BY <1>1, InitInv, PTL DEF QueueSpec

\* Every queued frame has its wake-up, none is without a frame, and no give
\* meets a full semaphore, whatever the drain interrupts (FrameQueue).
THEOREM WakeUpsMatch == QueueSpec => []TokensMatchFrames
<1>1. QueueIInv => TokensMatchFrames
  BY DEF QueueIInv
<1>. QED BY <1>1, QueueInductive, PTL

-----------------------------------------------------------------------------
(* Slots.  That the counters wrap in step with the slots is an assumption: *)
(* 2^32 is a multiple of 256, the depth of the pool in PSRAM, but not of   *)
(* 24, that of the small pool.                                             *)

InStep == \E q \in Nat : Modulus = q * Capacity

LEMMA ModAgain ==
  ASSUME NEW n \in Nat \ {0}, NEW d \in Nat, NEW x \in Nat
  PROVE  (x + d * n) % n = x % n
<1>1. PICK q \in Int : x = n * q + (x % n)
  BY ModDiv
<1>2. x % n \in 0..(n - 1)
  OBVIOUS
<1>3. x + d * n = n * (q + d) + (x % n)
  BY <1>1, <1>2
<1>4. q + d \in Int
  OBVIOUS
<1>. QED BY <1>2, <1>3, <1>4, ModIs

\* Counters less than a pool apart have slots of their own.
LEMMA SlotsDiffer ==
  ASSUME NEW a \in Nat, NEW b \in Nat, a < b, b - a < Capacity
  PROVE  SlotOf(a) # SlotOf(b)
<1>. USE FrameQueueAssumption DEF SlotOf
<1>1. PICK q \in Int : a = Capacity * q + (a % Capacity)
  BY ModDiv
<1>2. PICK p \in Int : b = Capacity * p + (b % Capacity)
  BY ModDiv
<1>3. SUFFICES ASSUME a % Capacity = b % Capacity PROVE FALSE
  OBVIOUS
<1>4. b - a = Capacity * (p - q)
  BY <1>1, <1>2, <1>3
<1>5. p - q >= 1
  BY <1>4
<1>6. Capacity * (p - q) >= Capacity
  BY <1>5
<1>. QED BY <1>4, <1>6

\* A counter that wraps keeps its slot, and so do those ahead of it.
LEMMA SlotWraps ==
  ASSUME InStep, NEW a \in Nat
  PROVE  SlotOf(a + Modulus) = SlotOf(a)
<1>1. PICK q \in Nat : Modulus = q * Capacity
  BY DEF InStep
<1>2. (a + q * Capacity) % Capacity = a % Capacity
  BY FrameQueueAssumption, ModAgain
<1>. QED BY <1>1, <1>2 DEF SlotOf

LEMMA SlotAhead ==
  ASSUME InStep, NEW h \in Counter, NEW t \in Counter
  PROVE  SlotOf(t + Diff(h, t)) = SlotOf(h)
<1>1. Diff(h, t) = IF h >= t THEN h - t ELSE h - t + Modulus
  BY BehindType
<1>2. t + Diff(h, t) \in {h, h + Modulus}
  BY <1>1, FrameQueueAssumption DEF Counter
<1>. QED BY <1>2, SlotWraps DEF Counter

LEMMA SlotNext ==
  ASSUME InStep, NEW t \in Counter, NEW k \in Nat
  PROVE  SlotOf(Inc(t) + k) = SlotOf(t + 1 + k)
<1>1. Inc(t) = IF t + 1 = Modulus THEN 0 ELSE t + 1
  BY IncType
<1>2. CASE t + 1 = Modulus
  <2>1. t + 1 + k = k + Modulus /\ Inc(t) + k = k
    BY <1>1, <1>2, FrameQueueAssumption
  <2>. QED BY <2>1, SlotWraps
<1>3. CASE t + 1 # Modulus
  BY <1>1, <1>3
<1>. QED BY <1>2, <1>3

-----------------------------------------------------------------------------
(* The refinement.                                                         *)

\* The n slots from a counter on.
Line(pool, t, n) == [i \in 1..n |-> pool[SlotOf(t + i - 1)]]

Contents == [SlotIndex -> Frame \cup {Torn}]

LEMMA LineType ==
  ASSUME NEW s \in Contents, NEW t \in Nat, NEW n \in Nat
  PROVE  /\ Line(s, t, n) \in Seq(Frame \cup {Torn})
         /\ Len(Line(s, t, n)) = n
         /\ \A i \in 1..n : Line(s, t, n)[i] = s[SlotOf(t + i - 1)]
<1>1. \A i \in 1..n : SlotOf(t + i - 1) \in SlotIndex
  BY SlotType
<1>. QED BY <1>1 DEF Line, Contents

\* Two lines that agree slot by slot.
LEMMA LineSame ==
  ASSUME NEW s, NEW r, NEW t, NEW u, NEW n,
         \A i \in 1..n : s[SlotOf(t + i - 1)] = r[SlotOf(u + i - 1)]
  PROVE  Line(s, t, n) = Line(r, u, n)
BY DEF Line

LEMMA LineGrows ==
  ASSUME NEW s \in Contents, NEW t \in Nat, NEW n \in Nat
  PROVE  Line(s, t, n + 1) = Append(Line(s, t, n), s[SlotOf(t + n)])
<1>. DEFINE x == s[SlotOf(t + n)]
            S == Frame \cup {Torn}
<1>1. Line(s, t, n) \in Seq(S) /\ Line(s, t, n + 1) \in Seq(S) /\ x \in S
  <2>1. SlotOf(t + n) \in SlotIndex
    BY SlotType
  <2>2. x \in S
    BY <2>1 DEF Contents
  <2>3. n + 1 \in Nat
    OBVIOUS
  <2>. QED BY <2>2, <2>3, LineType
<1>2. Len(Line(s, t, n)) = n /\ Len(Line(s, t, n + 1)) = n + 1
  BY LineType
<1>3. \A i \in 1..n : Line(s, t, n)[i] = s[SlotOf(t + i - 1)]
  BY LineType
<1>4. \A i \in 1..(n + 1) : Line(s, t, n + 1)[i] = s[SlotOf(t + i - 1)]
  <2>1. PICK m \in Nat : m = n + 1
    OBVIOUS
  <2>2. \A i \in 1..m : Line(s, t, m)[i] = s[SlotOf(t + i - 1)]
    BY ONLY m \in Nat, s \in Contents, t \in Nat, LineType
  <2>. QED BY <2>1, <2>2, Zenon
<1>5. x = s[SlotOf(t + (n + 1) - 1)]
  BY DEF x
<1>. HIDE DEF x
<1>6. ASSUME NEW i \in 1..(n + 1)
      PROVE  Append(Line(s, t, n), x)[i] = Line(s, t, n + 1)[i]
  <2>1. CASE i = n + 1
    BY <1>1, <1>2, <1>4, <1>5, <2>1
  <2>2. CASE i \in 1..n
    <3>1. Append(Line(s, t, n), x)[i] = Line(s, t, n)[i]
      BY <1>1, <1>2, <2>2
    <3>. QED BY <1>3, <1>4, <2>2, <3>1
  <2>3. i = n + 1 \/ i \in 1..n
    OBVIOUS
  <2>. QED BY <2>1, <2>2, <2>3, Zenon
<1>7. Append(Line(s, t, n), x) \in Seq(S) /\ Len(Append(Line(s, t, n), x)) = n + 1
  BY <1>1, <1>2
<1>8. Append(Line(s, t, n), x) = Line(s, t, n + 1)
  BY <1>1, <1>2, <1>6, <1>7
<1>. QED BY <1>8 DEF x

LEMMA LineServed ==
  ASSUME NEW s \in Contents, NEW t \in Nat, NEW n \in Nat, n > 0
  PROVE  /\ Line(s, t, n) # <<>>
         /\ Head(Line(s, t, n)) = s[SlotOf(t)]
         /\ Tail(Line(s, t, n)) = Line(s, t + 1, n - 1)
<1>. DEFINE S == Frame \cup {Torn}
<1>1. Line(s, t, n) \in Seq(S) /\ Len(Line(s, t, n)) = n
  BY LineType
<1>2. Line(s, t + 1, n - 1) \in Seq(S) /\ Len(Line(s, t + 1, n - 1)) = n - 1
  BY LineType
<1>3. \A i \in 1..n : Line(s, t, n)[i] = s[SlotOf(t + i - 1)]
  BY LineType
<1>4. \A i \in 1..(n - 1) : Line(s, t + 1, n - 1)[i] = s[SlotOf(t + i)]
  BY LineType
<1>5. Line(s, t, n) # <<>> /\ Head(Line(s, t, n)) = s[SlotOf(t)]
  BY <1>1, <1>3
<1>6. ASSUME NEW i \in 1..(n - 1)
      PROVE  Tail(Line(s, t, n))[i] = Line(s, t + 1, n - 1)[i]
  <2>1. Tail(Line(s, t, n))[i] = Line(s, t, n)[i + 1]
    BY <1>1
  <2>2. Line(s, t, n)[i + 1] = s[SlotOf(t + (i + 1) - 1)]
    BY <1>3
  <2>3. t + (i + 1) - 1 = t + i
    OBVIOUS
  <2>. QED BY <1>4, <2>1, <2>2, <2>3
<1>. QED BY <1>1, <1>2, <1>5, <1>6

Done == Owed(encAt, {"load", "store"})
Queued == Count - Done

\* What is pending, as a line of slots; before any drain it is at least as
\* long as the wake-up in service says, and fits the pool.
LEMMA PendingLine ==
  ASSUME QueueIInv
  PROVE  /\ Pending = Line(frameSlots, ringTail + Done, Queued)
         /\ frameSlots \in Contents /\ ringTail + Done \in Nat /\ Done \in {0, 1}
         /\ Count = Diff(ringHead, ringTail) /\ Count \in Nat
         /\ Count <= Capacity - Owed(prod, {"copy"})
         /\ drains = 0 => /\ Queued \in Nat
                          /\ encAt \in {"encode", "load", "store"} => Count > 0
<1>1. /\ ringTail \in Nat /\ Done \in {0, 1} /\ items \in Nat
      /\ frameSlots \in Contents /\ Count = Diff(ringHead, ringTail) /\ Count \in Nat
  BY FrameNumbers DEF QueueIInv, QueueTypeOK, Contents, Counter, Done, Owed, Count, Diff
<1>2. Count <= Capacity - Owed(prod, {"copy"})
  BY <1>1, RoomByTail DEF QueueIInv, Room
<1>3. drains = 0 => Done <= Count
                    /\ (encAt \in {"encode", "load", "store"} => Count > 0)
  BY <1>1 DEF QueueIInv, TokensMatchFrames, Owing, EncOwes, DrnOwes, Owed, Done
<1>4. Pending = Line(frameSlots, ringTail + Done, Queued)
  BY DEF Pending, Line, Done, Queued
<1>. QED BY <1>1, <1>2, <1>3, <1>4 DEF Queued

Mapped == <<Offered, Pending, encoded, frameDrops>>

LEMMA QueueStepImplements ==
  ASSUME InStep, QueueIInv, QueueIInv', [QueueNext]_queueVars, drains' = 0
  PROVE  Fifo!Next \/ UNCHANGED Mapped
<1>. USE FrameQueueAssumption
     DEF prodVars, encoderVars, drnVars, histVars, Callback
<1>1. /\ Pending = Line(frameSlots, ringTail + Done, Queued)
      /\ Pending' = Line(frameSlots', ringTail' + Done', Queued')
  BY DEF Pending, Line, Done, Queued
<1>2. /\ frameSlots \in Contents /\ ringTail + Done \in Nat /\ Done \in {0, 1}
      /\ Count \in Nat /\ Queued = Count - Done
      /\ Count <= Capacity - Owed(prod, {"copy"})
      /\ arrived \in Nat /\ frameDrops \in Nat /\ drains \in Nat
      /\ ringHead \in Counter /\ ringTail \in Counter /\ encTail \in Counter
  <2>1. arrived \in Nat /\ frameDrops \in Nat /\ drains \in Nat
    BY DEF QueueIInv, QueueTypeOK
  <2>. QED BY <2>1, PendingLine, FrameNumbers DEF QueueIInv, Queued
\* Before any drain, the drainer is off and every wake-up has its frame.
<1>3. /\ drains = 0 => /\ Queued \in Nat /\ capturing /\ drn = "off"
                       /\ encAt = "store" => encTail = ringTail
                       /\ encAt \in {"encode", "load", "store"} => Count > 0
                       /\ encAt = "encode" => held = SlotOf(ringTail)
      /\ prod = "copy" => arrived > 0 /\ frame = arrived - 1
  BY PendingLine DEF QueueIInv, OneConsumer, FramesNumbered, HeldIsOldest
<1>4. CASE Drop
  <2>1. UNCHANGED <<frameSlots, ringTail, ringHead, encAt, encoded, drains>>
    BY <1>4 DEF Drop
  <2>2. Pending' = Pending
    BY <1>1, <2>1 DEF Done, Queued, Count, Owed
  <2>3. Len(Pending) >= Capacity - 1
    <3>1. Count >= Capacity /\ Queued \in Nat /\ Len(Pending) = Queued
      BY <1>1, <1>2, <1>3, <1>4, <2>1, LineType DEF Drop, Full
    <3>. QED BY <1>2, <3>1
  <2>4. Offered' = Offered + 1 /\ frameDrops' = frameDrops + 1
    BY <1>2, <1>4 DEF Drop, Offered, Owed
  <2>. QED BY <2>1, <2>2, <2>3, <2>4 DEF Fifo!Next, Fifo!Refuse
<1>5. CASE Claim
  <2>1. UNCHANGED <<ringTail, ringHead, encAt, encoded, frameDrops, drains>>
    BY <1>5 DEF Claim
  <2>2. Count < Capacity /\ Queued \in Nat
    BY <1>2, <1>3, <1>5, <2>1 DEF Claim, Full
  <2>3. SlotOf(ringHead) = SlotOf(ringTail + Done + Queued)
    <3>1. ringTail + Done + Queued = ringTail + Diff(ringHead, ringTail)
      BY <1>2, PendingLine DEF Counter
    <3>. QED BY <1>2, <3>1, SlotAhead
  <2>4. ASSUME NEW i \in 1..Queued
        PROVE  frameSlots'[SlotOf(ringTail + Done + i - 1)]
                 = frameSlots[SlotOf(ringTail + Done + i - 1)]
    <3>. DEFINE a == ringTail + Done + i - 1
                b == ringTail + Done + Queued
    <3>1. a \in Nat /\ b \in Nat /\ a < b /\ b - a < Capacity
      BY <1>2, <2>2
    <3>2. SlotOf(a) # SlotOf(ringHead)
      BY <2>3, <3>1, SlotsDiffer
    <3>. QED BY <1>2, <1>5, <3>2 DEF Claim, Contents
  <2>5. Pending' = Pending
    <3>1. Done' = Done /\ Queued' = Queued
      BY <2>1 DEF Done, Queued, Count, Owed
    <3>. QED BY <1>1, <2>1, <2>4, <3>1, LineSame
  <2>6. Offered' = Offered
    BY <1>2, <1>5 DEF Claim, Offered, Owed
  <2>. QED BY <2>1, <2>5, <2>6 DEF Mapped
<1>6. CASE Publish
  <2>1. UNCHANGED <<ringTail, encAt, encoded, frameDrops, drains>>
        /\ ringHead' = Inc(ringHead)
        /\ frameSlots' = [frameSlots EXCEPT ![SlotOf(ringHead)] = frame]
    BY <1>6 DEF Publish
  <2>2. Count < Capacity /\ Queued \in Nat
    BY <1>2, <1>3, <1>6, <2>1 DEF Publish, Owed
  <2>3. SlotOf(ringHead) = SlotOf(ringTail + Done + Queued)
    <3>1. ringTail + Done + Queued = ringTail + Diff(ringHead, ringTail)
      BY <1>2, PendingLine DEF Counter
    <3>. QED BY <1>2, <3>1, SlotAhead
  <2>4. ASSUME NEW i \in 1..Queued
        PROVE  frameSlots'[SlotOf(ringTail + Done + i - 1)]
                 = frameSlots[SlotOf(ringTail + Done + i - 1)]
    <3>. DEFINE a == ringTail + Done + i - 1
                b == ringTail + Done + Queued
    <3>1. a \in Nat /\ b \in Nat /\ a < b /\ b - a < Capacity
      BY <1>2, <2>2
    <3>2. SlotOf(a) # SlotOf(ringHead)
      BY <2>3, <3>1, SlotsDiffer
    <3>. QED BY <1>2, <2>1, <3>2 DEF Contents
  <2>5. Done' = Done /\ Queued' = Queued + 1
    <3>1. Done' = Done
      BY <2>1 DEF Done, Owed
    <3>2. Diff(Inc(ringHead), ringTail) = Diff(ringHead, ringTail) + 1
      BY <1>2, <2>2, HeadMoves, PendingLine
    <3>3. Count' = Count + 1
      BY <2>1, <3>2 DEF Count, Diff
    <3>. QED BY <1>2, <3>1, <3>3 DEF Queued
  <2>6. Pending' = Append(Pending, frame)
    <3>1. frameSlots' \in Contents
      BY DEF QueueIInv, QueueTypeOK, Contents
    <3>2. Pending' = Append(Line(frameSlots', ringTail + Done, Queued),
                            frameSlots'[SlotOf(ringTail + Done + Queued)])
      BY <1>1, <1>2, <2>1, <2>2, <2>5, <3>1, LineGrows
    <3>3. Line(frameSlots', ringTail + Done, Queued) = Pending
      BY <1>1, <2>4, LineSame
    <3>4. frameSlots'[SlotOf(ringHead)] = frame
      <4>1. SlotOf(ringHead) \in SlotIndex
        BY <1>2, SlotType DEF Counter
      <4>. QED BY <1>2, <2>1, <4>1 DEF Contents
    <3>. QED BY <2>3, <3>2, <3>3, <3>4
  <2>7. Offered = frame /\ Offered' = Offered + 1
    BY <1>2, <1>3, <1>6 DEF Publish, Offered, Owed
  <2>8. Len(Pending) < Capacity
    <3>1. Len(Pending) = Queued
      BY <1>1, <1>2, <2>2, LineType
    <3>. QED BY <1>2, <2>2, <3>1
  <2>. QED BY <2>1, <2>6, <2>7, <2>8 DEF Fifo!Next, Fifo!Accept
<1>7. CASE Signal \/ Take \/ Peek
  <2>1. /\ UNCHANGED <<frameSlots, ringTail, ringHead, encoded, frameDrops, arrived>>
        /\ Done' = Done /\ Owed(prod, {"copy"})' = Owed(prod, {"copy"})
    BY <1>7 DEF Signal, Take, Peek, Done, Owed
  <2>2. Pending' = Pending
    BY <1>1, <2>1 DEF Queued, Count
  <2>. QED BY <2>1, <2>2 DEF Mapped, Offered
<1>8. CASE EncodeFrame
  <2>1. /\ UNCHANGED <<frameSlots, ringTail, ringHead, frameDrops, drains, arrived, prod>>
        /\ encoded' = Append(encoded, frameSlots[held])
        /\ Done = 0 /\ Done' = 1 /\ encAt = "encode"
    BY <1>8 DEF EncodeFrame, Done, Owed
  <2>2. Count > 0 /\ held = SlotOf(ringTail) /\ Queued = Count /\ Queued' = Queued - 1
    BY <1>2, <1>3, <2>1 DEF Queued, Count
  <2>3. Pending = Line(frameSlots, ringTail, Count)
        /\ Pending' = Line(frameSlots, ringTail + 1, Count - 1)
    <3>1. ringTail + 0 = ringTail
      BY <1>2 DEF Counter
    <3>. QED BY <1>1, <2>1, <2>2, <3>1
  <2>4. Pending # <<>> /\ Head(Pending) = frameSlots[held] /\ Pending' = Tail(Pending)
    <3>1. ringTail \in Nat
      BY <1>2 DEF Counter
    <3>. QED BY <1>2, <2>2, <2>3, <3>1, LineServed
  <2>. QED BY <2>1, <2>4 DEF Fifo!Next, Fifo!Deliver, Offered
<1>9. CASE LoadTail
  <2>1. UNCHANGED <<frameSlots, ringTail, ringHead, encoded, frameDrops, arrived, prod, drains>>
    BY <1>9 DEF LoadTail
  <2>2. Done' = Done
    <3>1. Count > 0
      BY <1>3, <1>9, <2>1 DEF LoadTail
    <3>2. ringTail # ringHead
      <4>1. Diff(ringHead, ringTail) > 0
        BY <3>1, PendingLine
      <4>. QED BY <1>2, <4>1, BehindType DEF Counter
    <3>. QED BY <1>9, <3>2 DEF LoadTail, Done, Owed
  <2>3. Pending' = Pending
    BY <1>1, <2>1, <2>2 DEF Queued, Count
  <2>. QED BY <2>1, <2>3 DEF Mapped, Offered
<1>10. CASE StoreTail
  <2>1. /\ UNCHANGED <<frameSlots, ringHead, encoded, frameDrops, arrived, prod, drains>>
        /\ ringTail' = Inc(encTail) /\ Done = 1 /\ Done' = 0 /\ encAt = "store"
    BY <1>10 DEF StoreTail, Done, Owed
  <2>2. encTail = ringTail /\ Count > 0
    BY <1>3, <2>1
  <2>3. Queued' = Queued
    <3>1. Diff(ringHead, Inc(ringTail)) = Diff(ringHead, ringTail) - 1
      BY <1>2, <2>2, TailMoves, PendingLine
    <3>2. Count' = Count - 1
      BY <2>1, <2>2, <3>1 DEF Count, Diff
    <3>. QED BY <1>2, <2>1, <3>2 DEF Queued
  <2>4. ASSUME NEW i \in 1..Queued
        PROVE  frameSlots[SlotOf(ringTail' + Done' + i - 1)]
                 = frameSlots[SlotOf(ringTail + Done + i - 1)]
    <3>1. i - 1 \in Nat
      BY <1>2
    <3>2. SlotOf(Inc(ringTail) + (i - 1)) = SlotOf(ringTail + 1 + (i - 1))
      BY <1>2, <3>1, SlotNext
    <3>3. Inc(ringTail) \in Counter
      BY <1>2, IncType
    <3>4. ringTail' + Done' + i - 1 = Inc(ringTail) + (i - 1)
      BY <2>1, <2>2, <3>3 DEF Counter
    <3>5. ringTail + Done + i - 1 = ringTail + 1 + (i - 1)
      BY <1>2, <2>1 DEF Counter
    <3>. QED BY <3>2, <3>4, <3>5
  <2>5. Pending' = Pending
    BY <1>1, <2>1, <2>3, <2>4, LineSame
  <2>. QED BY <2>1, <2>5 DEF Mapped, Offered
<1>11. CASE DrainStart
  BY <1>2, <1>11 DEF DrainStart
<1>12. CASE DrainTake \/ DrainLoad \/ DrainStore
  BY <1>3, <1>12 DEF DrainTake, DrainLoad, DrainStore
<1>13. CASE Resume
  BY <1>3, <1>13 DEF Resume
<1>14. CASE UNCHANGED queueVars
  <2>1. Pending' = Pending /\ Offered' = Offered /\ UNCHANGED <<encoded, frameDrops>>
    BY <1>14 DEF queueVars, Pending, Offered, Owed, Count
  <2>. QED BY <2>1 DEF Mapped
<1>. QED
  BY <1>4, <1>5, <1>6, <1>7, <1>8, <1>9, <1>10, <1>11, <1>12, <1>13, <1>14
  DEF QueueNext, Producer, Encoder, Drainer

\* Until maintenance drains it, the queue loses, doubles and reorders nothing
\* it accepted, for every pool that divides the counters' range as the pool of
\* 256 frames does (FrameRing, FrameQueue).
THEOREM QueueRefinement ==
  ASSUME InStep
  PROVE  QueueSpec => ImplementsLossyFifo
<1>1. QueueInit => Fifo!Init
  <2>. SUFFICES ASSUME QueueInit PROVE Fifo!Init
    OBVIOUS
  <2>1. /\ Pending = Line(frameSlots, ringTail + Done, Queued) /\ Count = Diff(0, 0)
        /\ Done = 0 /\ arrived = 0 /\ prod = "idle"
    BY InitInv, PendingLine DEF QueueInit, Done, Owed
  <2>2. Diff(0, 0) = 0
    BY BehindType, FrameQueueAssumption DEF Counter
  <2>3. Pending = <<>>
    BY <2>1, <2>2 DEF Line, Queued
  <2>4. Offered = 0
    <3>1. Owed(prod, {"copy"}) = 0
      BY <2>1 DEF Owed
    <3>. QED BY <2>1, <3>1 DEF Offered
  <2>. QED BY <2>3, <2>4 DEF QueueInit, Fifo!Init
<1>2. QueueIInv /\ QueueIInv' /\ [QueueNext]_queueVars
        => [drains' = 0 => Fifo!Next]_<<Offered, Pending, encoded, frameDrops>>
  BY QueueStepImplements DEF Mapped
<1>. QED BY <1>1, <1>2, QueueInductive, PTL DEF QueueSpec, ImplementsLossyFifo

-----------------------------------------------------------------------------
(* Ring indices.                                                           *)

\* Below twice the depth, the remainder is at most one subtraction.
LEMMA WrapOnce ==
  ASSUME NEW x \in Nat, x < 2 * Depth
  PROVE  x % Depth = IF x < Depth THEN x ELSE x - Depth
<1>1. CASE x < Depth
  BY <1>1, BatchStreamAssumption
<1>2. CASE x >= Depth
  <2>1. x - Depth \in 0..(Depth - 1)
    BY <1>2, BatchStreamAssumption
  <2>2. x % Depth = (x - Depth) % Depth
    BY <1>2, <2>1, BatchStreamAssumption
  <2>3. (x - Depth) % Depth = x - Depth
    BY <2>1, BatchStreamAssumption
  <2>4. ~(x < Depth)
    BY <1>2, BatchStreamAssumption
  <2>. QED BY <2>2, <2>3, <2>4
<1>. QED BY <1>1, <1>2, BatchStreamAssumption

LEMMA WrapIndex ==
  ASSUME NEW i \in Index
  PROVE  Wrap(i) \in Index /\ Wrap(i) = IF i + 1 < Depth THEN i + 1 ELSE 0
<1>1. i + 1 \in Nat /\ i + 1 < 2 * Depth
  BY BatchStreamAssumption DEF Index
<1>2. (i + 1) % Depth = IF i + 1 < Depth THEN i + 1 ELSE (i + 1) - Depth
  BY <1>1, WrapOnce
<1>3. ~(i + 1 < Depth) => (i + 1) - Depth = 0
  BY BatchStreamAssumption DEF Index
<1>. QED BY <1>2, <1>3, BatchStreamAssumption DEF Wrap, Index

\* The slot k places after i, for k up to the depth.
LEMMA PlaceAfter ==
  ASSUME NEW i \in Index, NEW k \in 0..Depth
  PROVE  /\ (i + k) % Depth \in Index
         /\ (i + k) % Depth = IF i + k < Depth THEN i + k ELSE (i + k) - Depth
<1>1. i + k \in Nat /\ i + k < 2 * Depth
  BY BatchStreamAssumption DEF Index
<1>2. (i + k) % Depth = IF i + k < Depth THEN i + k ELSE (i + k) - Depth
  BY <1>1, WrapOnce
<1>. QED BY <1>1, <1>2, BatchStreamAssumption DEF Index

\* Two places of the ring less than a depth apart are different slots.
LEMMA PlacesDiffer ==
  ASSUME NEW i \in Index, NEW k \in 0..Depth, NEW m \in 0..Depth,
         k < m, m - k < Depth
  PROVE  (i + k) % Depth # (i + m) % Depth
<1>1. (i + k) % Depth = IF i + k < Depth THEN i + k ELSE (i + k) - Depth
  BY PlaceAfter
<1>2. (i + m) % Depth = IF i + m < Depth THEN i + m ELSE (i + m) - Depth
  BY PlaceAfter
<1>. HIDE DEF Index
<1>3. i \in Nat /\ i < Depth
  BY BatchStreamAssumption DEF Index
<1>. QED BY <1>1, <1>2, <1>3, BatchStreamAssumption

\* Counting from the next tail is counting one further from this one.
LEMMA PlaceShifts ==
  ASSUME NEW i \in Index, NEW k \in 0..(Depth - 1)
  PROVE  (Wrap(i) + k) % Depth = (i + (k + 1)) % Depth
<1>1. k \in 0..Depth /\ k + 1 \in 0..Depth
  BY BatchStreamAssumption
<1>2. Wrap(i) \in Index /\ Wrap(i) = IF i + 1 < Depth THEN i + 1 ELSE 0
  BY WrapIndex
<1>3. (Wrap(i) + k) % Depth
        = IF Wrap(i) + k < Depth THEN Wrap(i) + k ELSE (Wrap(i) + k) - Depth
  BY <1>1, <1>2, PlaceAfter
<1>4. (i + (k + 1)) % Depth
        = IF i + (k + 1) < Depth THEN i + (k + 1) ELSE (i + (k + 1)) - Depth
  BY <1>1, PlaceAfter
<1>. QED BY <1>1, <1>2, <1>3, <1>4, BatchStreamAssumption DEF Index

-----------------------------------------------------------------------------
(* The two critical sections.                                              *)

LEMMA FullTakesToken ==
  ASSUME IInv, Polls, count = Depth
  PROVE  tokens > 0
BY BatchStreamAssumption
   DEF IInv, TypeOK, RingOK, TasksOK, TokensMatchBatches, Polls, One

LEMMA EnqueueTokens ==
  ASSUME IInv, Polls, Enqueue(seq), net' = net,
         enc' \in {"giveFull", "giveIdle"}
  PROVE  /\ count' \in 0..Depth /\ tokens' \in 0..Depth
         /\ TokensMatchBatches'
<1>1. CASE count = Depth
  BY <1>1, FullTakesToken, BatchStreamAssumption
     DEF IInv, TypeOK, RingOK, TasksOK, TokensMatchBatches, Polls, One, Enqueue
<1>2. CASE count # Depth
  BY <1>2, BatchStreamAssumption
     DEF IInv, TypeOK, RingOK, TasksOK, TokensMatchBatches, Polls, One, Enqueue
<1>. QED BY <1>1, <1>2

LEMMA EnqueueRing ==
  ASSUME IInv, Polls, Enqueue(seq), seq' = seq,
         enc' \in {"giveFull", "giveIdle"}
  PROVE  /\ slots' \in [Index -> Batch \cup {NoBatch}]
         /\ head' \in Index /\ tail' \in Index
         /\ HeadFollows'
         /\ FreshestKept'
<1>. USE BatchStreamAssumption
<1>1. /\ slots \in [Index -> Batch \cup {NoBatch}]
      /\ head \in Index /\ tail \in Index
      /\ count \in 0..Depth
      /\ seq \in Batch
      /\ head = (tail + count) % Depth
      /\ \A k \in 0..(count - 1) : slots[(tail + k) % Depth] = seq - count + k
      /\ Pushed' = seq + 1
  BY DEF IInv, TypeOK, RingOK, TasksOK, Polls, HeadFollows, FreshestKept,
         Pushed, One, Batch
<1>2. /\ head' = Wrap(head) /\ Wrap(head) \in Index
      /\ slots' = [slots EXCEPT ![head] = seq]
  BY <1>1, WrapIndex DEF Enqueue
<1>3. slots' \in [Index -> Batch \cup {NoBatch}]
  BY <1>1, <1>2
<1>4. CASE count = Depth
  <2>1. tail' = Wrap(tail) /\ Wrap(tail) \in Index /\ count' = Depth
    BY <1>1, <1>4, WrapIndex DEF Enqueue
  <2>2. head = tail
    BY <1>1, <1>4, PlaceAfter DEF Index
  <2>3. (Wrap(tail) + Depth) % Depth = Wrap(tail)
    BY <2>1, PlaceAfter DEF Index
  <2>4. HeadFollows'
    BY <1>2, <2>1, <2>2, <2>3 DEF HeadFollows
  <2>5. ASSUME NEW k \in 0..(Depth - 1)
        PROVE  slots'[(tail' + k) % Depth] = (seq + 1) - Depth + k
    <3>0. k + 1 \in 0..Depth /\ Depth \in 0..Depth
      OBVIOUS
    <3>1. (tail' + k) % Depth = (tail + (k + 1)) % Depth
      BY <1>1, <2>1, PlaceShifts
    <3>2. (tail + (k + 1)) % Depth \in Index
      BY <1>1, <3>0, PlaceAfter
    <3>3. CASE k = Depth - 1
      <4>1. k + 1 = Depth
        BY <3>3
      <4>2. (tail' + k) % Depth = head
        BY <1>1, <1>4, <3>1, <4>1
      <4>3. slots'[head] = seq
        BY <1>1, <1>2
      <4>4. (seq + 1) - Depth + k = seq
        BY <1>1, <3>3 DEF Batch
      <4>. QED BY <4>2, <4>3, <4>4
    <3>4. CASE k # Depth - 1
      <4>0. k + 1 < Depth /\ Depth - (k + 1) < Depth
        BY <3>4
      <4>1. (tail + (k + 1)) % Depth # (tail + Depth) % Depth
        BY <1>1, <3>0, <4>0, PlacesDiffer
      <4>2. slots[(tail + (k + 1)) % Depth] = seq - Depth + (k + 1)
        BY <1>1, <1>4, <3>4
      <4>. QED BY <1>1, <1>2, <1>4, <3>1, <3>2, <4>1, <4>2 DEF Batch
    <3>. QED BY <3>3, <3>4
  <2>. QED BY <1>1, <1>2, <1>3, <2>1, <2>4, <2>5 DEF FreshestKept
<1>5. CASE count # Depth
  <2>1. tail' = tail /\ count' = count + 1
    BY <1>5 DEF Enqueue
  <2>2. HeadFollows'
    <3>1. head = IF tail + count < Depth THEN tail + count
                 ELSE (tail + count) - Depth
      BY <1>1, PlaceAfter
    <3>2. (tail + (count + 1)) % Depth
            = IF tail + (count + 1) < Depth THEN tail + (count + 1)
              ELSE (tail + (count + 1)) - Depth
      <4>1. count + 1 \in 0..Depth
        BY <1>1, <1>5
      <4>. QED BY <1>1, <4>1, PlaceAfter
    <3>3. Wrap(head) = IF head + 1 < Depth THEN head + 1 ELSE 0
      BY <1>1, WrapIndex
    <3>. QED BY <1>1, <1>2, <1>5, <2>1, <3>1, <3>2, <3>3 DEF HeadFollows, Index
  <2>3. ASSUME NEW k \in 0..count
        PROVE  slots'[(tail + k) % Depth] = (seq + 1) - (count + 1) + k
    <3>0. k \in 0..Depth
      BY <1>1
    <3>1. (tail + k) % Depth \in Index
      BY <1>1, <3>0, PlaceAfter
    <3>2. CASE k = count
      <4>1. slots'[head] = seq
        BY <1>1, <1>2
      <4>2. (seq + 1) - (count + 1) + k = seq
        BY <1>1, <3>2 DEF Batch
      <4>. QED BY <1>1, <3>2, <4>1, <4>2
    <3>3. CASE k # count
      <4>0. k < count /\ count - k < Depth
        BY <1>1, <1>5, <3>3
      <4>1. (tail + k) % Depth # (tail + count) % Depth
        BY <1>1, <3>0, <4>0, PlacesDiffer
      <4>2. slots[(tail + k) % Depth] = seq - count + k
        BY <1>1, <3>3
      <4>. QED BY <1>1, <1>2, <3>1, <4>1, <4>2 DEF Batch
    <3>. QED BY <3>2, <3>3
  <2>. QED BY <1>1, <1>2, <1>3, <2>1, <2>2, <2>3 DEF FreshestKept
<1>. QED BY <1>4, <1>5

LEMMA PopRing ==
  ASSUME IInv, Pop
  PROVE  /\ tail' \in Index /\ count' \in 0..Depth /\ count' = count - 1
         /\ HeadFollows'
         /\ FreshestKept'
         /\ batch' = Pushed - count
<1>. USE BatchStreamAssumption
<1>1. /\ head \in Index /\ tail \in Index
      /\ count \in 1..Depth
      /\ head = (tail + count) % Depth
      /\ Pushed \in Int /\ Pushed' = Pushed
      /\ \A k \in 0..(count - 1) : slots[(tail + k) % Depth] = Pushed - count + k
      /\ net = "copy"
  BY DEF IInv, TypeOK, RingOK, TasksOK, HeadFollows, FreshestKept, Pop,
         TokensMatchBatches, Pushed, One, encVars
<1>2. /\ tail' = Wrap(tail) /\ count' = count - 1 /\ head' = head
      /\ slots' = slots /\ batch' = slots[tail]
  BY DEF Pop
<1>3. Wrap(tail) \in Index
  BY <1>1, WrapIndex
<1>4. HeadFollows'
  <2>1. (Wrap(tail) + (count - 1)) % Depth = (tail + ((count - 1) + 1)) % Depth
    BY <1>1, PlaceShifts
  <2>2. (count - 1) + 1 = count
    BY <1>1
  <2>. QED BY <1>1, <1>2, <2>1, <2>2 DEF HeadFollows
<1>5. ASSUME NEW k \in 0..((count - 1) - 1)
      PROVE  slots'[(tail' + k) % Depth] = Pushed' - (count - 1) + k
  <2>1. (Wrap(tail) + k) % Depth = (tail + (k + 1)) % Depth
    BY <1>1, PlaceShifts
  <2>2. slots[(tail + (k + 1)) % Depth] = Pushed - count + (k + 1)
    BY <1>1
  <2>. QED BY <1>1, <1>2, <2>1, <2>2
<1>6. batch' = Pushed - count
  <2>1. (tail + 0) % Depth = tail
    <3>1. 0 \in 0..Depth /\ tail + 0 = tail /\ tail < Depth
      BY <1>1 DEF Index
    <3>2. (tail + 0) % Depth
            = IF tail + 0 < Depth THEN tail + 0 ELSE (tail + 0) - Depth
      BY <1>1, <3>1, PlaceAfter
    <3>. QED BY <3>1, <3>2
  <2>2. slots[(tail + 0) % Depth] = Pushed - count + 0
    BY <1>1
  <2>. QED BY <1>1, <1>2, <2>1, <2>2
<1>. QED BY <1>1, <1>2, <1>3, <1>4, <1>5, <1>6 DEF FreshestKept

-----------------------------------------------------------------------------
(* The induction.                                                          *)

LEMMA InitIInv == Init => IInv
<1>. SUFFICES ASSUME Init PROVE IInv
  OBVIOUS
<1>. USE BatchStreamAssumption DEF Init
<1>1. FlagsOK
  BY DEF FlagsOK
<1>2. RingOK /\ TasksOK
  BY DEF RingOK, TasksOK, Index, Batch, NoBatch
<1>3. TokensMatchBatches /\ FreshestKept /\ PushWithinBound
  BY DEF TokensMatchBatches, FreshestKept, PushWithinBound, One
<1>4. HeadFollows
  <2>1. 0 \in Index /\ 0 \in 0..Depth
    BY DEF Index
  <2>2. (0 + 0) % Depth = IF 0 + 0 < Depth THEN 0 + 0 ELSE (0 + 0) - Depth
    BY <2>1, PlaceAfter
  <2>. QED BY <2>2 DEF HeadFollows
<1>5. OlderThanRing /\ SentInOrder /\ EveryBatchAccounted
  BY DEF OlderThanRing, SentInOrder, EveryBatchAccounted, InHand, Pushed, One
<1>. QED BY <1>1, <1>2, <1>3, <1>4, <1>5 DEF IInv, TypeOK

\* Steps that leave the ring alone leave what is said of the ring alone.
LEMMA RingUntouched ==
  ASSUME IInv, UNCHANGED <<slots, head, tail, count>>, Pushed' = Pushed
  PROVE  HeadFollows' /\ FreshestKept'
BY DEF IInv, HeadFollows, FreshestKept

LEMMA BatchNumbers ==
  ASSUME IInv
  PROVE  /\ Pushed \in Int /\ Oldest \in Int /\ InHand \in Int
         /\ count \in Int /\ batch \in Int /\ Len(sent) \in Nat
         /\ drops \in Int /\ failures \in Int
         /\ \A i \in 1..Len(sent) : sent[i] \in Int
<1>1. sent \in Seq(Batch)
  BY DEF IInv, TypeOK, TasksOK
<1>2. Len(sent) \in Nat /\ \A i \in 1..Len(sent) : sent[i] \in Batch
  BY <1>1
<1>. QED
  BY <1>2, BatchStreamAssumption
     DEF IInv, TypeOK, RingOK, TasksOK, Pushed, Oldest, InHand, One, Batch, NoBatch

LEMMA PushStep ==
  ASSUME IInv, Polls, Enqueue(seq), enc' \in {"giveFull", "giveIdle"},
         built' = built, idle' \in 0..FlushTicks,
         seq' = seq, net' = net, batch' = batch, resolved' = resolved,
         backoff' = backoff, dns' = dns, failures' = failures, sent' = sent
  PROVE  IInv'
<1>. USE BatchStreamAssumption
<1>0. /\ Pushed \in Int /\ Oldest \in Int /\ InHand \in Int
      /\ count \in Int /\ batch \in Int /\ Len(sent) \in Nat
      /\ drops \in Int /\ failures \in Int
      /\ \A i \in 1..Len(sent) : sent[i] \in Int
  BY BatchNumbers
<1>1. FlagsOK'
  BY DEF IInv, TypeOK, FlagsOK
<1>2. RingOK'
  BY EnqueueTokens, EnqueueRing DEF RingOK
<1>3. drops' \in Nat
        /\ drops' + count' = drops + count + 1
  BY DEF Enqueue, IInv, TypeOK, RingOK, TasksOK
<1>4. TasksOK'
  BY <1>3 DEF IInv, TypeOK, TasksOK
<1>5. Oldest <= Oldest' /\ Oldest' \in Int /\ InHand' = InHand
  BY DEF Enqueue, IInv, TypeOK, RingOK, TasksOK, Oldest, Pushed, InHand, One,
         Polls
<1>6. PushWithinBound'
  BY DEF PushWithinBound, Polls
<1>7. OlderThanRing'
  BY <1>0, <1>5 DEF IInv, OlderThanRing
<1>8. SentInOrder'
  BY DEF IInv, SentInOrder
<1>9. EveryBatchAccounted'
  <2>1. CASE count = Depth
    BY <1>0, <1>5, <2>1
       DEF IInv, TypeOK, RingOK, TasksOK, EveryBatchAccounted, Enqueue, Pushed,
           One, Polls
  <2>2. CASE count # Depth
    BY <1>0, <1>5, <2>2
       DEF IInv, TypeOK, RingOK, TasksOK, EveryBatchAccounted, Enqueue, Pushed,
           One, Polls
  <2>. QED BY <2>1, <2>2
<1>. QED
  BY <1>1, <1>2, <1>4, <1>6, <1>7, <1>8, <1>9, EnqueueTokens, EnqueueRing
     DEF IInv, TypeOK

LEMMA GiveStep ==
  ASSUME IInv, Give
  PROVE  IInv'
<1>. USE BatchStreamAssumption DEF Give
<1>1. FlagsOK'
  BY DEF IInv, TypeOK, FlagsOK, netVars
<1>2. RingOK' /\ TokensMatchBatches'
  BY DEF IInv, TypeOK, RingOK, TasksOK, TokensMatchBatches, One, netVars
<1>3. TasksOK'
  BY DEF IInv, TypeOK, TasksOK, PushWithinBound, netVars
<1>4. Pushed' = Pushed /\ Oldest' = Oldest /\ InHand' = InHand
  BY DEF IInv, TypeOK, TasksOK, Pushed, Oldest, InHand, One, netVars
<1>5. HeadFollows' /\ FreshestKept'
  BY <1>4, RingUntouched
<1>6. PushWithinBound' /\ OlderThanRing' /\ SentInOrder' /\ EveryBatchAccounted'
  BY <1>4 DEF IInv, PushWithinBound, OlderThanRing, SentInOrder,
              EveryBatchAccounted, netVars
<1>. QED BY <1>1, <1>2, <1>3, <1>5, <1>6 DEF IInv, TypeOK

LEMMA PopStep ==
  ASSUME IInv, Pop
  PROVE  IInv'
<1>. USE BatchStreamAssumption DEF Pop, encVars
<1>1. FlagsOK'
  BY DEF IInv, TypeOK, FlagsOK
<1>2. RingOK'
  BY PopRing DEF IInv, TypeOK, RingOK
<1>3. TokensMatchBatches'
  BY DEF IInv, TypeOK, RingOK, TasksOK, TokensMatchBatches, One
<1>4. TasksOK'
  <2>1. slots[tail] \in Batch \cup {NoBatch}
    BY DEF IInv, TypeOK, RingOK
  <2>. QED BY <2>1 DEF IInv, TypeOK, TasksOK
<1>5. Pushed' = Pushed /\ InHand = 0 /\ InHand' = 1
  BY DEF Pushed, InHand, One
<1>6. Pushed - count >= 0
  BY <1>5, BatchNumbers DEF IInv, TypeOK, TasksOK, EveryBatchAccounted
<1>7. OlderThanRing'
  BY <1>5, <1>6, PopRing, BatchNumbers DEF IInv, OlderThanRing, Oldest, NoBatch
<1>8. EveryBatchAccounted'
  BY <1>5, PopRing, BatchNumbers DEF IInv, EveryBatchAccounted
<1>. QED
  BY <1>1, <1>2, <1>3, <1>4, <1>7, <1>8, PopRing
     DEF IInv, TypeOK, PushWithinBound, SentInOrder

\* The steps of either task that touch neither ring nor tokens.
LEMMA SendStep ==
  ASSUME IInv, Send
  PROVE  IInv'
<1>. USE DEF Send, ringVars, encVars
<1>1. FlagsOK' /\ RingOK' /\ PushWithinBound'
  BY DEF IInv, TypeOK, FlagsOK, RingOK, PushWithinBound
<1>2. Pushed' = Pushed /\ Oldest' = Oldest /\ InHand = 1 /\ InHand' = 0
  BY DEF Pushed, Oldest, InHand, One
<1>3. batch \in Batch /\ batch < Oldest
  BY <1>2 DEF IInv, TypeOK, TasksOK, OlderThanRing
<1>4. sent \in Seq(Batch) /\ sent' = Append(sent, batch)
  BY DEF IInv, TypeOK, TasksOK
<1>5. TasksOK'
  BY <1>3, <1>4 DEF IInv, TypeOK, TasksOK
<1>6. /\ Len(sent') = Len(sent) + 1
      /\ \A i \in 1..Len(sent) : sent'[i] = sent[i]
      /\ sent'[Len(sent) + 1] = batch
  BY <1>3, <1>4
<1>7. \A i \in 1..Len(sent) : sent[i] < batch
  BY <1>2 DEF IInv, OlderThanRing
<1>8. SentInOrder'
  <2>. SUFFICES ASSUME NEW i \in 1..Len(sent)
                PROVE  sent'[i] < sent'[i + 1]
    BY <1>6, BatchNumbers DEF SentInOrder
  <2>1. CASE i = Len(sent)
    BY <1>6, <1>7, <2>1
  <2>2. CASE i # Len(sent)
    BY <1>6, <2>2, BatchNumbers DEF IInv, SentInOrder
  <2>. QED BY <2>1, <2>2
<1>9. OlderThanRing'
  <2>. SUFFICES ASSUME NEW i \in 1..(Len(sent) + 1)
                PROVE  sent'[i] < Oldest
    BY <1>2, <1>6 DEF OlderThanRing
  <2>1. CASE i = Len(sent) + 1
    BY <1>3, <1>6, <2>1
  <2>2. CASE i # Len(sent) + 1
    BY <1>3, <1>6, <1>7, <2>2, BatchNumbers
  <2>. QED BY <2>1, <2>2
<1>10. TokensMatchBatches' /\ HeadFollows' /\ FreshestKept'
  BY <1>2, RingUntouched DEF IInv, TokensMatchBatches, One
<1>11. EveryBatchAccounted'
  BY <1>2, <1>6, BatchNumbers DEF IInv, EveryBatchAccounted
<1>. QED
  BY <1>1, <1>5, <1>8, <1>9, <1>10, <1>11 DEF IInv, TypeOK

LEMMA LoseStep ==
  ASSUME IInv, SendFails \/ GiveUp
  PROVE  IInv'
<1>. USE DEF SendFails, GiveUp, ringVars, encVars
<1>1. FlagsOK' /\ RingOK' /\ PushWithinBound' /\ SentInOrder'
  BY DEF IInv, TypeOK, FlagsOK, RingOK, PushWithinBound, SentInOrder
<1>2. Pushed' = Pushed /\ Oldest' = Oldest /\ InHand = 1 /\ InHand' = 0
  BY DEF Pushed, Oldest, InHand, One
<1>3. TasksOK' /\ failures' = failures + 1
  BY BatchStreamAssumption DEF IInv, TypeOK, TasksOK
<1>4. OlderThanRing'
  BY <1>2, BatchNumbers DEF IInv, OlderThanRing
<1>5. TokensMatchBatches' /\ HeadFollows' /\ FreshestKept'
  BY <1>2, RingUntouched DEF IInv, TokensMatchBatches, One
<1>6. EveryBatchAccounted'
  BY <1>2, <1>3, BatchNumbers DEF IInv, EveryBatchAccounted
<1>. QED BY <1>1, <1>3, <1>4, <1>5, <1>6 DEF IInv, TypeOK

LEMMA NextIInv == IInv /\ [Next]_vars => IInv'
<1>. SUFFICES ASSUME IInv, [Next]_vars PROVE IInv'
  OBVIOUS
<1>. USE BatchStreamAssumption
<1>1. CASE AddFrame \/ IdleTick
  <2>. USE <1>1 DEF AddFrame, IdleTick, Polls, ringVars, netVars
  <2>1. FlagsOK' /\ RingOK' /\ PushWithinBound' /\ SentInOrder'
    BY DEF IInv, TypeOK, FlagsOK, RingOK, PushWithinBound, SentInOrder
  <2>2. TasksOK'
    BY DEF IInv, TypeOK, TasksOK
  <2>3. Pushed' = Pushed /\ Oldest' = Oldest /\ InHand' = InHand
    BY DEF Pushed, Oldest, InHand, One
  <2>4. /\ TokensMatchBatches' /\ HeadFollows' /\ FreshestKept'
        /\ OlderThanRing' /\ EveryBatchAccounted'
    BY <2>3, RingUntouched
       DEF IInv, TokensMatchBatches, OlderThanRing, EveryBatchAccounted
  <2>. QED BY <2>1, <2>2, <2>4 DEF IInv, TypeOK
<1>2. CASE PushFull
  <2>1. idle' \in 0..FlushTicks /\ Polls /\ Enqueue(seq)
    BY <1>2 DEF PushFull
  <2>. QED BY <1>2, <2>1, PushStep DEF PushFull, netVars
<1>3. CASE Flush
  <2>1. idle' \in 0..FlushTicks /\ Polls /\ Enqueue(seq)
    BY <1>3 DEF Flush, IInv, TypeOK, TasksOK
  <2>. QED BY <1>3, <2>1, PushStep DEF Flush, netVars
<1>4. CASE Give
  BY <1>4, GiveStep
<1>5. CASE TakeToken
  <2>. USE <1>5 DEF TakeToken, encVars
  <2>1. FlagsOK' /\ PushWithinBound' /\ SentInOrder'
    BY DEF IInv, TypeOK, FlagsOK, PushWithinBound, SentInOrder
  <2>2. RingOK' /\ TokensMatchBatches'
    BY DEF IInv, TypeOK, RingOK, TasksOK, TokensMatchBatches, One
  <2>3. TasksOK'
    BY DEF IInv, TypeOK, TasksOK
  <2>4. Pushed' = Pushed /\ Oldest' = Oldest /\ InHand' = InHand
    BY DEF Pushed, Oldest, InHand, One
  <2>5. HeadFollows' /\ FreshestKept' /\ OlderThanRing' /\ EveryBatchAccounted'
    BY <2>4, RingUntouched DEF IInv, OlderThanRing, EveryBatchAccounted
  <2>. QED BY <2>1, <2>2, <2>3, <2>5 DEF IInv, TypeOK
<1>6. CASE Pop
  BY <1>6, PopStep
<1>7. CASE Resolve \/ DnsChange
  <2>. USE <1>7 DEF Resolve, DnsChange, ringVars, encVars, netVars
  <2>1. FlagsOK' /\ RingOK' /\ PushWithinBound' /\ SentInOrder'
    BY DEF IInv, TypeOK, FlagsOK, RingOK, PushWithinBound, SentInOrder
  <2>2. TasksOK'
    BY DEF IInv, TypeOK, TasksOK
  <2>3. Pushed' = Pushed /\ Oldest' = Oldest /\ InHand' = InHand
    BY DEF Pushed, Oldest, InHand, One
  <2>4. /\ TokensMatchBatches' /\ HeadFollows' /\ FreshestKept'
        /\ OlderThanRing' /\ EveryBatchAccounted'
    BY <2>3, RingUntouched
       DEF IInv, TokensMatchBatches, OlderThanRing, EveryBatchAccounted, One
  <2>. QED BY <2>1, <2>2, <2>4 DEF IInv, TypeOK
<1>8. CASE GiveUp \/ SendFails
  BY <1>8, LoseStep
<1>9. CASE Send
  BY <1>9, SendStep
<1>10. CASE UNCHANGED vars
  <2>. USE <1>10 DEF vars, ringVars, encVars, netVars
  <2>1. FlagsOK' /\ RingOK' /\ TasksOK' /\ PushWithinBound' /\ SentInOrder'
    BY DEF IInv, TypeOK, FlagsOK, RingOK, TasksOK, PushWithinBound, SentInOrder
  <2>2. Pushed' = Pushed /\ Oldest' = Oldest /\ InHand' = InHand
    BY DEF Pushed, Oldest, InHand
  <2>3. /\ TokensMatchBatches' /\ HeadFollows' /\ FreshestKept'
        /\ OlderThanRing' /\ EveryBatchAccounted'
    BY <2>2, RingUntouched
       DEF IInv, TokensMatchBatches, OlderThanRing, EveryBatchAccounted
  <2>. QED BY <2>1, <2>3 DEF IInv, TypeOK
<1>. QED
  BY <1>1, <1>2, <1>3, <1>4, <1>5, <1>6, <1>7, <1>8, <1>9, <1>10
     DEF Next, Encode, Network

\* The conjunction of the invariants below is inductive (BatchRing::push, pop).
THEOREM Inductive == Spec => []IInv
<1>. QED BY InitIInv, NextIInv, PTL DEF Spec

\* Wake-ups and batches match although they change under different locks
\* (BatchRing::push, pop).
THEOREM Tokens == Spec => []TokensMatchBatches
<1>1. IInv => TokensMatchBatches
  BY DEF IInv
<1>. QED BY <1>1, Inductive, PTL

\* The ring holds exactly the newest batches, in order (BatchRing::push).
THEOREM Freshest == Spec => []FreshestKept
<1>1. IInv => FreshestKept
  BY DEF IInv
<1>. QED BY <1>1, Inductive, PTL

\* What reaches the collector is in order of packetSeq (encodeTask, networkTask).
THEOREM Ordered == Spec => []SentInOrder
<1>1. IInv => SentInOrder
  BY DEF IInv
<1>. QED BY <1>1, Inductive, PTL

\* No batch disappears without being counted (BatchRing::push, networkTask).
THEOREM Accounted == Spec => []EveryBatchAccounted
<1>1. IInv => EveryBatchAccounted
  BY DEF IInv
<1>. QED BY <1>1, Inductive, PTL

-----------------------------------------------------------------------------
(* Refinement of DropOldestQueue.                                          *)

\* n consecutive numbers from a.
Run(a, n) == [i \in 1..n |-> a + (i - 1)]

LEMMA RunIsSeq ==
  ASSUME NEW a \in Int, NEW n \in Nat
  PROVE  Run(a, n) \in Seq(Int) /\ Len(Run(a, n)) = n
BY DEF Run

LEMMA RunGrows ==
  ASSUME NEW a \in Int, NEW n \in Nat
  PROVE  Append(Run(a, n), a + n) = Run(a, n + 1)
<1>1. /\ Append(Run(a, n), a + n) \in Seq(Int)
      /\ Len(Append(Run(a, n), a + n)) = n + 1
      /\ \A i \in 1..(n + 1) : Append(Run(a, n), a + n)[i] = a + (i - 1)
  BY RunIsSeq DEF Run
<1>. QED BY <1>1 DEF Run

LEMMA RunShrinks ==
  ASSUME NEW a \in Int, NEW n \in Nat \ {0}
  PROVE  /\ Run(a, n) # <<>> /\ Head(Run(a, n)) = a
         /\ Tail(Run(a, n)) = Run(a + 1, n - 1)
<1>1. /\ Tail(Run(a, n)) \in Seq(Int)
      /\ Len(Tail(Run(a, n))) = n - 1
      /\ \A i \in 1..(n - 1) : Tail(Run(a, n))[i] = (a + 1) + (i - 1)
  BY RunIsSeq DEF Run
<1>2. /\ Run(a + 1, n - 1) \in Seq(Int)
      /\ Len(Run(a + 1, n - 1)) = n - 1
      /\ \A i \in 1..(n - 1) : Run(a + 1, n - 1)[i] = (a + 1) + (i - 1)
  <2>1. a + 1 \in Int /\ n - 1 \in Nat
    OBVIOUS
  <2>. QED BY <2>1, RunIsSeq DEF Run
<1>3. Tail(Run(a, n)) = Run(a + 1, n - 1)
  <2>. DEFINE s == Tail(Run(a, n))
              t == Run(a + 1, n - 1)
  <2>1. s \in Seq(Int) /\ t \in Seq(Int) /\ Len(s) = Len(t)
    BY <1>1, <1>2
  <2>2. \A i \in 1..Len(s) : s[i] = t[i]
    BY <1>1, <1>2
  <2>. HIDE DEF s, t
  <2>3. s = t
    BY <2>1, <2>2
  <2>. QED BY <2>3 DEF s, t
<1>4. Len(Run(a, n)) = n /\ Run(a, n)[1] = a /\ Run(a, n) \in Seq(Int)
  BY RunIsSeq DEF Run
<1>5. Run(a, n) # <<>> /\ Head(Run(a, n)) = a
  BY <1>4
<1>. QED BY <1>3, <1>5

\* The waiting batches are consecutive numbers.
WaitingShape == /\ Waiting = Run(Oldest, count)
                /\ count \in 0..Depth /\ Oldest \in Int

LEMMA WaitingIs == IInv => WaitingShape
<1>. SUFFICES ASSUME IInv PROVE WaitingShape
  OBVIOUS
<1>1. count \in 0..Depth /\ Oldest \in Int
  BY BatchNumbers DEF IInv, TypeOK, RingOK
<1>2. ASSUME NEW i \in 1..count
      PROVE  slots[(tail + i - 1) % Depth] = Oldest + (i - 1)
  <2>1. i - 1 \in 0..(count - 1)
    BY <1>1
  <2>2. slots[(tail + (i - 1)) % Depth] = Pushed - count + (i - 1)
    BY <2>1 DEF IInv, FreshestKept
  <2>3. tail + i - 1 = tail + (i - 1)
    BY <1>1 DEF IInv, TypeOK, RingOK, Index
  <2>. QED BY <2>2, <2>3 DEF Oldest
<1>. QED BY <1>1, <1>2 DEF WaitingShape, Waiting, Run

LEMMA PushImplements ==
  ASSUME IInv, IInv', Polls, Enqueue(seq), seq' = seq, batch' = batch,
         enc' \in {"giveFull", "giveIdle"}
  PROVE  Abstract!Put
<1>. USE BatchStreamAssumption
<1>1. Pushed = seq /\ Pushed' = Pushed + 1 /\ seq \in Int
  BY DEF Polls, Pushed, One, IInv, TypeOK, TasksOK
<1>2. WaitingShape /\ WaitingShape'
  BY WaitingIs, PTL
<1>3. Len(Waiting) = count
  BY <1>2, RunIsSeq DEF WaitingShape
<1>4. CASE count = Depth
  <2>1. Oldest = seq - Depth /\ Oldest' = Oldest + 1 /\ count' = Depth
    BY <1>1, <1>4 DEF Enqueue, Oldest, Pushed, One
  <2>2. Tail(Waiting) = Run(Oldest + 1, Depth - 1)
    <3>1. Oldest \in Int /\ Depth \in Nat \ {0} /\ Waiting = Run(Oldest, Depth)
      BY <1>2, <1>4 DEF WaitingShape
    <3>. QED BY <3>1, RunShrinks
  <2>3. Append(Run(Oldest + 1, Depth - 1), (Oldest + 1) + (Depth - 1))
          = Run(Oldest + 1, (Depth - 1) + 1)
    <3>1. Oldest + 1 \in Int /\ Depth - 1 \in Nat
      BY <1>2 DEF WaitingShape
    <3>. QED BY <3>1, RunGrows
  <2>4. (Oldest + 1) + (Depth - 1) = Pushed /\ (Depth - 1) + 1 = Depth
    BY <1>1, <2>1
  <2>5. Waiting' = Append(Tail(Waiting), Pushed)
    BY <1>2, <2>1, <2>2, <2>3, <2>4 DEF WaitingShape
  <2>. QED BY <1>1, <1>3, <1>4, <2>5 DEF Abstract!Put
<1>5. CASE count # Depth
  <2>1. Oldest' = Oldest /\ count' = count + 1
    BY <1>1, <1>2, <1>5 DEF Enqueue, Oldest, Pushed, One, WaitingShape
  <2>2. Append(Run(Oldest, count), Oldest + count) = Run(Oldest, count + 1)
    <3>1. Oldest \in Int /\ count \in Nat
      BY <1>2 DEF WaitingShape
    <3>. QED BY <3>1, RunGrows
  <2>3. Oldest + count = Pushed
    BY <1>1, <1>2 DEF Oldest, WaitingShape
  <2>4. Waiting' = Append(Waiting, Pushed)
    BY <1>2, <2>1, <2>2, <2>3 DEF WaitingShape
  <2>. QED BY <1>1, <1>3, <1>5, <2>4 DEF Abstract!Put
<1>. QED BY <1>4, <1>5

LEMMA PopImplements ==
  ASSUME IInv, IInv', Pop
  PROVE  Abstract!Get
<1>1. WaitingShape /\ WaitingShape'
  BY WaitingIs, PTL
<1>2. count \in Nat \ {0}
  BY DEF IInv, TypeOK, RingOK, TasksOK, TokensMatchBatches, Pop, One
<1>3. count' = count - 1 /\ batch' = Oldest
  BY PopRing DEF Oldest
<1>4. Pushed' = Pushed
  BY DEF Pop, Pushed, One, encVars
<1>5. Oldest' = Oldest + 1
  BY <1>2, <1>3, <1>4, BatchNumbers DEF Oldest
<1>6. /\ Waiting # <<>> /\ Head(Waiting) = Oldest
      /\ Tail(Waiting) = Run(Oldest + 1, count - 1)
  BY <1>1, <1>2, RunShrinks DEF WaitingShape
<1>7. Waiting' = Tail(Waiting)
  BY <1>1, <1>3, <1>5, <1>6 DEF WaitingShape
<1>. QED BY <1>3, <1>4, <1>6, <1>7 DEF Abstract!Get

LEMMA OthersStutter ==
  ASSUME IInv, UNCHANGED <<slots, tail, count, batch>>, Pushed' = Pushed
  PROVE  UNCHANGED Abstract!vars
BY DEF Abstract!vars, Waiting

LEMMA StepImplements ==
  ASSUME IInv, IInv', [Next]_vars
  PROVE  [Abstract!Next]_(Abstract!vars)
<1>1. CASE AddFrame \/ IdleTick
  BY <1>1, OthersStutter
     DEF AddFrame, IdleTick, Pushed, One, ringVars, netVars
<1>2. CASE PushFull
  <2>1. Polls /\ Enqueue(seq) /\ enc' = "giveFull" /\ seq' = seq /\ batch' = batch
    BY <1>2 DEF PushFull, netVars
  <2>. QED BY <2>1, PushImplements DEF Abstract!Next
<1>3. CASE Flush
  <2>1. Polls /\ Enqueue(seq) /\ enc' = "giveIdle" /\ seq' = seq /\ batch' = batch
    BY <1>3 DEF Flush, netVars
  <2>. QED BY <2>1, PushImplements DEF Abstract!Next
<1>4. CASE Give
  <2>1. Pushed' = Pushed
    BY <1>4 DEF Give, Pushed, One, IInv, TypeOK, TasksOK
  <2>. QED BY <1>4, <2>1, OthersStutter DEF Give, netVars
<1>5. CASE TakeToken
  BY <1>5, OthersStutter DEF TakeToken, Pushed, One, encVars
<1>6. CASE Pop
  BY <1>6, PopImplements DEF Abstract!Next
<1>7. CASE Resolve \/ DnsChange
  BY <1>7, OthersStutter
     DEF Resolve, DnsChange, Pushed, One, ringVars, encVars, netVars
<1>8. CASE GiveUp \/ SendFails \/ Send
  BY <1>8, OthersStutter
     DEF GiveUp, SendFails, Send, Pushed, One, ringVars, encVars
<1>9. CASE UNCHANGED vars
  BY <1>9, OthersStutter DEF vars, Pushed, One, ringVars, encVars, netVars
<1>. QED
  BY <1>1, <1>2, <1>3, <1>4, <1>5, <1>6, <1>7, <1>8, <1>9
     DEF Next, Encode, Network

\* BatchRing, with its tokens and two tasks, is a drop-oldest queue.
THEOREM Refinement == Spec => ImplementsDropOldest
<1>1. Init => Abstract!Init
  <2>. SUFFICES ASSUME Init PROVE Abstract!Init
    OBVIOUS
  <2>1. Waiting = <<>>
    BY DEF Init, Waiting
  <2>. QED BY <2>1 DEF Init, Abstract!Init, Pushed, One, NoBatch
<1>2. IInv /\ IInv' /\ [Next]_vars => [Abstract!Next]_(Abstract!vars)
  BY StepImplements
<1>. QED BY <1>1, <1>2, Inductive, PTL DEF Spec, ImplementsDropOldest, Abstract!Spec

-----------------------------------------------------------------------------
(* The datagram, from the builder to the files and back.                   *)

LEMMA WordIs ==
  /\ \A n : Num(Word(n)) = n /\ (n \in Nat => Word(n) \in Number)
  /\ \A a, b : Crc(a) = Crc(b) => a = b
  /\ \A a, n : Crc(a) # Word(n)
  /\ {Magic, MagicV2, Version, Version2, Zero} \subseteq Number
  /\ Magic # MagicV2
<1>1. \A n : Num(Word(n)) = n
  BY DEF Num, Word
<1>2. \A n : n \in Nat => Word(n) \in Number
  BY DEF Word, Number
<1>3. ASSUME NEW a, NEW b, Crc(a) = Crc(b) PROVE a = b
  <2>1. Crc(a).crc = a /\ Crc(b).crc = b
    BY DEF Crc
  <2>. QED BY <1>3, <2>1
<1>4. ASSUME NEW a, NEW n PROVE Crc(a) # Word(n)
  <2>1. "crc" \in DOMAIN Crc(a) /\ "crc" \notin DOMAIN Word(n)
    BY DEF Crc, Word
  <2>. QED BY <2>1
<1>5. {Magic, MagicV2, Version, Version2, Zero} \subseteq Number
  BY <1>2 DEF Magic, MagicV2, Version, Version2, Zero
<1>6. Magic # MagicV2
  <2>1. Num(Magic) = 9 /\ Num(MagicV2) = 8
    BY <1>1 DEF Magic, MagicV2
  <2>. QED BY <2>1
<1>. QED BY <1>1, <1>2, <1>3, <1>4, <1>5, <1>6

\* What the CRC closes, a parser takes apart again.
LEMMA SealedIs ==
  ASSUME NEW body \in Seq(Number)
  PROVE  LET buf == body \o <<Crc(body)>>
         IN  /\ buf \in Seq(AnyWord) /\ Len(buf) = Len(body) + 1
             /\ \A i \in 1..Len(body) : buf[i] = body[i]
             /\ Front(buf) = body /\ CrcMatches(buf)
<1>. DEFINE buf == body \o <<Crc(body)>>
<1>1. body \in Seq(AnyWord) /\ Crc(body) \in AnyWord
  <2>1. Number \subseteq AnyWord /\ Crc(body) \in AnyWord
    BY DEF AnyWord, Crc
  <2>2. \A S, T : S \subseteq T => Seq(S) \subseteq Seq(T)
    OBVIOUS
  <2>. QED BY <2>1, <2>2
<1>2. PICK c \in AnyWord : c = Crc(body)
  BY <1>1
<1>3. /\ buf \in Seq(AnyWord) /\ Len(buf) = Len(body) + 1 /\ Len(body) \in Nat
      /\ \A i \in 1..Len(body) : buf[i] = body[i]
      /\ buf[Len(body) + 1] = c
  BY <1>1, <1>2
<1>. HIDE DEF buf
<1>4. Front(buf) = body
  <2>1. /\ SubSeq(buf, 1, Len(body)) \in Seq(AnyWord)
        /\ Len(SubSeq(buf, 1, Len(body))) = Len(body)
        /\ \A i \in 1..Len(body) : SubSeq(buf, 1, Len(body))[i] = buf[i]
    BY <1>3
  <2>2. SubSeq(buf, 1, Len(body)) = body
    BY <1>1, <1>3, <2>1, SeqEqual
  <2>. QED BY <1>3, <2>2 DEF Front
<1>5. CrcMatches(buf)
  BY <1>2, <1>3, <1>4 DEF CrcMatches, Last
<1>. QED BY <1>3, <1>4, <1>5 DEF buf

\* The starts of the frames are the only ones that obey the parser's step.
LEMMA StartsAre ==
  ASSUME NEW body, NEW n \in Nat, NEW start,
         start = [i \in 0..n |-> IF i = 0 THEN HeaderSize ELSE FrameEnd(body, start[i - 1])]
  PROVE  FrameStarts(body, n) = start
<1>. DEFINE Obeys(f) == f = [i \in 0..n |-> IF i = 0 THEN HeaderSize ELSE FrameEnd(body, f[i - 1])]
<1>1. FrameStarts(body, n) = CHOOSE f : Obeys(f)
  BY DEF FrameStarts
<1>2. Obeys(start)
  OBVIOUS
<1>3. Obeys(FrameStarts(body, n))
  <2>. HIDE DEF Obeys
  <2>. QED BY <1>1, <1>2
<1>. DEFINE f == FrameStarts(body, n)
            same == {i \in Nat : i <= n => f[i] = start[i]}
<1>4. \A i \in 0..n : f[i] = IF i = 0 THEN HeaderSize ELSE FrameEnd(body, f[i - 1])
  BY <1>3
<1>8. \A i \in 0..n : start[i] = IF i = 0 THEN HeaderSize ELSE FrameEnd(body, start[i - 1])
  BY <1>2
<1>. HIDE DEF f
<1>5. 0 \in same
  BY <1>4, <1>8
<1>6. ASSUME NEW i \in Nat, i \in same PROVE i + 1 \in same
  <2>1. ASSUME i + 1 <= n PROVE f[i + 1] = start[i + 1]
    <3>1. i + 1 \in 1..n /\ i + 1 \in 0..n /\ (i + 1) - 1 = i /\ i + 1 # 0 /\ f[i] = start[i]
      BY <1>6, <2>1
    <3>2. f[i + 1] = FrameEnd(body, f[i])
      BY <1>4, <3>1
    <3>. QED BY <1>8, <3>1, <3>2
  <2>. QED BY <2>1
<1>7. Nat \subseteq same
  BY <1>5, <1>6, SetInduction
<1>9. \A i \in 0..n : f[i] = start[i]
  BY <1>7
<1>10. f = [i \in 0..n |-> f[i]] /\ start = [i \in 0..n |-> start[i]]
  BY <1>2, <1>3 DEF f
<1>. QED BY <1>9, <1>10 DEF f

\* Likewise the ends of the records in a file.
LEMMA EndsAre ==
  ASSUME NEW file, Len(file) \in Nat, NEW cut,
         cut = [i \in 0..Len(file) |-> IF i = 0 THEN 0 ELSE RecordEnd(file, cut[i - 1])]
  PROVE  RecordEnds(file) = cut
<1>. DEFINE n == Len(file)
            Obeys(f) == f = [i \in 0..n |-> IF i = 0 THEN 0 ELSE RecordEnd(file, f[i - 1])]
<1>1. RecordEnds(file) = CHOOSE f : Obeys(f)
  BY DEF RecordEnds
<1>2. Obeys(cut)
  OBVIOUS
<1>3. Obeys(RecordEnds(file))
  <2>. HIDE DEF Obeys
  <2>. QED BY <1>1, <1>2
<1>. DEFINE f == RecordEnds(file)
            same == {i \in Nat : i <= n => f[i] = cut[i]}
<1>4. \A i \in 0..n : f[i] = IF i = 0 THEN 0 ELSE RecordEnd(file, f[i - 1])
  BY <1>3
<1>8. \A i \in 0..n : cut[i] = IF i = 0 THEN 0 ELSE RecordEnd(file, cut[i - 1])
  BY <1>2
<1>. HIDE DEF f
<1>5. 0 \in same
  BY <1>4, <1>8
<1>6. ASSUME NEW i \in Nat, i \in same PROVE i + 1 \in same
  <2>1. ASSUME i + 1 <= n PROVE f[i + 1] = cut[i + 1]
    <3>1. i + 1 \in 1..n /\ i + 1 \in 0..n /\ (i + 1) - 1 = i /\ i + 1 # 0 /\ f[i] = cut[i]
      BY <1>6, <2>1
    <3>2. f[i + 1] = RecordEnd(file, f[i])
      BY <1>4, <3>1
    <3>. QED BY <1>8, <3>1, <3>2
  <2>. QED BY <2>1
<1>7. Nat \subseteq same
  BY <1>5, <1>6, SetInduction
<1>9. \A i \in 0..n : f[i] = cut[i]
  <2>1. \A i \in 0..n : i \in Nat /\ i <= n
    OBVIOUS
  <2>. HIDE DEF n
  <2>. QED BY <1>7, <2>1
<1>10. f = [i \in 0..n |-> f[i]] /\ cut = [i \in 0..n |-> cut[i]]
  BY <1>2, <1>3 DEF f
<1>. QED BY <1>9, <1>10 DEF f

\* Words laid out as a v1 datagram are read back, and not taken for v2.
LEMMA ReadBack ==
  ASSUME NEW body \in Seq(Number), NEW frames \in Seq(CsiFrame), Len(body) >= HeaderSize,
         body[1] = Magic, body[2] = Version, body[3] = Word(Len(frames)),
         body[4] = Word(Len(body) - HeaderSize),
         NEW start \in [0..Len(frames) -> HeaderSize..Len(body)],
         start[0] = HeaderSize, start[Len(frames)] = Len(body),
         \A i \in 1..Len(frames) :
           /\ start[i] = start[i - 1] + FixedSize + frames[i].csiLen
           /\ body[start[i - 1] + 1] = Word(frames[i].seqNo)
           /\ body[start[i - 1] + 2] = Word(frames[i].csiLen)
  PROVE  LET buf == body \o <<Crc(body)>>
         IN  buf \in Seq(AnyWord) /\ SealFits(buf) /\ ReadsAs(buf, 1, {frames})
<1>. DEFINE buf == body \o <<Crc(body)>>
            n == Len(frames)
<1>1. /\ buf \in Seq(AnyWord) /\ Len(buf) = Len(body) + 1
      /\ \A i \in 1..Len(body) : buf[i] = body[i]
      /\ Front(buf) = body /\ CrcMatches(buf)
  BY SealedIs
<1>. HIDE DEF buf
<1>2. Len(body) \in Nat /\ n \in Nat /\ HeaderSize = 4 /\ CrcSize = 1 /\ FixedSize = 2 /\ FixedSizeV2 = 4
  BY DEF HeaderSize, CrcSize, FixedSize, FixedSizeV2
<1>3. 1 \in 1..Len(body) /\ 2 \in 1..Len(body) /\ 3 \in 1..Len(body) /\ 4 \in 1..Len(body)
  BY <1>2
<1>4. buf[1] = Magic /\ buf[2] = Version /\ Num(buf[3]) = n /\ Num(buf[4]) = Len(body) - HeaderSize
  BY <1>1, <1>3, WordIs
<1>5. SealFits(buf)
  BY <1>1, <1>2, <1>4 DEF SealFits
<1>6. HeaderFits(buf)
  BY <1>1, <1>2, <1>4 DEF HeaderFits
<1>7. \A i \in 1..n : frames[i] \in CsiFrame /\ frames[i].csiLen \in Nat /\ frames[i].seqNo \in Nat
  <2>1. CsiLens \subseteq Nat
    BY DatagramAssumption DEF DatagramAssumption
  <2>2. \A f \in CsiFrame : f.csiLen \in Nat /\ f.seqNo \in Nat
    BY <2>1 DEF CsiFrame
  <2>3. \A i \in 1..n : frames[i] \in CsiFrame
    OBVIOUS
  <2>. QED BY <2>2, <2>3
<1>8. \A i \in 1..n : start[i - 1] \in Nat /\ start[i] \in Nat /\ start[i] <= Len(body)
                      /\ start[i - 1] + FixedSize <= Len(body)
  <2>. SUFFICES ASSUME NEW i \in 1..n
                PROVE  start[i - 1] \in Nat /\ start[i] \in Nat /\ start[i] <= Len(body)
                       /\ start[i - 1] + FixedSize <= Len(body)
    OBVIOUS
  <2>1. i - 1 \in 0..n /\ i \in 0..n
    BY <1>2
  <2>2. start[i] \in HeaderSize..Len(body) /\ start[i - 1] \in HeaderSize..Len(body)
    BY <2>1
  <2>3. start[i] = start[i - 1] + FixedSize + frames[i].csiLen /\ frames[i].csiLen \in Nat
    BY <1>7
  <2>. QED BY <1>2, <2>2, <2>3
<1>9. \A i \in 1..n : start[i] = FrameEnd(body, start[i - 1])
  <2>. SUFFICES ASSUME NEW i \in 1..n PROVE start[i] = FrameEnd(body, start[i - 1])
    OBVIOUS
  <2>1. Num(body[start[i - 1] + 2]) = frames[i].csiLen
    BY WordIs
  <2>2. start[i] = start[i - 1] + FixedSize + frames[i].csiLen
    OBVIOUS
  <2>3. ~(start[i - 1] + FixedSize > Len(body))
    BY <1>2, <1>8
  <2>. QED BY <2>1, <2>2, <2>3 DEF FrameEnd
<1>10. FrameStarts(body, n) = start
  <2>1. start = [i \in 0..n |-> IF i = 0 THEN HeaderSize ELSE FrameEnd(body, start[i - 1])]
    <3>1. \A i \in 0..n : start[i] = IF i = 0 THEN HeaderSize ELSE FrameEnd(body, start[i - 1])
      <4>1. \A i \in 0..n : i = 0 \/ i \in 1..n
        BY <1>2
      <4>. QED BY <1>9, <4>1
    <3>2. start = [i \in 0..n |-> start[i]]
      OBVIOUS
    <3>. QED BY <3>1, <3>2
  <2>. HIDE DEF n
  <2>. QED BY <1>2, <2>1, StartsAre
<1>11. \A i \in 1..n : ReadFrame(body, start[i - 1]) = frames[i]
  <2>. SUFFICES ASSUME NEW i \in 1..n PROVE ReadFrame(body, start[i - 1]) = frames[i]
    OBVIOUS
  <2>1. Num(body[start[i - 1] + 1]) = frames[i].seqNo /\ Num(body[start[i - 1] + 2]) = frames[i].csiLen
    BY WordIs
  <2>2. frames[i] = [seqNo |-> frames[i].seqNo, csiLen |-> frames[i].csiLen]
    BY <1>7 DEF CsiFrame
  <2>. QED BY <2>1, <2>2 DEF ReadFrame
<1>12. [i \in 1..n |-> ReadFrame(body, FrameStarts(body, n)[i - 1])] = frames
  <2>1. \A i \in 1..n : ReadFrame(body, FrameStarts(body, n)[i - 1]) = frames[i]
    BY <1>10, <1>11
  <2>2. frames = [i \in 1..n |-> frames[i]]
    OBVIOUS
  <2>. QED BY <2>1, <2>2
<1>13. FrameStarts(body, n)[n] = Len(body)
  BY <1>10
<1>14. ParseDatagram(buf) = {frames}
  <2>1. ParseDatagram(buf) = {[i \in 1..n |-> ReadFrame(body, FrameStarts(body, n)[i - 1])]}
    BY <1>1, <1>4, <1>6, <1>13 DEF ParseDatagram
  <2>. QED BY <1>12, <2>1
<1>15. DecodeV2(buf) = {}
  BY <1>4, WordIs DEF DecodeV2
<1>. QED BY <1>1, <1>5, <1>14, <1>15 DEF ReadsAs, buf

\* A protocol v2 frame is read back, and not taken for v1.
LEMMA ReadBackV2 ==
  ASSUME NEW f \in CsiFrame
  PROVE  EncodeV2(f) \in Seq(AnyWord) /\ SealFits(EncodeV2(f)) /\ ReadsAs(EncodeV2(f), 2, {<<f>>})
<1>. DEFINE opening == <<MagicV2, Version2, Word(f.seqNo), Word(f.csiLen)>>
            body == opening \o Samples(f)
            buf == body \o <<Crc(body)>>
<1>1. f.seqNo \in Nat /\ f.csiLen \in Nat /\ f = [seqNo |-> f.seqNo, csiLen |-> f.csiLen]
  BY DatagramAssumption DEF DatagramAssumption, CsiFrame
<1>2. /\ opening \in Seq(Number) /\ Len(opening) = 4 /\ opening[1] = MagicV2 /\ opening[2] = Version2
      /\ opening[3] = Word(f.seqNo) /\ opening[4] = Word(f.csiLen)
  BY <1>1, WordIs
<1>3. Samples(f) \in Seq(Number) /\ Len(Samples(f)) = f.csiLen
  <2>1. Word(f.seqNo) \in Number
    BY <1>1, WordIs
  <2>. QED BY <1>1, <2>1 DEF Samples
<1>. HIDE DEF opening
<1>4. /\ body \in Seq(Number) /\ Len(body) = 4 + f.csiLen
      /\ \A i \in 1..4 : body[i] = opening[i]
  <2>1. PICK s \in Seq(Number) : s = Samples(f) /\ Len(s) = f.csiLen
    BY <1>3
  <2>2. PICK h \in Seq(Number) : h = opening /\ Len(h) = 4
    BY <1>2
  <2>3. h \in Seq(Number) /\ s \in Seq(Number)
    OBVIOUS
  <2>4. /\ h \o s \in Seq(Number) /\ Len(h \o s) = Len(h) + Len(s)
        /\ \A i \in 1..Len(h) + Len(s) : (h \o s)[i] = IF i <= Len(h) THEN h[i] ELSE s[i - Len(h)]
    BY ONLY <2>3, ConcatProperties
  <2>5. \A i \in 1..4 : i \in 1..Len(h) + Len(s) /\ i <= Len(h)
    BY <1>1, <2>1, <2>2
  <2>. QED BY <2>1, <2>2, <2>4, <2>5
<1>. HIDE DEF body
<1>5. /\ buf \in Seq(AnyWord) /\ Len(buf) = Len(body) + 1
      /\ \A i \in 1..Len(body) : buf[i] = body[i]
      /\ CrcMatches(buf)
  BY <1>4, SealedIs
<1>. HIDE DEF buf
<1>6. \A i \in 1..4 : buf[i] = opening[i]
  BY <1>1, <1>4, <1>5
<1>7. /\ buf[1] = MagicV2 /\ buf[2] = Version2
      /\ Num(buf[3]) = f.seqNo /\ Num(buf[4]) = f.csiLen
  BY <1>2, <1>6, WordIs
<1>8. Len(buf) = 5 + f.csiLen
  BY <1>1, <1>4, <1>5
<1>9. SealFits(buf)
  BY <1>1, <1>5, <1>7, <1>8 DEF SealFits, HeaderSize, CrcSize
<1>10. DecodeV2(buf) = {<<f>>}
  BY <1>1, <1>5, <1>7, <1>8 DEF DecodeV2, FixedSizeV2, CrcSize
<1>11. ParseDatagram(buf) = {}
  BY <1>7, WordIs DEF ParseDatagram, HeaderFits
<1>12. EncodeV2(f) = buf
  BY DEF EncodeV2, buf, body, opening
<1>. QED BY <1>5, <1>9, <1>10, <1>11, <1>12 DEF ReadsAs

\* Without its length or its CRC a datagram is refused by both parsers.
LEMMA UnsealedRefused ==
  ASSUME NEW buf, ~SealFits(buf)
  PROVE  ReadsAs(buf, 1, {})
<1>1. ~HeaderFits(buf) \/ ~CrcMatches(buf)
  BY DEF SealFits, HeaderFits
<1>2. ParseDatagram(buf) = {}
  BY <1>1 DEF ParseDatagram
<1>3. DecodeV2(buf) = {}
  BY DEF SealFits, DecodeV2, HeaderSize, FixedSizeV2
<1>. QED BY <1>2, <1>3 DEF ReadsAs

\* A datagram that was cut, extended or changed is refused.
LEMMA DamageShows ==
  ASSUME NEW words \in Seq(AnyWord), SealFits(words), NEW buf \in Damaged(words), buf # words
  PROVE  buf \in Seq(AnyWord) /\ ~SealFits(buf)
<1>. DEFINE n == Len(words)
<1>1. n \in Nat /\ n >= 5 /\ n = 4 + Num(words[4]) + 1 /\ Crc(Front(words)) = words[n]
  BY DEF SealFits, HeaderSize, CrcSize, CrcMatches, Last
<1>2. {Zero, Word(1), Word(2), Magic, MagicV2} \subseteq AnyWord
      /\ \A w \in {Zero, Word(1), Word(2), Magic, MagicV2} : \E k : w = Word(k)
  BY WordIs DEF AnyWord, Zero, Magic, MagicV2
<1>3. CASE \E k \in 0..(n - 1) : buf = SubSeq(words, 1, k)
  <2>1. PICK k \in 0..(n - 1) : buf = SubSeq(words, 1, k)
    BY <1>3
  <2>2. buf \in Seq(AnyWord) /\ Len(buf) = k /\ \A i \in 1..k : buf[i] = words[i]
    BY <1>1, <2>1
  <2>3. ASSUME SealFits(buf) PROVE FALSE
    <3>1. k >= 5 /\ k = 4 + Num(buf[4]) + 1
      BY <2>2, <2>3 DEF SealFits, HeaderSize, CrcSize
    <3>2. buf[4] = words[4]
      BY <1>1, <2>2, <3>1
    <3>. QED BY <1>1, <3>1, <3>2
  <2>. QED BY <2>2, <2>3
<1>4. CASE \E w \in {Zero, Last(words)} : buf = Append(words, w)
  <2>1. PICK w \in {Zero, Last(words)} : buf = Append(words, w)
    BY <1>4
  <2>2. w \in AnyWord
    BY <1>1, <1>2 DEF Last
  <2>3. buf \in Seq(AnyWord) /\ Len(buf) = n + 1 /\ \A i \in 1..n : buf[i] = words[i]
    BY <2>1, <2>2, AppendProperties
  <2>4. ASSUME SealFits(buf) PROVE FALSE
    <3>1. n + 1 = 4 + Num(buf[4]) + 1
      BY <2>3, <2>4 DEF SealFits, HeaderSize, CrcSize
    <3>2. buf[4] = words[4]
      BY <1>1, <2>3
    <3>. QED BY <1>1, <3>1, <3>2
  <2>. QED BY <2>3, <2>4
<1>5. CASE \E i \in DOMAIN words, w \in {Zero, Word(1), Word(2), Magic, MagicV2} :
             buf = [words EXCEPT ![i] = w]
  <2>1. PICK i \in DOMAIN words, w \in {Zero, Word(1), Word(2), Magic, MagicV2} :
               buf = [words EXCEPT ![i] = w]
    BY <1>5
  <2>2. w \in AnyWord /\ i \in 1..n
    BY <1>2
  <2>3. /\ buf \in Seq(AnyWord) /\ Len(buf) = n
        /\ \A j \in 1..n : buf[j] = IF j = i THEN w ELSE words[j]
    BY <2>1, <2>2, ExceptSeq
  <2>4. w # words[i]
    <3>1. [words EXCEPT ![i] = words[i]] = words
      OBVIOUS
    <3>. QED BY <2>1, <3>1
  <2>5. ASSUME CrcMatches(buf) PROVE FALSE
    <3>1. Crc(Front(buf)) = buf[n]
      BY <2>3, <2>5 DEF CrcMatches, Last
    <3>2. PICK k : w = Word(k)
      BY <1>2
    <3>3. CASE i = n
      <4>1. buf[n] = w
        BY <1>1, <2>2, <2>3, <3>3
      <4>. QED BY <3>1, <3>2, <4>1, WordIs
    <3>4. CASE i # n
      <4>1. buf[n] = words[n]
        BY <1>1, <2>3, <3>4
      <4>2. Front(buf) = Front(words)
        BY <1>1, <3>1, <4>1, WordIs
      <4>3. i \in 1..(n - 1)
        BY <1>1, <2>2, <3>4
      <4>4. Front(buf)[i] = buf[i] /\ Front(words)[i] = words[i]
        BY <1>1, <2>3, <4>3 DEF Front
      <4>. QED BY <2>2, <2>3, <2>4, <4>2, <4>4
    <3>. QED BY <3>3, <3>4
  <2>. QED BY <2>3, <2>5 DEF SealFits
<1>6. \/ \E k \in 0..(n - 1) : buf = SubSeq(words, 1, k)
      \/ \E w \in {Zero, Last(words)} : buf = Append(words, w)
      \/ \E i \in DOMAIN words, w \in {Zero, Word(1), Word(2), Magic, MagicV2} :
           buf = [words EXCEPT ![i] = w]
  BY DEF Damaged
<1>. QED BY <1>3, <1>4, <1>5, <1>6

LEMMA PutIs ==
  ASSUME NEW buf \in [1..MaxWords -> Number], NEW at \in Nat, NEW words \in Seq(Number)
  PROVE  /\ Put(buf, at, words) \in [1..MaxWords -> Number]
         /\ \A i \in 1..MaxWords : i <= at \/ i > at + Len(words) => Put(buf, at, words)[i] = buf[i]
         /\ \A k \in 1..Len(words) : at + k <= MaxWords => Put(buf, at, words)[at + k] = words[k]
<1>1. MaxWords \in Nat
  BY DatagramAssumption DEF DatagramAssumption
<1>2. \A i \in 1..MaxWords : i \in (at + 1)..(at + Len(words)) => i - at \in 1..Len(words)
  BY <1>1
<1>3. Put(buf, at, words) =
        [i \in 1..MaxWords |-> IF i \in (at + 1)..(at + Len(words)) THEN words[i - at] ELSE buf[i]]
  BY DEF Put
<1>4. Put(buf, at, words) \in [1..MaxWords -> Number]
  BY <1>2, <1>3
<1>5. \A i \in 1..MaxWords : i <= at \/ i > at + Len(words) => Put(buf, at, words)[i] = buf[i]
  <2>1. \A i \in 1..MaxWords : i <= at \/ i > at + Len(words) => i \notin (at + 1)..(at + Len(words))
    BY <1>1
  <2>. QED BY <1>3, <2>1
<1>6. ASSUME NEW k \in 1..Len(words), at + k <= MaxWords
      PROVE  Put(buf, at, words)[at + k] = words[k]
  <2>1. at + k \in 1..MaxWords /\ at + k \in (at + 1)..(at + Len(words)) /\ (at + k) - at = k
    BY <1>1, <1>6
  <2>. QED BY <1>3, <2>1
<1>. QED BY <1>4, <1>5, <1>6

\* A frame goes behind those the buffer holds.
LEMMA AddedIs ==
  ASSUME NEW buf \in [1..MaxWords -> Number], NEW frames \in Seq(CsiFrame),
         NEW at \in HeaderSize..(MaxWords - CrcSize), NEW f \in CsiFrame,
         Holds(buf, at, frames), CanFit(at, f)
  PROVE  LET put == Put(buf, at, FrameWords(f))
             end == at + FixedSize + f.csiLen
         IN  /\ put \in [1..MaxWords -> Number] /\ end \in HeaderSize..(MaxWords - CrcSize)
             /\ Holds(put, end, Append(frames, f))
<1>. DEFINE put == Put(buf, at, FrameWords(f))
            end == at + FixedSize + f.csiLen
            n == Len(frames)
            more == Append(frames, f)
<1>1. /\ MaxWords \in Nat /\ CsiLens \subseteq Nat /\ HeaderSize = 4 /\ FixedSize = 2 /\ CrcSize = 1
  BY DatagramAssumption DEF DatagramAssumption, HeaderSize, FixedSize, CrcSize
<1>2. f.csiLen \in Nat /\ f.seqNo \in Nat
  BY <1>1 DEF CsiFrame
<1>3. FrameWords(f) \in Seq(Number) /\ FrameWords(f)[1] = Word(f.seqNo)
      /\ FrameWords(f)[2] = Word(f.csiLen) /\ Len(FrameWords(f)) \in Nat /\ Len(FrameWords(f)) >= 2
  <2>1. Word(f.seqNo) \in Number /\ Word(f.csiLen) \in Number
    BY <1>2, WordIs
  <2>2. Samples(f) \in Seq(Number)
    BY <1>2, <2>1 DEF Samples
  <2>3. PICK s \in Seq(Number) : s = Samples(f)
    BY <2>2
  <2>4. PICK h \in Seq(Number) : h = <<Word(f.seqNo), Word(f.csiLen)>> /\ Len(h) = 2
    <3>1. <<Word(f.seqNo), Word(f.csiLen)>> \in Seq(Number) /\ Len(<<Word(f.seqNo), Word(f.csiLen)>>) = 2
      BY <2>1
    <3>. QED BY <3>1
  <2>5. h \in Seq(Number) /\ s \in Seq(Number)
    OBVIOUS
  <2>6. /\ h \o s \in Seq(Number) /\ Len(h \o s) = Len(h) + Len(s)
        /\ \A i \in 1..Len(h) + Len(s) : (h \o s)[i] = IF i <= Len(h) THEN h[i] ELSE s[i - Len(h)]
    BY ONLY <2>5, ConcatProperties
  <2>7. 1 \in 1..Len(h) + Len(s) /\ 2 \in 1..Len(h) + Len(s) /\ 1 <= Len(h) /\ 2 <= Len(h)
    BY <2>4
  <2>8. h[1] = Word(f.seqNo) /\ h[2] = Word(f.csiLen)
    BY <2>4
  <2>9. FrameWords(f) = h \o s
    BY <2>3, <2>4 DEF FrameWords
  <2>. QED BY <2>4, <2>6, <2>7, <2>8, <2>9
<1>4. at \in Nat /\ at >= 4 /\ end \in HeaderSize..(MaxWords - CrcSize) /\ end \in Nat /\ at + 2 <= end
  BY <1>1, <1>2 DEF CanFit
<1>5. /\ put \in [1..MaxWords -> Number]
      /\ \A i \in 1..at : put[i] = buf[i]
      /\ put[at + 1] = Word(f.seqNo) /\ put[at + 2] = Word(f.csiLen)
  <2>1. \A i \in 1..at : i \in 1..MaxWords /\ i <= at
    BY <1>1, <1>4
  <2>2. 1 \in 1..Len(FrameWords(f)) /\ 2 \in 1..Len(FrameWords(f))
        /\ at + 1 <= MaxWords /\ at + 2 <= MaxWords
    BY <1>1, <1>3, <1>4
  <2>. QED BY <1>3, <1>4, <2>1, <2>2, PutIs
<1>6. PICK start \in [0..n -> HeaderSize..at] :
        /\ start[0] = HeaderSize /\ start[n] = at
        /\ \A i \in 1..n :
             /\ start[i] = start[i - 1] + FixedSize + frames[i].csiLen
             /\ buf[start[i - 1] + 1] = Word(frames[i].seqNo)
             /\ buf[start[i - 1] + 2] = Word(frames[i].csiLen)
  BY DEF Holds
<1>7. n \in Nat /\ Len(more) = n + 1 /\ more[n + 1] = f /\ \A i \in 1..n : more[i] = frames[i]
  OBVIOUS
<1>. DEFINE next == [i \in 0..(n + 1) |-> IF i <= n THEN start[i] ELSE end]
<1>. HIDE DEF more, put, end
<1>8. next \in [0..(n + 1) -> HeaderSize..end]
  <2>1. \A i \in 0..(n + 1) : i <= n => i \in 0..n
    BY <1>7
  <2>2. HeaderSize..at \subseteq HeaderSize..end /\ end \in HeaderSize..end
    BY <1>1, <1>4
  <2>. QED BY <1>6, <2>1, <2>2
<1>9. (\A i \in 0..n : next[i] = start[i]) /\ next[n + 1] = end
  BY <1>7
<1>10. \A i \in 1..(n + 1) :
         /\ next[i] = next[i - 1] + FixedSize + more[i].csiLen
         /\ put[next[i - 1] + 1] = Word(more[i].seqNo)
         /\ put[next[i - 1] + 2] = Word(more[i].csiLen)
  <2>. SUFFICES ASSUME NEW i \in 1..(n + 1)
                PROVE  /\ next[i] = next[i - 1] + FixedSize + more[i].csiLen
                       /\ put[next[i - 1] + 1] = Word(more[i].seqNo)
                       /\ put[next[i - 1] + 2] = Word(more[i].csiLen)
    OBVIOUS
  <2>. HIDE DEF next
  <2>1. CASE i <= n
    <3>1. i \in 1..n /\ i \in 0..n /\ i - 1 \in 0..n
      BY <1>7, <2>1
    <3>2. PICK j \in 0..n : j = i - 1
      BY <3>1
    <3>3. next[i] = start[i] /\ next[j] = start[j] /\ more[i] = frames[i]
      BY <1>7, <1>9, <3>1
    <3>4. /\ start[i] = start[j] + FixedSize + frames[i].csiLen
          /\ buf[start[j] + 1] = Word(frames[i].seqNo)
          /\ buf[start[j] + 2] = Word(frames[i].csiLen)
      BY <1>6, <3>1, <3>2
    <3>5. start[j] + 1 \in 1..at /\ start[j] + 2 \in 1..at
      <4>1. start[j] \in HeaderSize..at /\ start[i] \in HeaderSize..at
        BY <3>1
      <4>2. frames[i].csiLen \in Nat
        <5>1. frames[i] \in CsiFrame
          BY <3>1
        <5>. QED BY <1>1, <5>1 DEF CsiFrame
      <4>. QED BY <1>1, <1>4, <3>4, <4>1, <4>2
    <3>. QED BY <1>5, <3>2, <3>3, <3>4, <3>5
  <2>2. CASE i = n + 1
    <3>1. i - 1 = n /\ n \in 0..n /\ more[i] = f
      BY <1>7, <2>2
    <3>2. next[i - 1] = at /\ next[i] = end
      BY <1>6, <1>9, <2>2, <3>1
    <3>. QED BY <1>5, <3>1, <3>2 DEF end
  <2>. QED BY <1>7, <2>1, <2>2
<1>11. Holds(put, end, more)
  <2>1. put[1] = Magic /\ put[2] = Version
    <3>1. 1 \in 1..at /\ 2 \in 1..at
      BY <1>4
    <3>. QED BY <1>5, <3>1 DEF Holds
  <2>2. next[0] = HeaderSize
    <3>1. 0 \in 0..n
      BY <1>7
    <3>. QED BY <1>6, <1>9, <3>1
  <2>. HIDE DEF next
  <2>3. next \in [0..Len(more) -> HeaderSize..end] /\ next[Len(more)] = end
    BY <1>7, <1>8, <1>9
  <2>4. \A i \in 1..Len(more) :
          /\ next[i] = next[i - 1] + FixedSize + more[i].csiLen
          /\ put[next[i - 1] + 1] = Word(more[i].seqNo)
          /\ put[next[i - 1] + 2] = Word(more[i].csiLen)
    BY <1>7, <1>10
  <2>. QED BY <2>1, <2>2, <2>3, <2>4 DEF Holds
<1>. QED BY <1>4, <1>5, <1>11 DEF put, end, more

\* An emptied buffer holds nothing but the header.
LEMMA BegunIs ==
  ASSUME NEW buf \in [1..MaxWords -> Number]
  PROVE  /\ Begun(buf) \in [1..MaxWords -> Number]
         /\ HeaderSize \in HeaderSize..(MaxWords - CrcSize)
         /\ Holds(Begun(buf), HeaderSize, <<>>)
<1>1. MaxWords \in Nat /\ HeaderSize + CrcSize <= MaxWords /\ HeaderSize = 4 /\ CrcSize = 1
  BY DatagramAssumption DEF DatagramAssumption, HeaderSize, CrcSize
<1>2. PICK h \in Seq(Number) : h = <<Magic, Version, Zero, Zero>> /\ Len(h) = 4
  <2>1. Magic \in Number /\ Version \in Number /\ Zero \in Number
    BY WordIs
  <2>2. <<Magic, Version, Zero, Zero>> \in Seq(Number) /\ Len(<<Magic, Version, Zero, Zero>>) = 4
    BY <2>1
  <2>. QED BY <2>2
<1>3. 1 \in 1..Len(h) /\ 2 \in 1..Len(h) /\ 0 + 1 <= MaxWords /\ 0 + 2 <= MaxWords /\ 0 \in Nat
      /\ 0 + 1 = 1 /\ 0 + 2 = 2 /\ h[1] = Magic /\ h[2] = Version
  BY <1>1, <1>2
<1>4. Begun(buf) \in [1..MaxWords -> Number] /\ Begun(buf)[0 + 1] = h[1] /\ Begun(buf)[0 + 2] = h[2]
  BY <1>2, <1>3, PutIs DEF Begun
<1>5. Begun(buf)[1] = Magic /\ Begun(buf)[2] = Version
  BY <1>3, <1>4
<1>6. \E start \in [0..0 -> HeaderSize..HeaderSize] : start[0] = HeaderSize
  <2>1. HeaderSize \in HeaderSize..HeaderSize
    BY <1>1
  <2>2. PICK S : S = HeaderSize..HeaderSize
    OBVIOUS
  <2>3. PICK start \in [0..0 -> S] : start = [i \in 0..0 |-> HeaderSize]
    BY <2>1, <2>2
  <2>4. start[0] = HeaderSize
    BY <2>3
  <2>. QED BY <2>2, <2>4
<1>7. Len(<<>>) = 0 /\ 1..0 = {}
  OBVIOUS
<1>8. Holds(Begun(buf), HeaderSize, <<>>)
  BY <1>5, <1>6, <1>7 DEF Holds
<1>. QED BY <1>1, <1>4, <1>8

\* What the builder closes is read back as what was added.
LEMMA FinalizedReads ==
  ASSUME NEW buf \in [1..MaxWords -> Number], NEW frames \in Seq(CsiFrame),
         NEW at \in HeaderSize..(MaxWords - CrcSize), Holds(buf, at, frames)
  PROVE  LET done == Finalize(buf, at, Len(frames))
         IN  done \in Seq(AnyWord) /\ SealFits(done) /\ ReadsAs(done, 1, {frames})
<1>. DEFINE n == Len(frames)
            patch == <<Word(n), Word(at - HeaderSize)>>
            patched == Put(buf, 2, patch)
            body == SubSeq(patched, 1, at)
<1>1. /\ MaxWords \in Nat /\ HeaderSize = 4 /\ CrcSize = 1 /\ FixedSize = 2
      /\ CsiLens \subseteq Nat
  BY DatagramAssumption DEF DatagramAssumption, HeaderSize, FixedSize, CrcSize
<1>2. at \in Nat /\ at >= 4 /\ at <= MaxWords /\ n \in Nat
  BY <1>1
<1>3. patch \in Seq(Number) /\ Len(patch) = 2 /\ patch[1] = Word(n) /\ patch[2] = Word(at - HeaderSize)
  <2>1. Word(n) \in Number /\ Word(at - HeaderSize) \in Number
    BY <1>1, <1>2, WordIs
  <2>. QED BY <2>1
<1>4. /\ patched \in [1..MaxWords -> Number]
      /\ \A i \in 1..MaxWords : i <= 2 \/ i > 4 => patched[i] = buf[i]
      /\ patched[3] = Word(n) /\ patched[4] = Word(at - HeaderSize)
  <2>. HIDE DEF patch
  <2>1. /\ patched \in [1..MaxWords -> Number]
        /\ \A i \in 1..MaxWords : i <= 2 \/ i > 2 + Len(patch) => patched[i] = buf[i]
        /\ \A k \in 1..Len(patch) : 2 + k <= MaxWords => patched[2 + k] = patch[k]
    BY <1>3, PutIs
  <2>2. 1 \in 1..Len(patch) /\ 2 \in 1..Len(patch) /\ 2 + 1 <= MaxWords /\ 2 + 2 <= MaxWords
    BY <1>1, <1>2, <1>3
  <2>3. patched[2 + 1] = patch[1] /\ patched[2 + 2] = patch[2]
    BY <2>1, <2>2
  <2>. HIDE DEF patched
  <2>. QED BY <1>3, <2>1, <2>3
<1>. HIDE DEF patch, patched
<1>5. /\ body \in Seq(Number) /\ Len(body) = at
      /\ \A i \in 1..at : body[i] = patched[i]
  <2>1. \A i \in 1..at : patched[i] \in Number
    <3>1. \A i \in 1..at : i \in 1..MaxWords
      BY <1>1, <1>2
    <3>. QED BY <1>4, <3>1
  <2>2. 1 \in Int /\ at \in Int /\ 1 <= at /\ at - 1 + 1 = at /\ \A i \in 1..at : 1 + i - 1 = i
    BY <1>2
  <2>3. /\ body \in Seq(Number) /\ Len(body) = IF 1 <= at THEN at - 1 + 1 ELSE 0
        /\ \A i \in 1..(at - 1 + 1) : body[i] = patched[1 + i - 1]
    BY <2>1, <2>2, SubSeqProperties
  <2>. QED BY <2>2, <2>3
<1>6. body[1] = Magic /\ body[2] = Version /\ body[3] = Word(n) /\ body[4] = Word(at - HeaderSize)
  <2>1. 1 \in 1..at /\ 2 \in 1..at /\ 3 \in 1..at /\ 4 \in 1..at /\ 1 \in 1..MaxWords /\ 2 \in 1..MaxWords
    BY <1>1, <1>2
  <2>2. buf[1] = Magic /\ buf[2] = Version
    BY DEF Holds
  <2>. QED BY <1>4, <1>5, <2>1, <2>2
<1>. HIDE DEF body
<1>7. PICK start \in [0..n -> HeaderSize..at] :
        /\ start[0] = HeaderSize /\ start[n] = at
        /\ \A i \in 1..n :
             /\ start[i] = start[i - 1] + FixedSize + frames[i].csiLen
             /\ buf[start[i - 1] + 1] = Word(frames[i].seqNo)
             /\ buf[start[i - 1] + 2] = Word(frames[i].csiLen)
  BY DEF Holds
<1>8. \A i \in 1..n :
        /\ start[i] = start[i - 1] + FixedSize + frames[i].csiLen
        /\ body[start[i - 1] + 1] = Word(frames[i].seqNo)
        /\ body[start[i - 1] + 2] = Word(frames[i].csiLen)
  <2>. SUFFICES ASSUME NEW i \in 1..n
                PROVE  /\ start[i] = start[i - 1] + FixedSize + frames[i].csiLen
                       /\ body[start[i - 1] + 1] = Word(frames[i].seqNo)
                       /\ body[start[i - 1] + 2] = Word(frames[i].csiLen)
    OBVIOUS
  <2>1. PICK j \in 0..n : j = i - 1
    BY <1>2
  <2>2. start[j] \in HeaderSize..at /\ start[i] \in HeaderSize..at
    BY <1>2, <1>7
  <2>3. frames[i].csiLen \in Nat
    <3>1. frames[i] \in CsiFrame
      OBVIOUS
    <3>. QED BY <1>1, <3>1 DEF CsiFrame
  <2>4. /\ start[i] = start[j] + FixedSize + frames[i].csiLen
        /\ buf[start[j] + 1] = Word(frames[i].seqNo)
        /\ buf[start[j] + 2] = Word(frames[i].csiLen)
    BY <1>7, <2>1
  <2>5. /\ start[j] + 1 \in 1..at /\ start[j] + 2 \in 1..at /\ start[j] + 1 > 4 /\ start[j] + 2 > 4
        /\ start[j] + 1 \in 1..MaxWords /\ start[j] + 2 \in 1..MaxWords
    BY <1>1, <1>2, <2>2, <2>3, <2>4
  <2>. QED BY <1>4, <1>5, <2>1, <2>4, <2>5
<1>9. body \o <<Crc(body)>> = Finalize(buf, at, n)
  BY DEF Finalize, body, patched, patch
<1>10. Len(body) >= HeaderSize /\ start \in [0..Len(frames) -> HeaderSize..Len(body)]
       /\ body[4] = Word(Len(body) - HeaderSize)
  BY <1>1, <1>2, <1>5, <1>6, <1>7
<1>. QED BY <1>5, <1>6, <1>7, <1>8, <1>9, <1>10, ReadBack

\* The n-th of those up to a limit is the n-th of all.
LEMMA NthBelow ==
  ASSUME NEW set \in SUBSET Nat, IsFiniteSet(set), NEW k \in Nat,
         NEW i \in 1..Cardinality({d \in set : d <= k})
  PROVE  i \in 1..Cardinality(set) /\ Nth({d \in set : d <= k}, i) = Nth(set, i)
<1>. DEFINE below == {d \in set : d <= k}
<1>1. below \in SUBSET set /\ below \in SUBSET Nat /\ IsFiniteSet(below) /\ Cardinality(below) <= Cardinality(set)
  <2>1. below \in SUBSET set
    OBVIOUS
  <2>. HIDE DEF below
  <2>. QED BY <2>1, FS_Subset
<1>2. Cardinality(below) \in Nat /\ Cardinality(set) \in Nat
  BY <1>1, FS_CardinalityType
<1>3. i \in 1..Cardinality(set)
  <2>. HIDE DEF below
  <2>1. i \in 1..Cardinality(below)
    BY DEF below
  <2>. QED BY <1>1, <1>2, <2>1
<1>4. PICK d \in below : d = Nth(below, i) /\ Rank(below, d) = i
  <2>1. i \in 1..Cardinality(below)
    OBVIOUS
  <2>. HIDE DEF below
  <2>. QED BY <1>1, <2>1, NthIs
<1>5. PICK e \in set : e = Nth(set, i) /\ Rank(set, e) = i
  BY <1>3, NthIs
<1>6. {x \in below : x <= d} = {x \in set : x <= d}
  <2>1. \A x \in set : x <= d => x <= k
    BY <1>4
  <2>. QED BY <1>4, <2>1
<1>7. Rank(set, d) = i
  BY <1>4, <1>6 DEF Rank
<1>8. d = e
  BY <1>4, <1>5, <1>7, RankOnce
<1>. QED BY <1>3, <1>4, <1>5, <1>8

\* Each record takes up more than its length.
LEMMA CutsGrow ==
  ASSUME NEW m \in Nat, NEW size \in Nat, NEW cut \in [0..m -> 0..size],
         \A i \in 1..m : cut[i - 1] + 1 < cut[i]
  PROVE  \A i, j \in 0..m : i <= j => cut[i] + (j - i) <= cut[j]
<1>. DEFINE grown == {j \in Nat : j <= m => \A i \in 0..m : i <= j => cut[i] + (j - i) <= cut[j]}
<1>1. \A i \in 0..m : cut[i] \in Nat
  OBVIOUS
<1>2. 0 \in grown
  <2>1. \A i \in 0..m : i <= 0 => i = 0
    OBVIOUS
  <2>. QED BY <1>1, <2>1
<1>3. ASSUME NEW j \in Nat, j \in grown PROVE j + 1 \in grown
  <2>1. ASSUME j + 1 <= m, NEW i \in 0..m, i <= j + 1 PROVE cut[i] + ((j + 1) - i) <= cut[j + 1]
    <3>1. CASE i = j + 1
      BY <1>1, <3>1
    <3>2. CASE i <= j
      <4>1. j \in 0..m /\ j + 1 \in 0..m /\ j + 1 \in 1..m /\ (j + 1) - 1 = j
        BY <2>1
      <4>2. cut[i] + (j - i) <= cut[j]
        BY <1>3, <2>1, <3>2
      <4>3. cut[j] + 1 < cut[j + 1]
        BY <4>1
      <4>4. cut[i] \in Nat /\ cut[j] \in Nat /\ cut[j + 1] \in Nat /\ i \in Int
        BY <1>1, <4>1
      <4>. QED BY <4>2, <4>3, <4>4
    <3>. QED BY <2>1, <3>1, <3>2
  <2>. QED BY <2>1
<1>4. Nat \subseteq grown
  BY <1>2, <1>3, SetInduction
<1>. QED BY <1>4

\* Where m records of a file end, each behind its length.
CutUp(file, cut, m) ==
  /\ cut[0] = 0 /\ cut[m] = Len(file)
  /\ \A i \in 1..m : /\ cut[i - 1] + 1 < cut[i]
                     /\ file[cut[i - 1] + 1] = Word(cut[i] - cut[i - 1] - 1)

\* The ends of the first k of them, and then no more.
StopsAt(cut, k, n) == [i \in 0..n |-> cut[IF i <= k THEN i ELSE k]]

\* The records of a file that breaks off somewhere are those before it.
LEMMA EndsInFile ==
  ASSUME NEW file \in Seq(AnyWord), NEW m \in Nat, NEW cut \in [0..m -> 0..Len(file)],
         NEW n \in 0..Len(file), CutUp(file, cut, m)
  PROVE  \E k \in 0..m :
           /\ k <= n /\ cut[k] <= n /\ (n = Len(file) => k = m)
           /\ RecordEnds(SubSeq(file, 1, n)) = StopsAt(cut, k, n)
<1>. DEFINE size == Len(file)
            part == SubSeq(file, 1, n)
            fits == {i \in 0..m : cut[i] <= n}
<1>0. /\ cut[0] = 0 /\ cut[m] = Len(file)
      /\ \A i \in 1..m : /\ cut[i - 1] + 1 < cut[i]
                         /\ file[cut[i - 1] + 1] = Word(cut[i] - cut[i - 1] - 1)
  BY DEF CutUp
<1>1. size \in Nat /\ n \in Nat /\ n <= size
  OBVIOUS
<1>2. \A i \in 0..m : cut[i] \in Nat /\ cut[i] <= size
  OBVIOUS
<1>3. \A i, j \in 0..m : i <= j => cut[i] + (j - i) <= cut[j]
  <2>1. size \in Nat /\ cut \in [0..m -> 0..size] /\ \A i \in 1..m : cut[i - 1] + 1 < cut[i]
    BY <1>0
  <2>. HIDE DEF size
  <2>. QED BY <2>1, CutsGrow
<1>4. part \in Seq(AnyWord) /\ Len(part) = n /\ \A i \in 1..n : part[i] = file[i]
  BY <1>1
<1>5. PICK k \in fits : \A i \in fits : i <= k
  <2>1. 0 \in fits /\ fits \subseteq 0..m
    BY <1>0, <1>1
  <2>2. fits \in SUBSET Nat /\ IsFiniteSet(fits) /\ fits # {}
    <3>1. IsFiniteSet(0..m)
      BY FS_Interval
    <3>. QED BY <2>1, <3>1, FS_Subset
  <2>. HIDE DEF fits
  <2>. QED BY <2>2, LeastLargest
<1>6. k \in 0..m /\ k \in Nat /\ cut[k] <= n /\ cut[k] \in Nat
  BY <1>2, <1>5
<1>7. k <= n
  <2>1. 0 \in 0..m /\ 0 <= k
    BY <1>6
  <2>2. cut[0] + (k - 0) <= cut[k]
    BY <1>3, <1>6, <2>1
  <2>. QED BY <1>0, <1>1, <1>6, <2>2
<1>8. n = size => k = m
  <2>1. n = size => m \in fits
    BY <1>0, <1>1
  <2>. QED BY <1>5, <1>6, <2>1
<1>9. k < m => k + 1 \in 0..m /\ cut[k + 1] > n
  <2>1. k < m => k + 1 \in 0..m /\ k + 1 \notin fits
    BY <1>5, <1>6
  <2>. QED BY <1>1, <1>2, <2>1
<1>. HIDE DEF part, fits, size
<1>. DEFINE g == [i \in 0..n |-> cut[IF i <= k THEN i ELSE k]]
<1>10. ASSUME NEW i \in 1..k
       PROVE  RecordEnd(part, cut[i - 1]) = cut[i]
  <2>1. i \in 1..m /\ i \in 0..m /\ i - 1 \in 0..m /\ i <= k
    BY <1>6
  <2>2. /\ cut[i - 1] + 1 < cut[i]
        /\ file[cut[i - 1] + 1] = Word(cut[i] - cut[i - 1] - 1)
    BY <1>0, <2>1
  <2>3. PICK a \in Nat : a = cut[i - 1]
    BY <1>2, <2>1
  <2>4. PICK b \in Nat : b = cut[i]
    BY <1>2, <2>1
  <2>5. a + 1 < b /\ b <= n
    <3>1. cut[i] + (k - i) <= cut[k]
      BY <1>3, <1>6, <2>1
    <3>. QED BY <1>1, <1>6, <2>1, <2>2, <2>3, <2>4, <3>1
  <2>6. a + 1 \in 1..n
    BY <1>1, <2>5
  <2>7. Num(part[a + 1]) = b - a - 1
    BY <1>4, <2>2, <2>3, <2>4, <2>6, WordIs
  <2>8. a < n /\ b - a - 1 > 0 /\ a + 1 + (b - a - 1) <= n /\ a + 1 + (b - a - 1) = b /\ Len(part) = n
    <3>1. Len(part) = n
      BY <1>4
    <3>2. a < n /\ b - a - 1 > 0 /\ a + 1 + (b - a - 1) = b
      BY <1>1, <2>5
    <3>. QED BY <2>5, <3>1, <3>2
  <2>. QED BY <2>3, <2>4, <2>7, <2>8 DEF RecordEnd
<1>11. RecordEnd(part, cut[k]) = cut[k]
  <2>1. CASE k = m
    <3>1. cut[k] = size
      BY <1>0, <2>1 DEF size
    <3>2. ~(cut[k] < Len(part))
      BY <1>1, <1>4, <1>6, <3>1
    <3>. QED BY <3>2 DEF RecordEnd
  <2>2. CASE k # m
    <3>1. k + 1 \in 0..m /\ k + 1 \in 1..m /\ cut[k + 1] > n /\ (k + 1) - 1 = k
      BY <1>6, <1>9, <2>2
    <3>2. cut[k] + 1 < cut[k + 1] /\ file[cut[k] + 1] = Word(cut[k + 1] - cut[k] - 1)
      <4>1. \A i \in 1..m : i = k + 1 => i - 1 = k
        BY <3>1
      <4>. QED BY <1>0, <3>1, <4>1
    <3>3. PICK a \in Nat : a = cut[k]
      BY <1>6
    <3>4. PICK b \in Nat : b = cut[k + 1]
      BY <1>2, <3>1
    <3>5. ASSUME a < Len(part) PROVE ~(a + 1 + Num(part[a + 1]) <= Len(part))
      <4>1. a + 1 \in 1..n
        BY <1>1, <1>4, <3>5
      <4>2. Num(part[a + 1]) = b - a - 1
        BY <1>4, <3>2, <3>3, <3>4, <4>1, WordIs
      <4>. QED BY <1>1, <1>4, <3>1, <3>4, <4>2
    <3>. QED BY <3>3, <3>5 DEF RecordEnd
  <2>. QED BY <2>1, <2>2
<1>12. g = [i \in 0..n |-> IF i = 0 THEN 0 ELSE RecordEnd(part, g[i - 1])]
  <2>1. ASSUME NEW i \in 0..n
        PROVE  cut[IF i <= k THEN i ELSE k] = IF i = 0 THEN 0 ELSE RecordEnd(part, g[i - 1])
    <3>1. CASE i = 0
      BY <1>0, <1>6, <3>1
    <3>2. CASE i # 0
      <4>1. i - 1 \in 0..n /\ i \in Int
        BY <1>1, <3>2
      <4>2. g[i - 1] = cut[IF i - 1 <= k THEN i - 1 ELSE k]
        BY <4>1
      <4>. HIDE DEF g
      <4>3. CASE i <= k
        <5>1. i \in 1..k /\ i - 1 <= k
          BY <1>6, <3>2, <4>1, <4>3
        <5>. QED BY <1>10, <3>2, <4>2, <4>3, <5>1
      <4>4. CASE ~(i <= k)
        <5>1. (IF i - 1 <= k THEN i - 1 ELSE k) = k
          BY <1>6, <4>1, <4>4
        <5>. QED BY <1>11, <3>2, <4>2, <4>4, <5>1
      <4>. QED BY <4>3, <4>4
    <3>. QED BY <3>1, <3>2
  <2>. QED BY <2>1
<1>13. RecordEnds(part) = g
  <2>. HIDE DEF g
  <2>1. Len(part) = n /\ Len(part) \in Nat
    BY <1>1, <1>4
  <2>2. g = [i \in 0..Len(part) |-> IF i = 0 THEN 0 ELSE RecordEnd(part, g[i - 1])]
    BY <1>12, <2>1
  <2>. QED BY ONLY <2>1, <2>2, EndsAre
<1>14. g = StopsAt(cut, k, n)
  BY DEF StopsAt
<1>. QED BY <1>6, <1>7, <1>8, <1>13, <1>14 DEF part, size

\* What arrived as v1 among the first k datagrams.
V1Below(k) == {i \in {j \in DOMAIN taken : taken[j].protocolVersion = 1} : i <= k}

\* The trainer reads what arrived as v1, up to where the file breaks off.
LEMMA TrainerIs ==
  ASSUME DatagramTypeOK, FilesHold, NEW n \in 0..Len(bin)
  PROVE  \E k \in 0..Len(taken) :
           /\ n = Len(bin) => k = Len(taken)
           /\ TrainerReads(SubSeq(bin, 1, n))
                = [j \in 1..Cardinality(V1Below(k)) |-> taken[Nth(V1Below(k), j)].frames]
<1>. DEFINE file == SubSeq(bin, 1, n)
            m == Len(taken)
<1>1. bin \in Seq(AnyWord) /\ taken \in Seq(Truth) /\ m \in Nat /\ n \in Nat /\ n <= Len(bin)
  BY DEF DatagramTypeOK
<1>2. PICK cut \in [0..m -> 0..Len(bin)] :
        /\ cut[0] = 0 /\ cut[m] = Len(bin)
        /\ \A i \in 1..m :
             /\ cut[i - 1] + 1 < cut[i]
             /\ bin[cut[i - 1] + 1] = Word(cut[i] - cut[i - 1] - 1)
             /\ ParseDatagram(SubSeq(bin, cut[i - 1] + 2, cut[i]))
                  = IF taken[i].protocolVersion = 1 THEN {taken[i].frames} ELSE {}
  BY DEF FilesHold
<1>3. PICK k \in 0..m :
        /\ k <= n /\ cut[k] <= n /\ (n = Len(bin) => k = m)
        /\ RecordEnds(file) = [i \in 0..n |-> cut[IF i <= k THEN i ELSE k]]
  <2>1. CutUp(bin, cut, m)
    BY <1>2 DEF CutUp
  <2>. HIDE DEF m
  <2>2. PICK k \in 0..m : /\ k <= n /\ cut[k] <= n /\ (n = Len(bin) => k = m)
                          /\ RecordEnds(file) = StopsAt(cut, k, n)
    BY <1>1, <2>1, EndsInFile
  <2>. QED BY <2>2 DEF StopsAt
<1>4. \A i, j \in 0..m : i <= j => cut[i] + (j - i) <= cut[j]
  <2>1. PICK size \in Nat : size = Len(bin)
    BY <1>1
  <2>2. cut \in [0..m -> 0..size] /\ \A i \in 1..m : cut[i - 1] + 1 < cut[i]
    BY <1>2, <2>1
  <2>. HIDE DEF m
  <2>. QED BY <1>1, <2>2, CutsGrow
<1>5. file \in Seq(AnyWord) /\ Len(file) = n /\ \A i \in 1..n : file[i] = bin[i]
  BY <1>1
<1>. HIDE DEF file, m
<1>. DEFINE ends == RecordEnds(file)
            Read(i) == ParseDatagram(SubSeq(file, ends[i - 1] + 2, ends[i]))
            parsed == {i \in 1..n : ends[i - 1] < ends[i] /\ Read(i) # {}}
<1>6. ASSUME NEW i \in 1..k
      PROVE  /\ ends[i - 1] < ends[i]
             /\ Read(i) = IF taken[i].protocolVersion = 1 THEN {taken[i].frames} ELSE {}
  <2>1. i \in 1..m /\ i \in 0..m /\ i - 1 \in 0..m /\ i \in 0..n /\ i - 1 \in 0..n /\ i <= k /\ i - 1 <= k
        /\ k \in Nat
    BY <1>1, <1>3
  <2>2. ends[i] = cut[i] /\ ends[i - 1] = cut[i - 1]
    BY <1>3, <2>1
  <2>3. PICK a \in Nat : a = cut[i - 1]
    BY <2>1
  <2>4. PICK b \in Nat : b = cut[i]
    BY <2>1
  <2>5. a + 1 < b /\ b <= n
    <3>1. cut[i] + (k - i) <= cut[k] /\ cut[k] <= n
      BY <1>3, <1>4, <2>1
    <3>2. cut[i - 1] + 1 < cut[i]
      BY <1>2, <2>1
    <3>3. cut[k] \in Nat
      BY <1>3
    <3>. QED BY <1>1, <2>1, <2>3, <2>4, <3>1, <3>2, <3>3
  <2>6. SubSeq(file, a + 2, b) = SubSeq(bin, a + 2, b)
    <3>1. a + 2 \in Int /\ b \in Int /\ \A j \in (a + 2)..b : j \in 1..n /\ j \in 1..Len(bin)
      BY <1>1, <2>5
    <3>2. \A j \in (a + 2)..b : file[j] \in AnyWord /\ bin[j] \in AnyWord /\ file[j] = bin[j]
      BY <1>1, <1>5, <3>1
    <3>3. /\ SubSeq(file, a + 2, b) \in Seq(AnyWord)
          /\ Len(SubSeq(file, a + 2, b)) = IF a + 2 <= b THEN b - (a + 2) + 1 ELSE 0
          /\ \A j \in 1..(b - (a + 2) + 1) : SubSeq(file, a + 2, b)[j] = file[(a + 2) + j - 1]
      BY ONLY <3>1, <3>2, SubSeqProperties
    <3>4. /\ SubSeq(bin, a + 2, b) \in Seq(AnyWord)
          /\ Len(SubSeq(bin, a + 2, b)) = IF a + 2 <= b THEN b - (a + 2) + 1 ELSE 0
          /\ \A j \in 1..(b - (a + 2) + 1) : SubSeq(bin, a + 2, b)[j] = bin[(a + 2) + j - 1]
      BY ONLY <3>1, <3>2, SubSeqProperties
    <3>5. \A j \in 1..(b - (a + 2) + 1) : (a + 2) + j - 1 \in (a + 2)..b
      OBVIOUS
    <3>6. \A j \in 1..Len(SubSeq(file, a + 2, b)) : SubSeq(file, a + 2, b)[j] = SubSeq(bin, a + 2, b)[j]
      <4>1. Len(SubSeq(file, a + 2, b)) = b - (a + 2) + 1
        BY <2>5, <3>3
      <4>. QED BY <3>2, <3>3, <3>4, <3>5, <4>1
    <3>. QED BY <3>3, <3>4, <3>6, SeqEqual
  <2>7. Read(i) = ParseDatagram(SubSeq(bin, cut[i - 1] + 2, cut[i]))
    BY <2>2, <2>3, <2>4, <2>6
  <2>8. ParseDatagram(SubSeq(bin, cut[i - 1] + 2, cut[i]))
          = IF taken[i].protocolVersion = 1 THEN {taken[i].frames} ELSE {}
    BY <1>2, <2>1
  <2>. QED BY <2>2, <2>3, <2>4, <2>5, <2>7, <2>8
<1>7. ASSUME NEW i \in 1..n, i > k PROVE ends[i - 1] = ends[i]
  <2>1. i \in 0..n /\ i - 1 \in 0..n /\ ~(i <= k) /\ (i - 1 <= k => i - 1 = k)
    BY <1>1, <1>3, <1>7
  <2>2. ends[i] = cut[k]
    BY <1>3, <2>1
  <2>3. ends[i - 1] = cut[IF i - 1 <= k THEN i - 1 ELSE k]
    BY <1>3, <2>1
  <2>. QED BY <2>1, <2>2, <2>3
<1>8. V1Below(k) = {i \in 1..k : taken[i].protocolVersion = 1}
  <2>1. DOMAIN taken = 1..m /\ k \in Nat /\ k <= m
    BY <1>1, <1>3 DEF m
  <2>. QED BY <1>1, <2>1 DEF V1Below
<1>9. parsed = V1Below(k)
  <2>1. ASSUME NEW i \in parsed PROVE i \in V1Below(k)
    <3>1. i \in 1..n /\ ends[i - 1] < ends[i] /\ Read(i) # {}
      OBVIOUS
    <3>2. \A j \in 0..n : ends[j] \in Nat
      <4>1. \A j \in 0..n : (IF j <= k THEN j ELSE k) \in 0..m
        BY <1>1, <1>3
      <4>2. \A j \in 0..m : cut[j] \in Nat
        BY <1>1
      <4>. QED BY <1>3, <4>1, <4>2
    <3>3. i <= k
      <4>1. i \in 0..n /\ i - 1 \in 0..n
        BY <1>1, <3>1
      <4>2. ends[i] \in Nat /\ ends[i - 1] \in Nat /\ ends[i - 1] < ends[i]
        BY <3>1, <3>2, <4>1
      <4>3. ~(i > k)
        BY <1>7, <3>1, <4>2
      <4>. QED BY <1>1, <1>3, <3>1, <4>3
    <3>4. i \in 1..k
      BY <1>3, <3>1, <3>3
    <3>. QED BY <1>6, <1>8, <3>1, <3>4
  <2>2. ASSUME NEW i \in V1Below(k) PROVE i \in parsed
    <3>1. i \in 1..k /\ taken[i].protocolVersion = 1
      BY <1>8
    <3>2. i \in 1..n
      BY <1>1, <1>3, <3>1
    <3>3. ends[i - 1] < ends[i] /\ Read(i) = {taken[i].frames}
      BY <1>6, <3>1
    <3>. QED BY <3>2, <3>3
  <2>. QED BY <2>1, <2>2
<1>10. TrainerReads(file) = [j \in 1..Cardinality(parsed) |-> CHOOSE d \in Read(Nth(parsed, j)) : TRUE]
  BY <1>5 DEF TrainerReads
<1>11. ASSUME NEW j \in 1..Cardinality(parsed)
       PROVE  (CHOOSE d \in Read(Nth(parsed, j)) : TRUE) = taken[Nth(parsed, j)].frames
  <2>1. parsed \in SUBSET Nat /\ IsFiniteSet(parsed)
    <3>1. parsed \in SUBSET (1..n) /\ IsFiniteSet(1..n)
      BY <1>1, FS_Interval
    <3>2. (1..n) \subseteq Nat
      BY <1>1
    <3>. HIDE DEF parsed
    <3>. QED BY <3>1, <3>2, FS_Subset
  <2>2. Nth(parsed, j) \in parsed
    <3>. HIDE DEF parsed
    <3>. QED BY <2>1, NthIs
  <2>3. PICK i \in 1..k : i = Nth(parsed, j) /\ taken[i].protocolVersion = 1
    BY <1>8, <1>9, <2>2
  <2>4. Read(i) = {taken[i].frames}
    BY <1>6, <2>3
  <2>5. (CHOOSE d \in {taken[i].frames} : TRUE) = taken[i].frames
    OBVIOUS
  <2>. HIDE DEF Read, parsed
  <2>. QED BY <2>3, <2>4, <2>5
<1>12. TrainerReads(file) = [j \in 1..Cardinality(V1Below(k)) |-> taken[Nth(V1Below(k), j)].frames]
  <2>. HIDE DEF Read, parsed
  <2>. QED BY <1>9, <1>10, <1>11
<1>. QED BY <1>3, <1>12 DEF file, m

\* The files give back what was sent.
LEMMA FilesGiveBack == DatagramTypeOK /\ FilesHold => RecordedIsSent
<1>. SUFFICES ASSUME DatagramTypeOK, FilesHold PROVE RecordedIsSent
  OBVIOUS
<1>. DEFINE m == Len(taken)
            v1 == {i \in DOMAIN taken : taken[i].protocolVersion = 1}
<1>1. bin \in Seq(AnyWord) /\ taken \in Seq(Truth) /\ m \in Nat /\ Len(bin) \in Nat /\ DOMAIN taken = 1..m
  BY DEF DatagramTypeOK
<1>2. v1 \in SUBSET Nat /\ IsFiniteSet(v1) /\ \A i \in v1 : i <= m
  <2>1. v1 \in SUBSET (1..m) /\ IsFiniteSet(1..m)
    BY <1>1, FS_Interval
  <2>2. \A i \in 1..m : i \in Nat /\ i <= m
    BY <1>1
  <2>. HIDE DEF v1
  <2>. QED BY <2>1, <2>2, FS_Subset
<1>3. TakenV1 = [j \in 1..Cardinality(v1) |-> taken[Nth(v1, j)].frames]
  BY DEF TakenV1
<1>4. \A k : V1Below(k) = {i \in v1 : i <= k}
  BY DEF V1Below
<1>. HIDE DEF v1
<1>5. TrainerReads(bin) = TakenV1
  <2>1. Len(bin) \in 0..Len(bin)
    BY <1>1
  <2>2. PICK k \in 0..m : k = m /\ TrainerReads(SubSeq(bin, 1, Len(bin)))
                = [j \in 1..Cardinality(V1Below(k)) |-> taken[Nth(V1Below(k), j)].frames]
    BY <2>1, TrainerIs
  <2>3. V1Below(m) = v1
    BY <1>2, <1>4
  <2>4. SubSeq(bin, 1, Len(bin)) = bin
    BY <1>1, SubSeqFull
  <2>. QED BY <1>3, <2>2, <2>3, <2>4
<1>6. ASSUME NEW n \in 0..Len(bin) PROVE IsPrefix(TrainerReads(SubSeq(bin, 1, n)), TakenV1)
  <2>1. PICK k \in 0..m : TrainerReads(SubSeq(bin, 1, n))
                = [j \in 1..Cardinality(V1Below(k)) |-> taken[Nth(V1Below(k), j)].frames]
    BY TrainerIs
  <2>2. PICK below : below = {i \in v1 : i <= k}
    OBVIOUS
  <2>3. \A j \in 1..Cardinality(below) : j \in 1..Cardinality(v1) /\ Nth(below, j) = Nth(v1, j)
    BY <1>1, <1>2, <2>2, NthBelow
  <2>4. \A j \in 1..Cardinality(v1) : taken[Nth(v1, j)].frames \in Seq(CsiFrame)
    <3>. SUFFICES ASSUME NEW j \in 1..Cardinality(v1) PROVE taken[Nth(v1, j)].frames \in Seq(CsiFrame)
      OBVIOUS
    <3>1. PICK i \in v1 : i = Nth(v1, j)
      BY <1>2, NthIs
    <3>2. taken[i] \in Truth
      BY <1>1 DEF v1
    <3>. QED BY <3>1, <3>2 DEF Truth
  <2>5. Cardinality(below) \in Nat /\ Cardinality(v1) \in Nat /\ Cardinality(below) <= Cardinality(v1)
    <3>1. below \in SUBSET v1
      BY <2>2
    <3>. QED BY <1>2, <3>1, FS_Subset, FS_CardinalityType
  <2>6. PICK p \in Seq(Seq(CsiFrame)) : p = [j \in 1..Cardinality(below) |-> taken[Nth(below, j)].frames]
    <3>1. \A j \in 1..Cardinality(below) : taken[Nth(below, j)].frames \in Seq(CsiFrame)
      BY <2>3, <2>4
    <3>2. [j \in 1..Cardinality(below) |-> taken[Nth(below, j)].frames] \in Seq(Seq(CsiFrame))
      BY <2>5, <3>1, IsASeq
    <3>. QED BY <3>2
  <2>7. PICK q \in Seq(Seq(CsiFrame)) : q = [j \in 1..Cardinality(v1) |-> taken[Nth(v1, j)].frames]
    <3>1. [j \in 1..Cardinality(v1) |-> taken[Nth(v1, j)].frames] \in Seq(Seq(CsiFrame))
      BY <2>4, <2>5, IsASeq
    <3>. QED BY <3>1
  <2>8. Len(p) = Cardinality(below) /\ Len(q) = Cardinality(v1) /\ \A j \in 1..Len(p) : p[j] = q[j]
    BY <2>3, <2>5, <2>6, <2>7
  <2>9. IsPrefix(p, q)
    <3>1. Len(p) <= Len(q) /\ Len(p) \in Nat /\ Len(q) \in Nat
      BY <2>5, <2>8
    <3>2. SubSeq(p, 1, Len(p)) = p
      BY SubSeqFull
    <3>3. \A j \in 1..Len(p) : q[j] \in Seq(CsiFrame) /\ 1 + j - 1 = j
      BY <3>1
    <3>4. /\ SubSeq(q, 1, Len(p)) \in Seq(Seq(CsiFrame)) /\ Len(SubSeq(q, 1, Len(p))) = Len(p)
          /\ \A j \in 1..Len(p) : SubSeq(q, 1, Len(p))[j] = q[j]
      BY <3>1
    <3>5. SubSeq(q, 1, Len(p)) = p
      BY <2>8, <3>4, SeqEqual
    <3>. QED BY <3>1, <3>2, <3>5 DEF IsPrefix
  <2>10. V1Below(k) = below
    BY <1>4, <2>2
  <2>. QED BY <1>3, <2>1, <2>6, <2>7, <2>9, <2>10
<1>7. DatasetReads(lines) = SelectSeq(taken, IsV2Line)
  <2>1. lines = taken
    BY DEF FilesHold
  <2>. QED BY <2>1 DEF DatasetReads
<1>. QED BY <1>5, <1>6, <1>7 DEF RecordedIsSent

LEMMA DatagramStarts == DatagramInit => DatagramIInv
<1>. SUFFICES ASSUME DatagramInit PROVE DatagramIInv
  OBVIOUS
<1>1. [i \in 1..MaxWords |-> Zero] \in [1..MaxWords -> Number]
  BY WordIs
<1>2. /\ scratch \in [1..MaxWords -> Number] /\ offset \in HeaderSize..(MaxWords - CrcSize)
      /\ BufferHolds
  BY <1>1, BegunIs DEF DatagramInit, BufferHolds
<1>3. batched \in Seq(CsiFrame) /\ inBatch = Len(batched) /\ offered \in Nat /\ v2 \in Nat
  BY DEF DatagramInit
<1>4. flight = {} /\ bin = <<>> /\ lines = <<>> /\ taken = <<>>
  BY DEF DatagramInit
<1>5. DatagramTypeOK
  BY <1>2, <1>3, <1>4 DEF DatagramTypeOK
<1>6. FilesHold
  <2>1. Len(bin) = 0 /\ Len(taken) = 0 /\ 1..0 = {}
    BY <1>4
  <2>2. PICK S : S = 0..Len(bin) /\ 0 \in S
    BY <2>1
  <2>3. PICK cut \in [0..0 -> S] : cut = [i \in 0..0 |-> 0]
    BY <2>2
  <2>4. cut[0] = 0
    BY <2>3
  <2>. QED BY <1>4, <2>1, <2>2, <2>4 DEF FilesHold
<1>. QED BY <1>2, <1>4, <1>5, <1>6 DEF DatagramIInv, FlightIsRead

\* A datagram that is launched is read as what was put in it.
LEMMA LaunchedReads ==
  ASSUME NEW buf \in Seq(AnyWord), NEW d \in Truth, SealFits(buf),
         ReadsAs(buf, d.protocolVersion, {d.frames}), Launch(buf, d)
  PROVE  /\ FlightIsRead'
         /\ \A x \in flight' : x.words \in Seq(AnyWord) /\ x.sent \subseteq Truth
<1>1. flight' = {[words |-> buf, sent |-> {d}]}
  BY DEF Launch
<1>2. \A x \in flight' : x.words = buf /\ x.sent = {d}
  BY <1>1
<1>3. FlightIsRead'
  BY <1>2 DEF FlightIsRead, SealFits, ReadsAs, CrcMatches
<1>. QED BY <1>2, <1>3

\* A record goes behind those the files hold.
LEMMA FilesGrow ==
  ASSUME DatagramTypeOK, FilesHold, NEW buf \in Seq(AnyWord), NEW t \in Truth, Len(buf) > 0,
         ParseDatagram(buf) = IF t.protocolVersion = 1 THEN {t.frames} ELSE {},
         bin' = bin \o Prefixed(buf), lines' = Append(lines, t), taken' = Append(taken, t)
  PROVE  /\ FilesHold' /\ bin' \in Seq(AnyWord) /\ lines' \in Seq(Truth) /\ taken' \in Seq(Truth)
<1>. DEFINE m == Len(taken)
            size == Len(bin)
<1>1. bin \in Seq(AnyWord) /\ lines \in Seq(Truth) /\ taken \in Seq(Truth) /\ lines = taken
  BY DEF DatagramTypeOK, FilesHold
<1>2. PICK record \in Seq(AnyWord) : record = Prefixed(buf) /\ Len(record) = Len(buf) + 1
        /\ record[1] = Word(Len(buf)) /\ \A i \in 1..Len(buf) : record[i + 1] = buf[i]
  <2>1. Word(Len(buf)) \in AnyWord
    BY WordIs DEF AnyWord
  <2>2. PICK w \in AnyWord : w = Word(Len(buf))
    BY <2>1
  <2>3. /\ <<w>> \o buf \in Seq(AnyWord) /\ Len(<<w>> \o buf) = Len(buf) + 1
        /\ (<<w>> \o buf)[1] = w /\ \A i \in 1..Len(buf) : (<<w>> \o buf)[i + 1] = buf[i]
    BY <2>2
  <2>. QED BY <2>2, <2>3 DEF Prefixed
<1>3. m \in Nat /\ size \in Nat /\ Len(buf) \in Nat
  BY <1>1
<1>4. /\ bin' \in Seq(AnyWord) /\ Len(bin') = size + Len(buf) + 1
      /\ \A i \in 1..size : bin'[i] = bin[i]
      /\ bin'[size + 1] = Word(Len(buf))
      /\ \A i \in 1..Len(buf) : bin'[size + 1 + i] = buf[i]
  <2>1. record \in Seq(AnyWord)
    OBVIOUS
  <2>2. /\ bin \o record \in Seq(AnyWord) /\ Len(bin \o record) = Len(bin) + Len(record)
        /\ \A i \in 1..Len(bin) + Len(record) :
             (bin \o record)[i] = IF i <= Len(bin) THEN bin[i] ELSE record[i - Len(bin)]
    BY ONLY <1>1, <2>1, ConcatProperties
  <2>3. bin' = bin \o record
    BY <1>2
  <2>4. \A i \in 1..size : i \in 1..Len(bin) + Len(record) /\ i <= Len(bin)
    BY <1>2, <1>3
  <2>5. \A i \in 1..(Len(buf) + 1) :
          size + i \in 1..Len(bin) + Len(record) /\ ~(size + i <= Len(bin)) /\ (size + i) - Len(bin) = i
    BY <1>2, <1>3
  <2>6. \A i \in 1..(Len(buf) + 1) : bin'[size + i] = record[i]
    BY <2>2, <2>3, <2>5
  <2>7. \A i \in 1..Len(buf) : i + 1 \in 1..(Len(buf) + 1) /\ size + 1 + i = size + (i + 1)
    BY <1>3
  <2>8. 1 \in 1..(Len(buf) + 1)
    BY <1>3
  <2>9. Len(bin') = size + Len(buf) + 1
    BY <1>2, <1>3, <2>2, <2>3
  <2>10. \A i \in 1..Len(buf) : bin'[size + 1 + i] = buf[i]
    BY <1>2, <2>6, <2>7
  <2>. QED BY <1>2, <2>2, <2>3, <2>4, <2>6, <2>8, <2>9, <2>10
<1>5. /\ lines' = taken' /\ taken' \in Seq(Truth) /\ Len(taken') = m + 1 /\ taken'[m + 1] = t
      /\ \A i \in 1..m : taken'[i] = taken[i]
  BY <1>1
<1>6. PICK cut \in [0..m -> 0..size] :
        /\ cut[0] = 0 /\ cut[m] = size
        /\ \A i \in 1..m :
             /\ cut[i - 1] + 1 < cut[i]
             /\ bin[cut[i - 1] + 1] = Word(cut[i] - cut[i - 1] - 1)
             /\ ParseDatagram(SubSeq(bin, cut[i - 1] + 2, cut[i]))
                  = IF taken[i].protocolVersion = 1 THEN {taken[i].frames} ELSE {}
  BY DEF FilesHold
<1>. HIDE DEF m, size
<1>. DEFINE all == size + Len(buf) + 1
            next == [i \in 0..(m + 1) |-> IF i <= m THEN cut[i] ELSE all]
<1>7. all \in Nat /\ size <= all
  BY <1>3
<1>8. next \in [0..(m + 1) -> 0..all]
  <2>1. \A i \in 0..(m + 1) : i <= m => i \in 0..m
    BY <1>3
  <2>2. 0..size \subseteq 0..all /\ all \in 0..all
    BY <1>3, <1>7
  <2>. HIDE DEF all
  <2>. QED BY <1>6, <2>1, <2>2
<1>9. (\A i \in 0..m : next[i] = cut[i]) /\ next[m + 1] = all
  BY <1>3
<1>. HIDE DEF next
<1>10. ASSUME NEW i \in 1..(m + 1)
       PROVE  /\ next[i - 1] + 1 < next[i]
              /\ bin'[next[i - 1] + 1] = Word(next[i] - next[i - 1] - 1)
              /\ ParseDatagram(SubSeq(bin', next[i - 1] + 2, next[i]))
                   = IF taken'[i].protocolVersion = 1 THEN {taken'[i].frames} ELSE {}
  <2>1. CASE i <= m
    <3>1. i \in 1..m /\ i \in 0..m /\ i - 1 \in 0..m
      BY <1>3, <2>1
    <3>2. next[i] = cut[i] /\ next[i - 1] = cut[i - 1] /\ taken'[i] = taken[i]
      BY <1>5, <1>9, <3>1
    <3>3. PICK a \in Nat : a = cut[i - 1]
      BY <1>3, <3>1
    <3>4. PICK b \in Nat : b = cut[i] /\ b <= size
      BY <1>3, <3>1
    <3>5. /\ a + 1 < b /\ bin[a + 1] = Word(b - a - 1)
          /\ ParseDatagram(SubSeq(bin, a + 2, b))
               = IF taken[i].protocolVersion = 1 THEN {taken[i].frames} ELSE {}
      BY <1>6, <3>1, <3>3, <3>4
    <3>6. bin'[a + 1] = bin[a + 1]
      <4>1. a + 1 \in 1..size
        BY <1>3, <3>4, <3>5
      <4>. QED BY <1>4, <4>1
    <3>7. SubSeq(bin', a + 2, b) = SubSeq(bin, a + 2, b)
      <4>1. a + 2 \in Int /\ b \in Int /\ \A j \in (a + 2)..b : j \in 1..size /\ j \in 1..Len(bin)
        BY <1>3, <3>4 DEF size
      <4>2. \A j \in (a + 2)..b : bin[j] \in AnyWord /\ bin'[j] \in AnyWord /\ bin'[j] = bin[j]
        BY <1>1, <1>4, <4>1
      <4>3. /\ SubSeq(bin', a + 2, b) \in Seq(AnyWord)
            /\ Len(SubSeq(bin', a + 2, b)) = IF a + 2 <= b THEN b - (a + 2) + 1 ELSE 0
            /\ \A j \in 1..(b - (a + 2) + 1) : SubSeq(bin', a + 2, b)[j] = bin'[(a + 2) + j - 1]
        BY ONLY <4>1, <4>2, SubSeqProperties
      <4>4. /\ SubSeq(bin, a + 2, b) \in Seq(AnyWord)
            /\ Len(SubSeq(bin, a + 2, b)) = IF a + 2 <= b THEN b - (a + 2) + 1 ELSE 0
            /\ \A j \in 1..(b - (a + 2) + 1) : SubSeq(bin, a + 2, b)[j] = bin[(a + 2) + j - 1]
        BY ONLY <4>1, <4>2, SubSeqProperties
      <4>5. \A j \in 1..(b - (a + 2) + 1) : (a + 2) + j - 1 \in (a + 2)..b
        OBVIOUS
      <4>6. \A j \in 1..Len(SubSeq(bin', a + 2, b)) : SubSeq(bin', a + 2, b)[j] = SubSeq(bin, a + 2, b)[j]
        <5>1. Len(SubSeq(bin', a + 2, b)) = b - (a + 2) + 1
          BY <3>5, <4>3
        <5>. QED BY <4>2, <4>3, <4>4, <4>5, <5>1
      <4>. QED BY <4>3, <4>4, <4>6, SeqEqual
    <3>. QED BY <3>2, <3>3, <3>4, <3>5, <3>6, <3>7
  <2>2. CASE i = m + 1
    <3>1. i - 1 = m /\ m \in 0..m
      BY <1>3, <2>2
    <3>2. next[i] = all /\ next[i - 1] = size /\ taken'[i] = t
      BY <1>5, <1>6, <1>9, <2>2, <3>1
    <3>3. all - size - 1 = Len(buf) /\ size + 1 < all
      BY <1>3
    <3>4. SubSeq(bin', size + 2, all) = buf
      <4>1. size + 2 \in Int /\ all \in Int /\ size + 2 <= all /\ all - (size + 2) + 1 = Len(buf)
            /\ \A j \in 1..Len(buf) : (size + 2) + j - 1 = size + 1 + j
        BY <1>3
      <4>2. \A j \in (size + 2)..all : j \in 1..Len(bin')
        BY <1>3, <1>4
      <4>3. \A j \in (size + 2)..all : bin'[j] \in AnyWord
        BY <1>4, <4>2
      <4>. HIDE DEF all
      <4>4. /\ SubSeq(bin', size + 2, all) \in Seq(AnyWord)
            /\ Len(SubSeq(bin', size + 2, all)) = IF size + 2 <= all THEN all - (size + 2) + 1 ELSE 0
            /\ \A j \in 1..(all - (size + 2) + 1) : SubSeq(bin', size + 2, all)[j] = bin'[(size + 2) + j - 1]
        BY ONLY <4>1, <4>3, SubSeqProperties
      <4>5. Len(SubSeq(bin', size + 2, all)) = Len(buf)
        BY <4>1, <4>4
      <4>6. \A j \in 1..Len(SubSeq(bin', size + 2, all)) : SubSeq(bin', size + 2, all)[j] = buf[j]
        BY <1>4, <4>1, <4>4, <4>5
      <4>. QED BY <4>4, <4>5, <4>6, SeqEqual
    <3>5. bin'[size + 1] = Word(Len(buf))
      BY <1>4
    <3>. HIDE DEF all
    <3>6. next[i - 1] + 1 < next[i]
      BY <3>2, <3>3
    <3>7. bin'[next[i - 1] + 1] = Word(next[i] - next[i - 1] - 1)
      BY <3>2, <3>3, <3>5
    <3>8. SubSeq(bin', next[i - 1] + 2, next[i]) = buf
      BY <3>2, <3>4
    <3>. QED BY <3>2, <3>6, <3>7, <3>8
  <2>3. i <= m \/ i = m + 1
    BY <1>3
  <2>. QED BY <2>1, <2>2, <2>3
<1>11. next[0] = 0
  <2>1. 0 \in 0..m
    BY <1>3
  <2>. QED BY <1>6, <1>9, <2>1
<1>12. FilesHold'
  <2>1. Len(taken') = m + 1 /\ Len(bin') = all
    BY <1>4, <1>5
  <2>. HIDE DEF all
  <2>2. next \in [0..Len(taken') -> 0..Len(bin')] /\ next[0] = 0 /\ next[Len(taken')] = Len(bin')
    BY <1>8, <1>9, <1>11, <2>1
  <2>3. \A i \in 1..Len(taken') :
          /\ next[i - 1] + 1 < next[i]
          /\ bin'[next[i - 1] + 1] = Word(next[i] - next[i - 1] - 1)
          /\ ParseDatagram(SubSeq(bin', next[i - 1] + 2, next[i]))
               = IF taken'[i].protocolVersion = 1 THEN {taken'[i].frames} ELSE {}
    BY <1>10, <2>1
  <2>. QED BY <1>5, <2>2, <2>3 DEF FilesHold
<1>. QED BY <1>1, <1>4, <1>5, <1>12

\* Every step keeps the buffer readable, the datagram on its way honest and
\* the files whole.
LEMMA DatagramSteps == DatagramIInv /\ [DatagramNext]_datagramVars => DatagramIInv'
<1>. SUFFICES ASSUME DatagramIInv, [DatagramNext]_datagramVars PROVE DatagramIInv'
  OBVIOUS
<1>1. DatagramTypeOK /\ BufferHolds /\ FlightIsRead /\ FilesHold
  BY DEF DatagramIInv
<1>2. /\ scratch \in [1..MaxWords -> Number] /\ offset \in HeaderSize..(MaxWords - CrcSize)
      /\ batched \in Seq(CsiFrame) /\ inBatch = Len(batched) /\ offered \in Nat /\ v2 \in Nat
      /\ \A d \in flight : d.words \in Seq(AnyWord) /\ d.sent \subseteq Truth
      /\ bin \in Seq(AnyWord) /\ lines \in Seq(Truth) /\ taken \in Seq(Truth)
      /\ Holds(scratch, offset, batched)
  BY <1>1 DEF DatagramTypeOK, BufferHolds
<1>. DEFINE BuilderOK == /\ scratch \in [1..MaxWords -> Number]
                          /\ offset \in HeaderSize..(MaxWords - CrcSize)
                          /\ batched \in Seq(CsiFrame) /\ inBatch = Len(batched)
                          /\ Holds(scratch, offset, batched)
             FlightOK == /\ FlightIsRead
                      /\ \A d \in flight : d.words \in Seq(AnyWord) /\ d.sent \subseteq Truth
             FilesOK == /\ FilesHold /\ bin \in Seq(AnyWord)
                        /\ lines \in Seq(Truth) /\ taken \in Seq(Truth)
<1>4. BuilderOK' /\ FlightOK' /\ FilesOK' /\ offered' \in Nat /\ v2' \in Nat => DatagramIInv'
  BY DEF DatagramIInv, DatagramTypeOK, BufferHolds
<1>5. BuilderOK /\ FlightOK /\ FilesOK
  BY <1>1, <1>2
<1>6. UNCHANGED builderVars => BuilderOK' /\ offered' \in Nat
  BY <1>2 DEF builderVars, Holds
<1>7. UNCHANGED flight => FlightOK'
  BY <1>5 DEF FlightIsRead, SealFits, ReadsAs, CrcMatches
<1>8. UNCHANGED recordedVars => FilesOK'
  BY <1>1, <1>2 DEF recordedVars, FilesHold
<1>. HIDE DEF BuilderOK, FlightOK, FilesOK
<1>9. ASSUME NEW buf \in [1..MaxWords -> Number], NEW frames \in Seq(CsiFrame),
             NEW at \in HeaderSize..(MaxWords - CrcSize), NEW f \in CsiFrame,
             Holds(buf, at, frames), CanFit(at, f), Add(buf, at, Len(frames), f, frames)
      PROVE  BuilderOK'
  <2>1. /\ Put(buf, at, FrameWords(f)) \in [1..MaxWords -> Number]
        /\ at + FixedSize + f.csiLen \in HeaderSize..(MaxWords - CrcSize)
        /\ Holds(Put(buf, at, FrameWords(f)), at + FixedSize + f.csiLen, Append(frames, f))
    BY <1>9, AddedIs
  <2>2. /\ scratch' = Put(buf, at, FrameWords(f)) /\ offset' = at + FixedSize + f.csiLen
        /\ inBatch' = Len(frames) + 1 /\ batched' = Append(frames, f)
    BY <1>9 DEF Add
  <2>3. Append(frames, f) \in Seq(CsiFrame) /\ Len(Append(frames, f)) = Len(frames) + 1
    OBVIOUS
  <2>4. Holds(scratch', offset', batched')
    BY <2>1, <2>2
  <2>. QED BY <2>1, <2>2, <2>3, <2>4 DEF BuilderOK, Holds
<1>10. ASSUME Launch(Finalize(scratch, offset, inBatch), Sent(1, batched))
       PROVE  FlightOK'
  <2>1. PICK done \in Seq(AnyWord) : /\ done = Finalize(scratch, offset, inBatch)
                                     /\ SealFits(done) /\ ReadsAs(done, 1, {batched})
    BY <1>2, FinalizedReads
  <2>2. PICK d \in Truth : d = Sent(1, batched) /\ d.protocolVersion = 1 /\ d.frames = batched
    <3>1. Sent(1, batched) \in Truth /\ Sent(1, batched).protocolVersion = 1
          /\ Sent(1, batched).frames = batched
      BY <1>2 DEF Sent, Truth
    <3>. QED BY <3>1
  <2>. QED BY <1>10, <2>1, <2>2, LaunchedReads DEF FlightOK
<1>11. CASE OfferFrame
  <2>1. PICK k \in CsiLens :
          LET f == [seqNo |-> offered, csiLen |-> k]
          IN /\ offered < MaxOffered /\ offered' = offered + 1
             /\ \/ /\ CanFit(offset, f) /\ Add(scratch, offset, inBatch, f, batched)
                   /\ UNCHANGED flight
                \/ /\ ~CanFit(offset, f) /\ inBatch > 0 /\ flight = {}
                   /\ Launch(Finalize(scratch, offset, inBatch), Sent(1, batched))
                   /\ Add(Begun(scratch), HeaderSize, 0, f, <<>>)
             /\ UNCHANGED <<v2, recordedVars>>
    BY <1>11 DEF OfferFrame
  <2>2. PICK f \in CsiFrame : f = [seqNo |-> offered, csiLen |-> k] /\ f.csiLen = k
    <3>1. [seqNo |-> offered, csiLen |-> k] \in CsiFrame
      BY <1>2 DEF CsiFrame
    <3>. QED BY <3>1
  <2>3. FilesOK' /\ offered' \in Nat /\ v2' \in Nat
    BY <1>2, <1>8, <2>1
  <2>4. CASE CanFit(offset, f) /\ Add(scratch, offset, inBatch, f, batched) /\ UNCHANGED flight
    <3>1. BuilderOK'
      BY <1>2, <1>9, <2>4
    <3>. QED BY <1>4, <1>7, <2>3, <2>4, <3>1
  <2>5. CASE Launch(Finalize(scratch, offset, inBatch), Sent(1, batched))
             /\ Add(Begun(scratch), HeaderSize, 0, f, <<>>)
    <3>1. CanFit(HeaderSize, f)
      <4>1. HeaderSize + FixedSize + k + CrcSize <= MaxWords
        BY DatagramAssumption DEF DatagramAssumption
      <4>. QED BY <2>2, <4>1 DEF CanFit
    <3>2. <<>> \in Seq(CsiFrame) /\ Len(<<>>) = 0
      OBVIOUS
    <3>3. /\ Begun(scratch) \in [1..MaxWords -> Number]
          /\ HeaderSize \in HeaderSize..(MaxWords - CrcSize)
          /\ Holds(Begun(scratch), HeaderSize, <<>>)
      BY <1>2, BegunIs
    <3>4. BuilderOK'
      BY <1>9, <2>5, <3>1, <3>2, <3>3
    <3>. QED BY <1>4, <1>10, <2>3, <2>5, <3>4
  <2>. QED BY <2>1, <2>2, <2>4, <2>5
<1>12. CASE FlushIdle
  <2>1. /\ Launch(Finalize(scratch, offset, inBatch), Sent(1, batched))
        /\ scratch' = Begun(scratch) /\ offset' = HeaderSize /\ inBatch' = 0 /\ batched' = <<>>
        /\ UNCHANGED <<offered, v2, recordedVars>>
    BY <1>12 DEF FlushIdle
  <2>2. /\ Begun(scratch) \in [1..MaxWords -> Number]
        /\ HeaderSize \in HeaderSize..(MaxWords - CrcSize)
        /\ Holds(Begun(scratch), HeaderSize, <<>>)
    BY <1>2, BegunIs
  <2>3. Holds(scratch', offset', batched')
    BY <2>1, <2>2
  <2>4. BuilderOK'
    BY <2>1, <2>2, <2>3 DEF BuilderOK, Holds
  <2>. QED BY <1>2, <1>4, <1>8, <1>10, <2>1, <2>4
<1>13. CASE SendV2
  <2>1. PICK k \in CsiLens :
          LET f == [seqNo |-> v2, csiLen |-> k]
          IN /\ v2 < MaxV2 /\ flight = {} /\ v2' = v2 + 1
             /\ Launch(EncodeV2(f), Sent(2, <<f>>))
             /\ UNCHANGED <<builderVars, recordedVars>>
    BY <1>13 DEF SendV2
  <2>2. PICK f \in CsiFrame : f = [seqNo |-> v2, csiLen |-> k]
    BY <1>2 DEF CsiFrame
  <2>3. PICK d \in Truth : d = Sent(2, <<f>>) /\ d.protocolVersion = 2 /\ d.frames = <<f>>
    <3>1. <<f>> \in Seq(CsiFrame)
      OBVIOUS
    <3>2. Sent(2, <<f>>) \in Truth /\ Sent(2, <<f>>).protocolVersion = 2 /\ Sent(2, <<f>>).frames = <<f>>
      BY <3>1 DEF Sent, Truth
    <3>. QED BY <3>2
  <2>4. PICK done \in Seq(AnyWord) : done = EncodeV2(f) /\ SealFits(done) /\ ReadsAs(done, 2, {<<f>>})
    BY ReadBackV2
  <2>5. FlightOK'
    BY <2>1, <2>2, <2>3, <2>4, LaunchedReads DEF FlightOK
  <2>. QED BY <1>2, <1>4, <1>6, <1>8, <2>1, <2>5
<1>14. CASE Damage
  <2>1. PICK d \in flight : d.sent # {} /\ \E buf \in Damaged(d.words) \ {d.words} :
                           flight' = {[words |-> buf, sent |-> {}]}
    BY <1>14 DEF Damage
  <2>2. PICK buf \in Damaged(d.words) \ {d.words} : flight' = {[words |-> buf, sent |-> {}]}
    BY <2>1
  <2>3. d.words \in Seq(AnyWord) /\ SealFits(d.words)
    BY <1>1, <1>2, <2>1 DEF FlightIsRead
  <2>4. buf \in Seq(AnyWord) /\ ~SealFits(buf)
    BY <2>2, <2>3, DamageShows
  <2>5. ReadsAs(buf, 1, {})
    BY <2>4, UnsealedRefused
  <2>6. \A x \in flight' : x.words = buf /\ x.sent = {}
    BY <2>2
  <2>7. FlightOK'
    BY <2>4, <2>5, <2>6 DEF FlightOK, FlightIsRead, ReadsAs
  <2>. QED BY <1>2, <1>4, <1>6, <1>8, <1>14, <2>7 DEF Damage
<1>15. CASE LoseDatagram
  <2>1. flight' = {} /\ UNCHANGED <<builderVars, v2, recordedVars>>
    BY <1>15 DEF LoseDatagram
  <2>2. FlightOK'
    BY <2>1 DEF FlightOK, FlightIsRead
  <2>. QED BY <1>2, <1>4, <1>6, <1>8, <2>1, <2>2
<1>16. CASE Receive
  <2>1. PICK d \in flight : \E again \in BOOLEAN :
          LET read == ParseDatagram(d.words)
          IN /\ Len(taken) < MaxTaken
             /\ flight' = IF again THEN flight ELSE {}
             /\ IF IsV2(d.words) THEN Record(2, d.words, DecodeV2(d.words))
                ELSE IF read # {} THEN Record(1, d.words, read)
                ELSE UNCHANGED <<bin, lines>>
             /\ taken' = IF d.sent = {} THEN taken ELSE taken \o <<CHOOSE t \in d.sent : TRUE>>
             /\ UNCHANGED <<builderVars, v2>>
    BY <1>16 DEF Receive
  <2>2. flight' = flight \/ flight' = {}
    BY <2>1
  <2>3. FlightOK'
    <3>1. flight' = {} => FlightOK'
      BY DEF FlightOK, FlightIsRead
    <3>. QED BY <1>7, <2>2, <3>1
  <2>4. FilesOK'
    <3>1. CASE d.sent = {}
      <4>1. ReadsAs(d.words, 1, {})
        BY <1>1, <3>1 DEF FlightIsRead
      <4>2. ~IsV2(d.words) /\ ParseDatagram(d.words) = {}
        BY <4>1 DEF ReadsAs, IsV2
      <4>3. UNCHANGED recordedVars
        BY <2>1, <3>1, <4>2 DEF recordedVars
      <4>. QED BY <1>8, <4>3
    <3>2. CASE d.sent # {}
      <4>1. PICK t \in Truth : /\ d.sent = {t} /\ SealFits(d.words)
                               /\ ReadsAs(d.words, t.protocolVersion, {t.frames})
        <5>1. PICK t \in d.sent : /\ d.sent = {t} /\ SealFits(d.words)
                                  /\ ReadsAs(d.words, t.protocolVersion, {t.frames})
          BY <1>1, <3>2 DEF FlightIsRead
        <5>2. t \in Truth
          BY <1>2
        <5>. QED BY <5>1, <5>2
      <4>2. taken' = Append(taken, t)
        <5>1. (CHOOSE x \in {t} : TRUE) = t
          OBVIOUS
        <5>2. taken' = taken \o <<t>>
          BY <2>1, <3>2, <4>1, <5>1
        <5>. QED BY <1>2, <5>2
      <4>3. t = Sent(t.protocolVersion, t.frames) /\ t.protocolVersion \in {1, 2}
        BY DEF Sent, Truth
      <4>4. /\ bin' = bin \o Prefixed(d.words) /\ lines' = Append(lines, t)
            /\ ParseDatagram(d.words) = IF t.protocolVersion = 1 THEN {t.frames} ELSE {}
        <5>1. CASE t.protocolVersion = 1
          <6>1. ~IsV2(d.words) /\ ParseDatagram(d.words) = {t.frames}
            BY <4>1, <5>1 DEF ReadsAs, IsV2
          <6>2. Record(1, d.words, {t.frames})
            BY <2>1, <6>1
          <6>. QED BY <4>3, <5>1, <6>1, <6>2 DEF Record
        <5>2. CASE t.protocolVersion = 2
          <6>1. DecodeV2(d.words) = {t.frames} /\ IsV2(d.words) /\ ParseDatagram(d.words) = {}
            BY <4>1, <5>2 DEF ReadsAs, IsV2
          <6>2. Record(2, d.words, {t.frames})
            BY <2>1, <6>1
          <6>. QED BY <4>3, <5>2, <6>1, <6>2 DEF Record
        <5>. QED BY <4>3, <5>1, <5>2
      <4>5. d.words \in Seq(AnyWord) /\ Len(d.words) > 0
        <5>1. Len(d.words) >= 5
          BY <4>1 DEF SealFits, HeaderSize, CrcSize
        <5>. QED BY <1>2, <5>1
      <4>. QED BY <1>1, <4>2, <4>4, <4>5, FilesGrow DEF FilesOK
    <3>. QED BY <3>1, <3>2
  <2>. QED BY <1>2, <1>4, <1>6, <2>1, <2>3, <2>4
<1>17. CASE UNCHANGED datagramVars
  BY <1>2, <1>4, <1>6, <1>7, <1>8, <1>17 DEF datagramVars
<1>. QED BY <1>11, <1>12, <1>13, <1>14, <1>15, <1>16, <1>17 DEF DatagramNext

\* What the files give back is what the receivers sent and the network left
\* unharmed, frame for frame, for every size of the buffer and every length of
\* a frame; a binary file that breaks off gives a beginning of it (finalize,
\* parseDatagram, readAmplitudeStreams).
THEOREM WhatIsRecordedWasSent == DatagramSpec => []RecordedIsSent
<1>1. DatagramIInv => RecordedIsSent
  BY FilesGiveBack DEF DatagramIInv
<1>. QED BY <1>1, DatagramStarts, DatagramSteps, PTL DEF DatagramSpec
=============================================================================
