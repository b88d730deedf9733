----------------------------- MODULE FrameQueue -----------------------------
(***************************************************************************)
(* FrameRing and FrameQueue: the CSI callback (producer) copies frames     *)
(* into a slot pool, the encode task (consumer) is woken by a counting     *)
(* semaphore, and OTA maintenance drains the queue from a third task.      *)
(* Each action is one atomic access to the shared counters, the semaphore  *)
(* or a slot, so that every interleaving of the three is a behaviour.      *)
(*                                                                         *)
(* Abstracted: a frame is its frameSeq; a slot being overwritten is Torn;  *)
(* the encode task is taken as running (CaptureLifecycle starts and stops  *)
(* it), and its datagrams are the sequence of frames it encoded.           *)
(***************************************************************************)
EXTENDS Integers, Sequences

CONSTANTS Capacity,    \* slots of the pool (kFramePoolDepth)
          Modulus,     \* range of the counters: 2^32 in the code
          MaxFrames,   \* bound on the frames that arrive
          MaxDrains,   \* bound on the maintenance windows
          Torn         \* what a reader sees of a slot being written

ASSUME FrameQueueAssumption ==
  /\ Capacity \in Nat \ {0}
  /\ Modulus \in Nat /\ Modulus > Capacity
  /\ MaxFrames \in Nat /\ MaxDrains \in Nat
  /\ Torn \notin Nat

VARIABLES
  capturing,                 \* CSI callbacks are enabled
  arrived,                   \* frameSeq_: callbacks so far
  ringHead, ringTail, frameSlots,  \* FrameRing: head_, tail_, slots_
  items, frameDrops,         \* the semaphore's count; drops_
  prod, frame,               \* the callback's progress and its frame
  encAt, held, encTail,     \* the encode task's progress, slot and loaded tail
  drn, drnTail,              \* the draining task's progress and loaded tail
  encoded, drained, drains   \* history: frames encoded, frames discarded

queueVars == <<capturing, arrived, ringHead, ringTail, frameSlots, items,
               frameDrops, prod, frame, encAt, held, encTail, drn, drnTail,
               encoded, drained, drains>>

prodVars == <<prod, frame>>
encoderVars == <<encAt, held, encTail>>
drnVars == <<drn, drnTail>>
histVars == <<encoded, drained, drains>>

Counter == 0..(Modulus - 1)
SlotIndex == 0..(Capacity - 1)
Frame == 0..(MaxFrames - 1)

QueueTypeOK ==
  /\ capturing \in BOOLEAN
  /\ arrived \in 0..MaxFrames
  /\ ringHead \in Counter /\ ringTail \in Counter
  /\ frameSlots \in [SlotIndex -> Frame \cup {Torn}]
  /\ items \in 0..Capacity
  /\ frameDrops \in 0..MaxFrames
  /\ prod \in {"idle", "copy", "signal"}
  /\ frame \in 0..MaxFrames
  /\ encAt \in {"idle", "peek", "encode", "load", "store"}
  /\ held \in SlotIndex /\ encTail \in Counter
  /\ drn \in {"off", "take", "load", "store"}
  /\ drnTail \in Counter
  /\ encoded \in Seq(Frame \cup {Torn})
  /\ drained \subseteq Frame \cup {Torn}
  /\ drains \in 0..MaxDrains

Inc(c) == (c + 1) % Modulus
SlotOf(c) == c % Capacity
Count == (ringHead - ringTail) % Modulus

Full == Count >= Capacity

QueueInit ==
  /\ capturing = TRUE /\ arrived = 0
  /\ ringHead = 0 /\ ringTail = 0 /\ frameSlots = [i \in SlotIndex |-> Torn]
  /\ items = 0 /\ frameDrops = 0
  /\ prod = "idle" /\ frame = 0
  /\ encAt = "idle" /\ held = 0 /\ encTail = 0
  /\ drn = "off" /\ drnTail = 0
  /\ encoded = <<>> /\ drained = {} /\ drains = 0

-----------------------------------------------------------------------------
(* The CSI callback: onCsi, pushFromCapture, tryPush.                      *)

Callback == prod = "idle" /\ capturing /\ arrived < MaxFrames

\* Mutant: a dropped frame wakes the encode task all the same.
DropSignals ==
  /\ Callback /\ Full
  /\ arrived' = arrived + 1
  /\ frameDrops' = frameDrops + 1
  /\ prod' = "signal"
  /\ UNCHANGED <<capturing, ringHead, ringTail, frameSlots, items, frame,
                 encoderVars, drnVars, histVars>>

\* The ring is full: the newest frame is dropped and counted.
Drop ==
  /\ Callback /\ Full
  /\ arrived' = arrived + 1
  /\ frameDrops' = frameDrops + 1
  /\ UNCHANGED <<capturing, ringHead, ringTail, frameSlots, items, prodVars,
                 encoderVars, drnVars, histVars>>

\* There is room: the copy into the slot begins.
Claim ==
  /\ Callback /\ ~Full
  /\ arrived' = arrived + 1
  /\ frame' = arrived
  /\ frameSlots' = [frameSlots EXCEPT ![SlotOf(ringHead)] = Torn]
  /\ prod' = "copy"
  /\ UNCHANGED <<capturing, ringHead, ringTail, items, frameDrops,
                 encoderVars, drnVars, histVars>>

\* The copy is complete and head_ is stored with release.
Publish ==
  /\ prod = "copy"
  /\ frameSlots' = [frameSlots EXCEPT ![SlotOf(ringHead)] = frame]
  /\ ringHead' = Inc(ringHead)
  /\ prod' = "signal"
  /\ UNCHANGED <<capturing, arrived, ringTail, items, frameDrops, frame,
                 encoderVars, drnVars, histVars>>

\* Mutant: the wake-up is left out.
SignalLost ==
  /\ prod = "signal"
  /\ prod' = "idle"
  /\ UNCHANGED <<capturing, arrived, ringHead, ringTail, frameSlots, items,
                 frameDrops, frame, encoderVars, drnVars, histVars>>

\* A give on a semaphore at its maximum fails; the result is not looked at.
Signal ==
  /\ prod = "signal"
  /\ items' = IF items < Capacity THEN items + 1 ELSE items
  /\ prod' = "idle"
  /\ UNCHANGED <<capturing, arrived, ringHead, ringTail, frameSlots,
                 frameDrops, frame, encoderVars, drnVars, histVars>>

-----------------------------------------------------------------------------
(* The encode task: popReady, canFit and addFrame, release.                *)

Take ==
  /\ encAt = "idle" /\ items > 0
  /\ items' = items - 1
  /\ encAt' = "peek"
  /\ UNCHANGED <<capturing, arrived, ringHead, ringTail, frameSlots,
                 frameDrops, prodVars, held, encTail, drnVars, histVars>>

\* Mutant: the newest frame is read, not the oldest.
PeekNewest ==
  /\ encAt = "peek"
  /\ IF ringHead = ringTail THEN encAt' = "idle" /\ UNCHANGED held
                    ELSE encAt' = "encode" /\ held' = SlotOf(ringHead - 1)
  /\ UNCHANGED <<capturing, arrived, ringHead, ringTail, frameSlots, items,
                 frameDrops, prodVars, encTail, drnVars, histVars>>

\* An empty ring gives no slot; the caller treats that as a timeout.
Peek ==
  /\ encAt = "peek"
  /\ IF ringHead = ringTail THEN encAt' = "idle" /\ UNCHANGED held
                    ELSE encAt' = "encode" /\ held' = SlotOf(ringTail)
  /\ UNCHANGED <<capturing, arrived, ringHead, ringTail, frameSlots, items,
                 frameDrops, prodVars, encTail, drnVars, histVars>>

EncodeFrame ==
  /\ encAt = "encode"
  /\ encoded' = Append(encoded, frameSlots[held])
  /\ encAt' = "load"
  /\ UNCHANGED <<capturing, arrived, ringHead, ringTail, frameSlots, items,
                 frameDrops, prodVars, held, encTail, drnVars, drained,
                 drains>>

\* pop() reads both counters, and then stores the tail it read plus one.
LoadTail ==
  /\ encAt = "load"
  /\ encTail' = ringTail
  /\ encAt' = IF ringTail # ringHead THEN "store" ELSE "idle"
  /\ UNCHANGED <<capturing, arrived, ringHead, ringTail, frameSlots, items,
                 frameDrops, prodVars, held, drnVars, histVars>>

StoreTail ==
  /\ encAt = "store"
  /\ ringTail' = Inc(encTail)
  /\ encAt' = "idle"
  /\ UNCHANGED <<capturing, arrived, ringHead, frameSlots, items, frameDrops,
                 prodVars, held, encTail, drnVars, histVars>>

-----------------------------------------------------------------------------
(* OTA maintenance: capture is switched off and the updating task drains   *)
(* the queue; the encode task is still running.                            *)

DrainStart ==
  /\ drn = "off" /\ drains < MaxDrains
  /\ capturing' = FALSE
  /\ drains' = drains + 1
  /\ drn' = "take"
  /\ UNCHANGED <<arrived, ringHead, ringTail, frameSlots, items, frameDrops,
                 prodVars, encoderVars, drnTail, encoded, drained>>

DrainTake ==
  /\ drn = "take"
  /\ IF items > 0 THEN items' = items - 1 /\ drn' = "load"
                  ELSE drn' = "off" /\ UNCHANGED items
  /\ UNCHANGED <<capturing, arrived, ringHead, ringTail, frameSlots,
                 frameDrops, prodVars, encoderVars, drnTail, histVars>>

DrainLoad ==
  /\ drn = "load"
  /\ drnTail' = ringTail
  /\ drn' = IF ringTail # ringHead THEN "store" ELSE "take"
  /\ UNCHANGED <<capturing, arrived, ringHead, ringTail, frameSlots, items,
                 frameDrops, prodVars, encoderVars, histVars>>

DrainStore ==
  /\ drn = "store"
  /\ ringTail' = Inc(drnTail)
  /\ drained' = drained \cup {frameSlots[SlotOf(drnTail)]}
  /\ drn' = "take"
  /\ UNCHANGED <<capturing, arrived, ringHead, frameSlots, items, frameDrops,
                 prodVars, encoderVars, drnTail, encoded, drains>>

\* The update failed and capture is started again; NetworkStreamer::stop and
\* start in between leave no encode step of the earlier capture behind.
Resume ==
  /\ ~capturing /\ drn = "off" /\ encAt = "idle"
  /\ capturing' = TRUE
  /\ UNCHANGED <<arrived, ringHead, ringTail, frameSlots, items, frameDrops,
                 prodVars, encoderVars, drnVars, histVars>>

Producer == Drop \/ Claim \/ Publish \/ Signal
Encoder == Take \/ Peek \/ EncodeFrame \/ LoadTail \/ StoreTail
Drainer == DrainStart \/ DrainTake \/ DrainLoad \/ DrainStore

QueueNext == Producer \/ Encoder \/ Drainer \/ Resume

QueueSpec == QueueInit /\ [][QueueNext]_queueVars

\* The callback runs to completion in the Wi-Fi task, and the encode task
\* loops for as long as the streamer runs.
QueueFairness == WF_queueVars(Publish \/ Signal) /\ WF_queueVars(Encoder)

QueueFairSpec == QueueSpec /\ QueueFairness

-----------------------------------------------------------------------------
(* Properties.                                                             *)

Owed(pc, busy) == IF pc \in busy THEN 1 ELSE 0
EncOwes == Owed(encAt, {"peek", "encode", "load", "store"})
DrnOwes == Owed(drn, {"load", "store"})
Owing == Owed(prod, {"signal"}) + EncOwes + DrnOwes

\* Every queued frame has exactly one wake-up, already given, being given or
\* being served: the encode task neither sleeps on a queued frame nor wakes
\* for none.  Once maintenance has drained the queue a wake-up still is never
\* without a frame behind it, whoever consumes, so that a give never meets a
\* full semaphore (pushFromCapture: "so this won't fail"; popReady, release).
TokensMatchFrames ==
  /\ items + Owing <= Count /\ (drains = 0 => items + Owing = Count)
  /\ prod = "signal" => items < Capacity

\* Until maintenance drains them, queued frames are all reached by the encode
\* task (pushFromCapture's semaphore, popReady).
FrameReachesEncoder ==
  \A n \in 1..MaxFrames :
    (drains = 0 /\ Len(encoded) + Count - Owed(encAt, {"load", "store"}) >= n)
      ~> (Len(encoded) >= n \/ drains > 0)

\* A frame that the drain discarded is never handed to the encode task
\* afterwards (FrameQueue::drain: "Discards all queued frames").
DrainIsFinal ==
  [][encAt = "peek" /\ encAt' = "encode" => frameSlots[held'] \notin drained]_queueVars

\* The frames published and not yet encoded, oldest first.
Pending ==
  LET done == Owed(encAt, {"load", "store"})
  IN  [i \in 1..(Count - done) |-> frameSlots[SlotOf(ringTail + done + i - 1)]]

Offered == arrived - Owed(prod, {"copy"})

Fifo == INSTANCE LossyFifo WITH
  offered <- Offered, queue <- Pending,
  delivered <- encoded, refused <- frameDrops

\* Until maintenance drains it, the ring with its semaphore is a drop-newest
\* queue: every frame is encoded once and in order, refused and counted, or
\* still in its place (FrameRing, FrameQueue).
ImplementsLossyFifo ==
  Fifo!Init /\ [][drains' = 0 => Fifo!Next]_<<Offered, Pending, encoded, frameDrops>>
-----------------------------------------------------------------------------
(* The inductive invariant.                                                *)

\* The frames between a tail that a consumer read and the head.
Behind(tail) == (ringHead - tail) % Modulus
WakeUps == items + Owed(prod, {"signal"})

\* The tails that count, or will: the ring's own, and those that a consumer
\* has read and is about to store again plus one.
Tails == {ringTail} \cup {t \in {encTail} : encAt = "store"}
                    \cup {t \in {drnTail} : drn = "store"}

\* The slot being written stays free under each of them, and the wake-ups
\* that remain once a consumer has stored its tail still have their frames.
RoomKept == \A t \in Tails : Behind(t) <= Capacity - Owed(prod, {"copy"})

StoresBacked ==
  /\ encAt = "store" => WakeUps + DrnOwes < Behind(encTail)
  /\ drn = "store" => WakeUps + EncOwes < Behind(drnTail)

\* While frames come in, the encode task alone moves the tail.
OneConsumer ==
  /\ drains = 0 => capturing
  /\ capturing => drn = "off" /\ (encAt = "store" => encTail = ringTail)

\* The frame being copied is the newest, and no more are refused than came.
FramesNumbered ==
  /\ prod = "copy" => arrived > 0 /\ frame = arrived - 1
  /\ frameDrops <= arrived

\* Before any drain the slot in hand is the one at the tail.
HeldIsOldest == drains = 0 /\ encAt = "encode" => held = SlotOf(ringTail)

QueueIInv ==
  /\ QueueTypeOK /\ TokensMatchFrames /\ RoomKept /\ StoresBacked
  /\ OneConsumer /\ FramesNumbered /\ HeldIsOldest
=============================================================================
