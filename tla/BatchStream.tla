---------------------------- MODULE BatchStream ----------------------------
(***************************************************************************)
(* The streaming half of NetworkStreamer while it runs: the encode task    *)
(* packs frames into datagrams, BatchRing hands them over (a mutex, and a  *)
(* counting semaphore taken and given outside it), and the network task    *)
(* resolves the collector and sends.                                       *)
(*                                                                         *)
(* Abstracted: a datagram is its packetSeq, FramesPerBatch frames fit in   *)
(* one, and a push's critical section is one step, because the mutex makes *)
(* it one for everything but the semaphore it touches once.                *)
(***************************************************************************)
EXTENDS Integers, Sequences

CONSTANTS Depth,           \* slots of the batch ring (kBatchQueueDepth)
          FramesPerBatch,  \* frames that fit in a datagram
          FlushTicks,      \* empty polls before a partial datagram is pushed
          Backoff,         \* batches dropped between two name resolutions
          MaxBatches       \* bound on the datagrams of a behaviour

\* The shipped depths are 64 and 8.  With a depth of one a push can drop a
\* batch whose token the network task already holds.
ASSUME BatchStreamAssumption ==
  /\ Depth \in Nat /\ Depth > 1
  /\ FramesPerBatch \in Nat \ {0}
  /\ FlushTicks \in Nat \ {0}
  /\ Backoff \in Nat
  /\ MaxBatches \in Nat

VARIABLES
  slots, head, tail, count, tokens,   \* BatchRing; tokens is items_
  enc, seq, built, idle,              \* encodeTask and its open datagram
  net, batch, resolved, backoff,      \* networkTask
  dns,                                \* the collector's name resolves
  drops, failures, sent               \* DeviceHealth counters; sent in order

ringVars == <<slots, head, tail, count, tokens>>
encVars == <<enc, seq, built, idle>>
netVars == <<net, batch, resolved, backoff>>
vars == <<ringVars, encVars, netVars, dns, drops, failures, sent>>

Index == 0..(Depth - 1)
Batch == 0..(MaxBatches - 1)
NoBatch == -1

FlagsOK == resolved \in BOOLEAN /\ dns \in BOOLEAN

RingOK ==
  /\ slots \in [Index -> Batch \cup {NoBatch}]
  /\ head \in Index /\ tail \in Index
  /\ count \in 0..Depth /\ tokens \in 0..Depth

TasksOK ==
  /\ enc \in {"poll", "giveFull", "giveIdle"}
  /\ seq \in 0..MaxBatches
  /\ built \in 0..FramesPerBatch
  /\ idle \in 0..FlushTicks
  /\ net \in {"wait", "copy", "target", "send"}
  /\ batch \in Batch \cup {NoBatch}
  /\ backoff \in 0..Backoff
  /\ drops \in Nat /\ failures \in Nat
  /\ sent \in Seq(Batch)

TypeOK == FlagsOK /\ RingOK /\ TasksOK

Wrap(i) == (i + 1) % Depth

Init ==
  /\ slots = [i \in Index |-> NoBatch]
  /\ head = 0 /\ tail = 0 /\ count = 0 /\ tokens = 0
  /\ enc = "poll" /\ seq = 0 /\ built = 0 /\ idle = 0
  /\ dns \in BOOLEAN /\ resolved = dns
  /\ net = "wait" /\ batch = NoBatch /\ backoff = 0
  /\ drops = 0 /\ failures = 0 /\ sent = <<>>

-----------------------------------------------------------------------------
(* BatchRing::push up to the release of the mutex.                         *)

\* Mutant: a full ring drops the new batch.
DropNewest(b) ==
  IF count = Depth
  THEN /\ drops' = drops + 1
       /\ UNCHANGED <<slots, head, tail, count, tokens>>
  ELSE /\ slots' = [slots EXCEPT ![head] = b]
       /\ head' = Wrap(head)
       /\ count' = count + 1
       /\ UNCHANGED <<tail, tokens, drops>>

\* At a full ring the oldest batch goes, and its token if one can be taken.
Enqueue(b) ==
  /\ slots' = [slots EXCEPT ![head] = b]
  /\ head' = Wrap(head)
  /\ IF count = Depth
     THEN /\ tail' = Wrap(tail)
          /\ tokens' = IF tokens > 0 THEN tokens - 1 ELSE tokens
          /\ drops' = drops + 1
          /\ UNCHANGED count
     ELSE count' = count + 1 /\ UNCHANGED <<tail, tokens, drops>>

-----------------------------------------------------------------------------
(* encodeTask.                                                             *)

Polls == enc = "poll" /\ seq < MaxBatches

\* A frame that fits, or that comes first, joins the open datagram.
AddFrame ==
  /\ Polls /\ built < FramesPerBatch
  /\ built' = built + 1
  /\ idle' = 0
  /\ UNCHANGED <<ringVars, enc, seq, netVars, dns, drops, failures, sent>>

\* A frame that does not fit: the open datagram is pushed first.
PushFull ==
  /\ Polls /\ built = FramesPerBatch
  /\ Enqueue(seq)
  /\ idle' = 0
  /\ enc' = "giveFull"
  /\ UNCHANGED <<seq, built, netVars, dns, failures, sent>>

\* popReady timed out and there is nothing to flush, or not yet.
IdleTick ==
  /\ Polls /\ (built = 0 \/ idle + 1 < FlushTicks)
  /\ idle' = IF idle < FlushTicks THEN idle + 1 ELSE idle
  /\ UNCHANGED <<ringVars, enc, seq, built, netVars, dns, drops, failures,
                 sent>>

\* Mutant: the flush waits for a full datagram.
FlushFullOnly ==
  /\ Polls /\ built = FramesPerBatch /\ idle + 1 >= FlushTicks
  /\ Enqueue(seq)
  /\ enc' = "giveIdle"
  /\ UNCHANGED <<seq, built, idle, netVars, dns, failures, sent>>

\* The partial datagram has waited long enough.
Flush ==
  /\ Polls /\ built > 0 /\ idle + 1 >= FlushTicks
  /\ Enqueue(seq)
  /\ enc' = "giveIdle"
  /\ UNCHANGED <<seq, built, idle, netVars, dns, failures, sent>>

\* Mutant: the token of a pushed batch is not given.
GiveForgets ==
  /\ enc \in {"giveFull", "giveIdle"}
  /\ seq' = seq + 1
  /\ built' = IF enc = "giveFull" THEN 1 ELSE 0
  /\ idle' = 0
  /\ enc' = "poll"
  /\ UNCHANGED <<ringVars, netVars, dns, drops, failures, sent>>

\* The token is given after the mutex is released; a new datagram is begun,
\* and the frame that did not fit joins it.
Give ==
  /\ enc \in {"giveFull", "giveIdle"}
  /\ tokens' = IF tokens < Depth THEN tokens + 1 ELSE tokens
  /\ seq' = seq + 1
  /\ built' = IF enc = "giveFull" THEN 1 ELSE 0
  /\ idle' = 0
  /\ enc' = "poll"
  /\ UNCHANGED <<slots, head, tail, count, netVars, dns, drops, failures,
                 sent>>

-----------------------------------------------------------------------------
(* networkTask.                                                            *)

TakeToken ==
  /\ net = "wait" /\ tokens > 0
  /\ tokens' = tokens - 1
  /\ net' = "copy"
  /\ UNCHANGED <<slots, head, tail, count, encVars, batch, resolved, backoff,
                 dns, drops, failures, sent>>

\* The critical section of pop.
Pop ==
  /\ net = "copy"
  /\ batch' = slots[tail]
  /\ tail' = Wrap(tail)
  /\ count' = count - 1
  /\ net' = IF resolved THEN "send" ELSE "target"
  /\ UNCHANGED <<slots, head, tokens, encVars, resolved, backoff, dns, drops,
                 failures, sent>>

Resolve ==
  /\ net = "target" /\ backoff = 0 /\ dns
  /\ resolved' = TRUE
  /\ net' = "send"
  /\ UNCHANGED <<ringVars, encVars, batch, backoff, dns, drops, failures,
                 sent>>

\* The collector's address is unknown: the batch is given up.
GiveUp ==
  /\ net = "target"
  /\ backoff > 0 \/ ~dns
  /\ backoff' = IF backoff > 0 THEN backoff - 1 ELSE Backoff
  /\ failures' = failures + 1
  /\ net' = "wait"
  /\ UNCHANGED <<ringVars, encVars, batch, resolved, dns, drops, sent>>

SendFails ==
  /\ net = "send"
  /\ failures' = failures + 1
  /\ net' = "wait"
  /\ UNCHANGED <<ringVars, encVars, batch, resolved, backoff, dns, drops,
                 sent>>

Send ==
  /\ net = "send"
  /\ sent' = Append(sent, batch)
  /\ net' = "wait"
  /\ UNCHANGED <<ringVars, encVars, batch, resolved, backoff, dns, drops,
                 failures>>

DnsChange ==
  /\ dns' = ~dns
  /\ UNCHANGED <<ringVars, encVars, netVars, drops, failures, sent>>

Encode == AddFrame \/ PushFull \/ IdleTick \/ Flush \/ Give
Network == TakeToken \/ Pop \/ Resolve \/ GiveUp \/ SendFails \/ Send

Next == Encode \/ Network \/ DnsChange

Spec == Init /\ [][Next]_vars

\* Both tasks loop for as long as the streamer runs.  Frames need not come:
\* then the encode task's polls time out.
Fairness == /\ WF_vars(PushFull \/ IdleTick \/ Flush \/ Give)
            /\ WF_vars(Network)

FairSpec == Spec /\ Fairness

-----------------------------------------------------------------------------
(* Properties.                                                             *)

One(cond) == IF cond THEN 1 ELSE 0

Pushed == seq + One(enc # "poll")
InHand == One(net \in {"target", "send"})

\* The tokens given, being given and held are as many as the batches in the
\* ring, although they change outside the mutex: the network task never
\* sleeps on a batch, and count_ never wraps below zero (BatchRing).
TokensMatchBatches ==
  tokens + One(enc # "poll") + One(net = "copy") = count

\* The ring holds the newest batches and nothing else, in order
\* (BatchRing::push drops the oldest).
FreshestKept ==
  \A k \in 0..(count - 1) : slots[(tail + k) % Depth] = Pushed - count + k

\* The collector sees the packetSeq of this task only grow, so that a gap
\* means loss and nothing else (docs/csi-protocol.md, loss accounting).
SentInOrder == \A i \in 1..(Len(sent) - 1) : sent[i] < sent[i + 1]

\* Every datagram is sent, counted as dropped or failed, or still on its way.
EveryBatchAccounted ==
  Pushed = drops + failures + Len(sent) + count + InHand

\* Every batch leaves the ring: the network task gets to it, or newer
\* batches push it out (BatchRing::pop).
BatchLeaves ==
  \A n \in Batch : Pushed > n ~> drops + failures + Len(sent) > n

\* A datagram with a frame in it is pushed, whether frames stop or keep
\* coming (encodeTask's flush interval).
PartialIsFlushed ==
  \A n \in Batch : (seq = n /\ built > 0) ~> Pushed > n

\* What makes the properties above inductive: where the head stands, that an
\* open push is within the bound, and that nothing sent or in hand is as new
\* as what the ring still holds.
HeadFollows == head = (tail + count) % Depth

\* The oldest batch of the ring, or the next to come.
Oldest == Pushed - count

PushWithinBound == enc # "poll" => seq < MaxBatches

OlderThanRing ==
  /\ InHand = 1 => batch # NoBatch /\ batch < Oldest
  /\ \A i \in 1..Len(sent) :
       sent[i] < (IF InHand = 1 THEN batch ELSE Oldest)

IInv ==
  /\ TypeOK
  /\ TokensMatchBatches
  /\ HeadFollows
  /\ FreshestKept
  /\ PushWithinBound
  /\ OlderThanRing
  /\ SentInOrder
  /\ EveryBatchAccounted

Waiting == [i \in 1..count |-> slots[(tail + i - 1) % Depth]]

Abstract == INSTANCE DropOldestQueue WITH
  put <- Pushed, queue <- Waiting, got <- batch

\* BatchRing is a drop-oldest queue.
ImplementsDropOldest == Abstract!Spec
=============================================================================
