------------------------------ MODULE JointXY ------------------------------
(***************************************************************************)
(* The dashboard's joint position path: JointPacketAligner groups the      *)
(* receivers' observations of one transmitter packet, LiveXYRuntime turns  *)
(* the groups into a window and the window into a prediction.              *)
(*                                                                         *)
(* Each datagram is handled in one synchronous call, so a step is a call.  *)
(* The network delivers observations in any order and as often as it       *)
(* likes.  Abstracted: one transmitter boot; CSI and features, so that a   *)
(* prediction from enough receivers is accepted or not; the source map, as *)
(* receivers are slots.  A receiver boot is what the runtime takes for it, *)
(* the receiver's address and port.                                        *)
(***************************************************************************)
EXTENDS Integers, Sequences, FiniteSets, FiniteSetsExt, Functions,
        SequencesExt

CONSTANTS Slot,            \* receiver slots
          MinReceivers,    \* 3 of the 4
          Timeout,         \* 75 ms
          MaxPending,      \* 4096
          WindowPackets,   \* packets of a feature window
          Modulus,         \* transmitterPacketSeq wraps there: 2^32
          FirstSeq,        \* the first packet of the run
          Channel,
          MaxPackets, MaxTime, MaxBoots, MaxInputs   \* bounds

Half == Modulus \div 2
Full == Cardinality(Slot)

ASSUME JointAssumption ==
  /\ IsFiniteSet(Slot) /\ MinReceivers \in 1..Full
  /\ Timeout \in Nat \ {0} /\ MaxPending \in Nat \ {0}
  /\ WindowPackets \in Nat \ {0}
  /\ Modulus \in Nat /\ Modulus = 2 * Half /\ MaxPackets < Half
  /\ FirstSeq \in Nat /\ MaxPackets \in Nat \ {0}
  /\ MaxTime \in Nat /\ MaxBoots \in Nat \ {0} /\ MaxInputs \in Nat

Packets == FirstSeq..(FirstSeq + MaxPackets - 1)
Key == 0..(Modulus - 1)
Boot == 1..MaxBoots
Observation == [boot : Boot, at : 0..MaxTime]
Packet == [channel : Channel, first : 0..MaxTime,
           obs : UNION {[S -> Observation] : S \in SUBSET Slot}]
Metrics == [full : Nat, three : Nat, fewer : Nat, timeouts : Nat,
            duplicates : Nat, gaps : Nat, mismatches : Nat,
            transitions : Nat, evictions : Nat]
NoBoot == 0
NoSeq == -1

VARIABLES
  now, bootOf, inputs,          \* the clock, the receivers, calls so far
  pending,                      \* the packets being aligned, by key
  receiverBoots, lastSequence,
  metrics,
  window, prediction,           \* LiveXYRuntime
  seen, firstSeen,              \* history: the packets observed, and the first
  returned                      \* history: the packets the aligner returned

envVars == <<bootOf, inputs, seen, firstSeen>>
vars == <<now, envVars, pending, receiverBoots, lastSequence, metrics, window,
          prediction, returned>>

NoMetrics == [full |-> 0, three |-> 0, fewer |-> 0, timeouts |-> 0,
              duplicates |-> 0, gaps |-> 0, mismatches |-> 0,
              transitions |-> 0, evictions |-> 0]

TypeOK ==
  /\ now \in 0..MaxTime /\ inputs \in 0..MaxInputs
  /\ bootOf \in [Slot -> Boot]
  /\ \E K \in SUBSET Key : pending \in [K -> Packet]
  /\ IsFiniteSet(DOMAIN pending) /\ Cardinality(DOMAIN pending) <= MaxPending
  /\ receiverBoots \in [Slot -> Boot \cup {NoBoot}]
  /\ lastSequence \in Key \cup {NoSeq}
  /\ metrics \in Metrics
  /\ window \in Seq(Packet) /\ Len(window) <= WindowPackets
  /\ prediction \in {"none", "accepted", "rejected"}
  /\ seen \subseteq Packets /\ firstSeen \in Packets
  /\ returned \in Seq([key : Key, count : 0..Full])

Init ==
  /\ now = 0 /\ bootOf = [s \in Slot |-> 1] /\ inputs = 0
  /\ pending = [k \in {} |-> {}]
  /\ receiverBoots = [s \in Slot |-> NoBoot]
  /\ lastSequence = NoSeq
  /\ metrics = NoMetrics
  /\ window = <<>> /\ prediction = "none"
  /\ seen = {} /\ firstSeen = FirstSeq /\ returned = <<>>

-----------------------------------------------------------------------------
(* JointPacketAligner.                                                     *)

Count(p) == Cardinality(DOMAIN p.obs)

With(f, x, v) == [y \in DOMAIN f \cup {x} |-> IF y = x THEN v ELSE f[y]]

Without(pend, keys) == Restrict(pend, DOMAIN pend \ keys)

\* Mutant: packets do not time out.
NeverExpired(pend) == {}

Expired(pend) == {k \in DOMAIN pend : now - pend[k].first >= Timeout}

\* finalize, for a set of packets: what it adds to the metrics.
Finalized(m, pend, keys, timedOut) ==
  LET Of(n) == {k \in keys : Count(pend[k]) = n}
      full == Cardinality(Of(Full))
      three == Cardinality(Of(Full - 1))
  IN  [m EXCEPT !.full = @ + full, !.three = @ + three,
                !.fewer = @ + Cardinality(keys) - full - three,
                !.timeouts = @ + IF timedOut THEN Cardinality(keys) ELSE 0]

\* Mutant: packets that hold other receivers, too, are kept.
ContaminatedOnly(pend, s) == {k \in DOMAIN pend : DOMAIN pend[k].obs = {s}}

\* dropPacketsContaining.
Contaminated(pend, s) == {k \in DOMAIN pend : s \in DOMAIN pend[k].obs}

IsNewer(seq, previous) == (seq - previous) % Modulus \in 1..(Half - 1)

\* Mutant: the difference is not taken modulo 2^32.
GapUnsigned(seq) ==
  LET delta == seq - lastSequence
  IN  IF lastSequence # NoSeq /\ delta > 1 THEN delta - 1 ELSE 0

Gap(seq) ==
  LET delta == (seq - lastSequence) % Modulus
  IN  IF lastSequence # NoSeq /\ delta > 1 /\ delta < Half THEN delta - 1
                                                          ELSE 0

\* What add returns for one packet: its key, its size and the moment.
Return(k, p) == [key |-> k, count |-> Count(p)]

\* enforceBound: the oldest packet leaves, at most one as each call adds one;
\* of equally old ones, either.
Oldest(pend) ==
  {k \in DOMAIN pend : \A j \in DOMAIN pend : pend[k].first <= pend[j].first}

\* LiveXYRuntime.acceptDatagram, for the packet that add returned.
Accept(p) ==
  IF Count(p) >= MinReceivers
  THEN /\ window' = Append(IF Len(window) = WindowPackets THEN Tail(window)
                                                         ELSE window, p)
       /\ prediction' \in {"accepted", "rejected"}
  ELSE prediction' = "rejected" /\ UNCHANGED window

Deliver(k, p) ==
  /\ returned' = Append(returned, Return(k, p))
  /\ Accept(p)

DeliverNothing == UNCHANGED <<returned, window, prediction>>

\* add, once the observation is in its packet: a complete packet is returned,
\* and so is the one that enforceBound pushes out.  What add's own call of
\* expire finalised is not.
Store(pend, k, p, m) ==
  LET kept == With(pend, k, p)
  IN  IF Count(p) = Full
      THEN /\ pending' = Without(pend, {k})
           /\ metrics' = Finalized(m, kept, {k}, FALSE)
           /\ Deliver(k, p)
      ELSE IF Cardinality(DOMAIN kept) <= MaxPending
      THEN /\ pending' = kept /\ metrics' = m
           /\ DeliverNothing
      ELSE \E old \in Oldest(kept) :
             /\ pending' = Without(kept, {old})
             /\ metrics' = [Finalized(m, kept, {old}, TRUE)
                              EXCEPT !.evictions = @ + 1]
             /\ Deliver(old, kept[old])

\* acceptDatagram: add for the observation of packet n by slot s.
Observe(s, n, b, ch) ==
  LET k == n % Modulus
      obs == [boot |-> b, at |-> now]
      late == Expired(pending)
      m0 == Finalized(metrics, pending, late, TRUE)
      young == Without(pending, late)
      rebooted == receiverBoots[s] \notin {NoBoot, b}
      stale == IF rebooted THEN Contaminated(young, s) ELSE {}
      clean == Without(young, stale)
      m1 == [m0 EXCEPT !.transitions = @ + IF rebooted THEN 1 ELSE 0,
                       !.evictions = @ + Cardinality(stale),
                       !.gaps = @ + Gap(k)]
      isNew == k \notin DOMAIN clean
      packet == IF isNew THEN [channel |-> ch, first |-> now, obs |-> [x \in {} |-> obs]]
                         ELSE clean[k]
  IN  /\ inputs < MaxInputs /\ inputs' = inputs + 1
      /\ receiverBoots' = [receiverBoots EXCEPT ![s] = b]
      /\ lastSequence' = IF lastSequence = NoSeq \/ IsNewer(k, lastSequence)
                         THEN k ELSE lastSequence
      /\ seen' = seen \cup {n}
      /\ firstSeen' = IF seen = {} THEN n ELSE firstSeen
      /\ IF packet.channel # ch
         THEN /\ metrics' = [m1 EXCEPT !.mismatches = @ + 1]
              /\ pending' = clean
              /\ DeliverNothing
         ELSE IF s \in DOMAIN packet.obs
         THEN /\ metrics' = [m1 EXCEPT !.duplicates = @ + 1]
              /\ pending' = clean
              /\ DeliverNothing
         ELSE Store(clean, k, [packet EXCEPT !.obs = With(@, s, obs)], m1)
      /\ UNCHANGED <<now, bootOf>>

Tick ==
  /\ now < MaxTime
  /\ now' = now + 1
  /\ UNCHANGED <<envVars, pending, receiverBoots, lastSequence, metrics,
                 window, prediction, returned>>

Restart(s) ==
  /\ bootOf[s] < MaxBoots
  /\ bootOf' = [bootOf EXCEPT ![s] = @ + 1]
  /\ UNCHANGED <<now, inputs, seen, firstSeen, pending, receiverBoots, lastSequence,
                 metrics, window, prediction, returned>>

\* Observations of the boot a receiver is in, or late ones of an earlier one.
Input == \E s \in Slot, n \in Packets, ch \in Channel :
           \E b \in 1..bootOf[s] : Observe(s, n, b, ch)

Next == Tick \/ (\E s \in Slot : Restart(s)) \/ Input

Spec == Init /\ [][Next]_vars

-----------------------------------------------------------------------------
(* Properties.                                                             *)

\* A packet is only ever joined by observations of one boot of each receiver,
\* the latest heard of, however the boots' datagrams interleave
\* ("evicts active packets contaminated by a receiver reboot").
OneBootPerReceiver ==
  \A k \in DOMAIN pending :
    \A s \in DOMAIN pending[k].obs : pending[k].obs[s].boot = receiverBoots[s]

\* Observations are joint only if they came within the timeout of each other
\* ("Asynchronous receiver windows must never be treated as one observation"),
\* and every packet of a feature window has enough of them.
JointMeansTogether ==
  \A i \in 1..Len(window) :
    /\ Count(window[i]) >= MinReceivers
    /\ \A s, t \in DOMAIN window[i].obs :
         window[i].obs[s].at - window[i].obs[t].at < Timeout

\* A number the transmitter used that no receiver observed is in the gap
\* count once a later one was observed, whatever the order of arrival
\* and across a wrap.
NoGapUnnoticed ==
  seen # {} => Cardinality((firstSeen..Max(seen)) \ seen) <= metrics.gaps

\* Every packet finalised as degraded is returned to the runtime
\* (docs/csi-protocol.md: "Three observations are allowed only as degraded
\* mode and must be reflected in uncertainty").
DegradedReachesRuntime ==
  metrics.three = Cardinality({i \in 1..Len(returned) : returned[i].count = Full - 1})

\* A transmitter packet is finalised once: a duplicate of an observation that
\* was used does not make a second packet ("ignores duplicate receiver
\* observations").
FinalizedOnce ==
  \A i, j \in 1..Len(returned) : returned[i].key = returned[j].key => i = j

-----------------------------------------------------------------------------
(* The inductive invariant.                                                *)

\* A packet's observations came within the timeout of its first one, and a
\* packet being aligned was begun in the past.
Together(p) ==
  \A s \in DOMAIN p.obs : p.obs[s].at - p.first \in 0..(Timeout - 1)

PendingTogether ==
  \A k \in DOMAIN pending : Together(pending[k]) /\ pending[k].first <= now

WindowTogether ==
  \A i \in 1..Len(window) :
    Together(window[i]) /\ Count(window[i]) >= MinReceivers

\* lastSequence is the newest packet number that was observed.
LastIsNewest ==
  /\ seen = {} => lastSequence = NoSeq
  /\ seen # {} => /\ firstSeen \in seen
                  /\ \E n \in seen : /\ \A i \in seen : i <= n
                                     /\ lastSequence = n % Modulus

JointIInv == /\ TypeOK /\ PendingTogether /\ WindowTogether /\ OneBootPerReceiver
             /\ LastIsNewest /\ NoGapUnnoticed
=============================================================================
