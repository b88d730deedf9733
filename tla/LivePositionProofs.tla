-------------------------- MODULE LivePositionProofs --------------------------
(***************************************************************************)
(* For every number of receivers, every timeout, every bound on the        *)
(* packets being aligned, every modulus and every order of arrival: a      *)
(* packet joins observations of one moment and one boot of each receiver,  *)
(* and no gap in the transmitter's numbers goes uncounted.  And for every  *)
(* window, baseline length and order of datagrams: whatever the engine's   *)
(* verdict rests on is of one boot and one stream, readiness is earned, and*)
(* a poll teaches nothing.  And for any number of receivers and zones: the *)
(* order of the receivers does not decide the fused position.              *)
(***************************************************************************)
EXTENDS JointXY, MultiNodeEngine, PositionFusion, WrappingNumbers

-----------------------------------------------------------------------------
(* The aligner's table of packets, and its packets.                        *)

LEMMA Numbers ==
  /\ Modulus \in Nat \ {0} /\ Half \in Nat /\ Modulus = 2 * Half
  /\ MaxPackets \in Nat \ {0} /\ MaxPackets < Half /\ FirstSeq \in Nat
  /\ MaxTime \in Nat /\ MaxBoots \in Nat \ {0} /\ MaxInputs \in Nat
  /\ Timeout \in Nat \ {0} /\ MaxPending \in Nat \ {0} /\ WindowPackets \in Nat \ {0}
BY JointAssumption DEF JointAssumption, Half

LEMMA Slots ==
  /\ IsFiniteSet(Slot) /\ Full \in Nat /\ MinReceivers \in 1..Full
  /\ \A D \in SUBSET Slot : IsFiniteSet(D) /\ Cardinality(D) \in 0..Full
<1>1. IsFiniteSet(Slot) /\ MinReceivers \in 1..Full /\ Full \in Nat
  BY JointAssumption, FS_CardinalityType DEF JointAssumption, Full
<1>2. ASSUME NEW D \in SUBSET Slot
      PROVE  IsFiniteSet(D) /\ Cardinality(D) \in 0..Full
  <2>1. IsFiniteSet(D) /\ Cardinality(D) <= Cardinality(Slot)
    BY <1>1, FS_Subset
  <2>2. Cardinality(D) \in Nat
    BY <2>1, FS_CardinalityType
  <2>. QED BY <1>1, <2>1, <2>2 DEF Full
<1>. QED BY <1>1, <1>2

LEMMA WithIs ==
  ASSUME NEW f, NEW x, NEW v
  PROVE  /\ DOMAIN With(f, x, v) = DOMAIN f \cup {x}
         /\ With(f, x, v)[x] = v
         /\ \A y \in DOMAIN f : y # x => With(f, x, v)[y] = f[y]
BY DEF With

LEMMA WithoutIs ==
  ASSUME NEW f, NEW S
  PROVE  /\ DOMAIN Without(f, S) = DOMAIN f \ S
         /\ \A y \in DOMAIN f \ S : Without(f, S)[y] = f[y]
BY DEF Without, Restrict

\* A table of packets: what pending is.
Table(f) == /\ \E K \in SUBSET Key : f \in [K -> Packet]
            /\ IsFiniteSet(DOMAIN f)

LEMMA TableIs ==
  ASSUME NEW f, Table(f)
  PROVE  /\ DOMAIN f \in SUBSET Key /\ f \in [DOMAIN f -> Packet]
         /\ IsFiniteSet(DOMAIN f) /\ Cardinality(DOMAIN f) \in Nat
         /\ \A k \in DOMAIN f : f[k] \in Packet
BY FS_CardinalityType DEF Table

LEMMA WithoutTable ==
  ASSUME NEW f, Table(f), NEW S
  PROVE  /\ Table(Without(f, S))
         /\ Cardinality(DOMAIN Without(f, S)) <= Cardinality(DOMAIN f)
<1>1. /\ DOMAIN f \in SUBSET Key /\ f \in [DOMAIN f -> Packet]
      /\ IsFiniteSet(DOMAIN f)
  BY TableIs
<1>2. Without(f, S) \in [DOMAIN f \ S -> Packet]
  BY <1>1 DEF Without, Restrict
<1>3. DOMAIN Without(f, S) = DOMAIN f \ S
  BY WithoutIs
<1>4. IsFiniteSet(DOMAIN f \ S) /\ Cardinality(DOMAIN f \ S) <= Cardinality(DOMAIN f)
  BY <1>1, FS_Subset
<1>5. DOMAIN f \ S \in SUBSET Key
  BY <1>1
<1>. QED BY <1>2, <1>3, <1>4, <1>5 DEF Table

LEMMA WithTable ==
  ASSUME NEW f, Table(f), NEW k \in Key, NEW p \in Packet
  PROVE  /\ Table(With(f, k, p))
         /\ Cardinality(DOMAIN With(f, k, p)) <= Cardinality(DOMAIN f) + 1
<1>1. /\ DOMAIN f \in SUBSET Key /\ f \in [DOMAIN f -> Packet]
      /\ IsFiniteSet(DOMAIN f) /\ Cardinality(DOMAIN f) \in Nat
  BY TableIs
<1>2. With(f, k, p) \in [DOMAIN f \cup {k} -> Packet]
  BY <1>1 DEF With
<1>3. DOMAIN With(f, k, p) = DOMAIN f \cup {k}
  BY WithIs
<1>4. /\ IsFiniteSet(DOMAIN f \cup {k})
      /\ Cardinality(DOMAIN f \cup {k}) <= Cardinality(DOMAIN f) + 1
  <2>1. /\ IsFiniteSet(DOMAIN f \cup {k})
        /\ Cardinality(DOMAIN f \cup {k}) = IF k \in DOMAIN f THEN Cardinality(DOMAIN f)
                                            ELSE Cardinality(DOMAIN f) + 1
    BY <1>1, FS_AddElement, Zenon
  <2>. QED BY <1>1, <2>1
<1>5. DOMAIN f \cup {k} \in SUBSET Key
  BY <1>1
<1>. QED BY <1>2, <1>3, <1>4, <1>5 DEF Table

LEMMA PacketIs ==
  ASSUME NEW p \in Packet
  PROVE  /\ p.channel \in Channel /\ p.first \in 0..MaxTime
         /\ DOMAIN p.obs \in SUBSET Slot /\ p.obs \in [DOMAIN p.obs -> Observation]
         /\ Count(p) \in 0..Full
<1>1. /\ p.channel \in Channel /\ p.first \in 0..MaxTime
      /\ \E S \in SUBSET Slot : p.obs \in [S -> Observation]
  BY DEF Packet
<1>2. DOMAIN p.obs \in SUBSET Slot /\ p.obs \in [DOMAIN p.obs -> Observation]
  BY <1>1
<1>. QED BY <1>1, <1>2, Slots DEF Count

\* A packet with one more observation.
Joined(p, s, o) == [p EXCEPT !.obs = With(@, s, o)]

LEMMA JoinedIs ==
  ASSUME NEW p \in Packet, NEW s \in Slot, NEW o \in Observation
  PROVE  /\ Joined(p, s, o) \in Packet
         /\ Joined(p, s, o).first = p.first
         /\ Joined(p, s, o).obs = With(p.obs, s, o)
<1>1. DOMAIN p.obs \in SUBSET Slot /\ p.obs \in [DOMAIN p.obs -> Observation]
  BY PacketIs
<1>2. With(p.obs, s, o) \in [DOMAIN p.obs \cup {s} -> Observation]
  BY <1>1 DEF With
<1>3. DOMAIN p.obs \cup {s} \in SUBSET Slot
  BY <1>1
<1>4. With(p.obs, s, o) \in UNION {[S -> Observation] : S \in SUBSET Slot}
  BY <1>2, <1>3
<1>. QED BY <1>4 DEF Joined, Packet

\* A packet of one boot per receiver, in a state where the boots are boots.
OneBoot(p, boots) == \A s \in DOMAIN p.obs : p.obs[s].boot = boots[s]

LEMMA JoinedTogether ==
  ASSUME NEW p \in Packet, NEW s \in Slot, NEW b \in Boot, NEW boots, NEW t \in 0..MaxTime,
         Together(p), OneBoot(p, [boots EXCEPT ![s] = b]), s \notin DOMAIN p.obs,
         p.first <= t, t - p.first < Timeout, s \in DOMAIN boots
  PROVE  LET q == Joined(p, s, [boot |-> b, at |-> t])
         IN  Together(q) /\ OneBoot(q, [boots EXCEPT ![s] = b])
<1>. DEFINE o == [boot |-> b, at |-> t]
            q == Joined(p, s, o)
<1>1. o \in Observation
  BY DEF Observation
<1>2. q.first = p.first /\ q.obs = With(p.obs, s, o)
  BY <1>1, JoinedIs
<1>3. o.boot = b /\ o.at = t /\ t - p.first \in 0..(Timeout - 1)
  BY PacketIs, Numbers
<1>. HIDE DEF q, o
<1>4. /\ DOMAIN q.obs = DOMAIN p.obs \cup {s} /\ q.obs[s] = o
      /\ \A y \in DOMAIN p.obs : q.obs[y] = p.obs[y]
  <2>1. \A y \in DOMAIN p.obs : y # s
    OBVIOUS
  <2>2. /\ DOMAIN With(p.obs, s, o) = DOMAIN p.obs \cup {s}
        /\ With(p.obs, s, o)[s] = o
        /\ \A y \in DOMAIN p.obs : With(p.obs, s, o)[y] = p.obs[y]
    BY <2>1 DEF With
  <2>. QED BY <1>2, <2>2
<1>5. Together(q)
  BY <1>2, <1>3, <1>4 DEF Together
<1>6. OneBoot(q, [boots EXCEPT ![s] = b])
  BY <1>3, <1>4 DEF OneBoot
<1>. QED BY <1>5, <1>6 DEF q, o

-----------------------------------------------------------------------------
(* The metrics, and what the runtime is given.                             *)

LEMMA FinalizedIs ==
  ASSUME NEW m \in Metrics, NEW pend, NEW keys, IsFiniteSet(keys), NEW timedOut \in BOOLEAN
  PROVE  /\ Finalized(m, pend, keys, timedOut) \in Metrics
         /\ Finalized(m, pend, keys, timedOut).gaps = m.gaps
<1>. DEFINE Of(n) == {k \in keys : Count(pend[k]) = n}
            A == Of(Full)
            B == Of(Full - 1)
<1>1. A \subseteq keys /\ B \subseteq keys /\ A \cap B = {}
  <2>1. Full # Full - 1
    BY Slots
  <2>. QED BY <2>1
<1>2. /\ IsFiniteSet(A) /\ IsFiniteSet(B) /\ IsFiniteSet(A \cup B)
      /\ Cardinality(A \cup B) <= Cardinality(keys)
  <2>1. A \cup B \subseteq keys
    BY <1>1
  <2>. HIDE DEF A, B
  <2>. QED BY <1>1, <2>1, FS_Subset, Zenon
<1>. HIDE DEF Of, A, B
<1>3. /\ Cardinality(A) \in Nat /\ Cardinality(B) \in Nat /\ Cardinality(keys) \in Nat
      /\ Cardinality({}) = 0
  BY <1>2, FS_CardinalityType, FS_EmptySet
<1>4. Cardinality(A \cup B) = Cardinality(A) + Cardinality(B) - Cardinality(A \cap B)
  BY <1>2, FS_Union, Zenon
<1>5. Cardinality(keys) - Cardinality(A) - Cardinality(B) \in Nat
  <2>1. Cardinality(A \cap B) = 0
    BY <1>1, <1>3
  <2>2. Cardinality(A) + Cardinality(B) <= Cardinality(keys)
    BY <1>2, <1>3, <1>4, <2>1
  <2>. QED BY <1>3, <2>2
<1>6. Finalized(m, pend, keys, timedOut)
        = [m EXCEPT !.full = @ + Cardinality(A), !.three = @ + Cardinality(B),
                    !.fewer = @ + Cardinality(keys) - Cardinality(A) - Cardinality(B),
                    !.timeouts = @ + IF timedOut THEN Cardinality(keys) ELSE 0]
  BY DEF Finalized, Of, A, B
<1>7. /\ m.full \in Nat /\ m.three \in Nat /\ m.fewer \in Nat /\ m.timeouts \in Nat
  BY DEF Metrics
<1>8. /\ m.full + Cardinality(A) \in Nat /\ m.three + Cardinality(B) \in Nat
      /\ m.fewer + Cardinality(keys) - Cardinality(A) - Cardinality(B) \in Nat
      /\ m.timeouts + (IF timedOut THEN Cardinality(keys) ELSE 0) \in Nat
  BY <1>3, <1>5, <1>7
<1>. QED BY <1>6, <1>8 DEF Metrics

\* What Deliver does for a packet that is one.
LEMMA DeliverIs ==
  ASSUME TypeOK, WindowTogether, NEW k \in Key, NEW p \in Packet, Together(p), Deliver(k, p)
  PROVE  /\ window' \in Seq(Packet) /\ Len(window') <= WindowPackets /\ WindowTogether'
         /\ returned' \in Seq([key : Key, count : 0..Full])
         /\ prediction' \in {"none", "accepted", "rejected"}
<1>1. /\ window \in Seq(Packet) /\ Len(window) <= WindowPackets /\ WindowPackets \in Nat \ {0}
      /\ returned \in Seq([key : Key, count : 0..Full])
  BY Numbers DEF TypeOK
<1>2. Return(k, p) \in [key : Key, count : 0..Full]
  BY PacketIs DEF Return
<1>3. returned' \in Seq([key : Key, count : 0..Full])
  BY <1>1, <1>2 DEF Deliver
<1>4. CASE Count(p) >= MinReceivers
  <2>. DEFINE w == IF Len(window) = WindowPackets THEN Tail(window) ELSE window
  <2>1. window' = Append(w, p) /\ prediction' \in {"accepted", "rejected"}
    BY <1>4 DEF Deliver, Accept
  <2>2. /\ w \in Seq(Packet) /\ Len(w) < WindowPackets
        /\ \A i \in 1..Len(w) : \E j \in 1..Len(window) : w[i] = window[j]
    <3>1. CASE Len(window) = WindowPackets
      <4>1. /\ w = Tail(window) /\ Len(w) = Len(window) - 1 /\ w \in Seq(Packet)
            /\ \A i \in 1..Len(w) : w[i] = window[i + 1]
        BY <1>1, <3>1
      <4>2. \A i \in 1..Len(w) : i + 1 \in 1..Len(window)
        BY <1>1, <4>1
      <4>. HIDE DEF w
      <4>. QED BY <1>1, <3>1, <4>1, <4>2
    <3>2. CASE Len(window) # WindowPackets
      BY <1>1, <3>2
    <3>. QED BY <3>1, <3>2
  <2>3. \A i \in 1..Len(w) : Together(w[i]) /\ Count(w[i]) >= MinReceivers
    BY <2>2, Zenon DEF WindowTogether
  <2>. HIDE DEF w
  <2>4. /\ window' \in Seq(Packet) /\ Len(window') = Len(w) + 1
        /\ \A i \in 1..Len(w) : window'[i] = w[i]
        /\ window'[Len(w) + 1] = p
    BY <2>1, <2>2
  <2>5. \A i \in 1..Len(window') : i \in 1..Len(w) \/ i = Len(w) + 1
    BY <2>2, <2>4
  <2>6. \A i \in 1..Len(window') : Together(window'[i]) /\ Count(window'[i]) >= MinReceivers
    BY <1>4, <2>3, <2>4, <2>5, Zenon
  <2>7. WindowTogether'
    BY <2>6, Zenon DEF WindowTogether
  <2>8. Len(window') <= WindowPackets
    BY <1>1, <2>2, <2>4
  <2>. QED BY <1>3, <2>1, <2>4, <2>7, <2>8
<1>5. CASE ~(Count(p) >= MinReceivers)
  <2>1. window' = window /\ prediction' = "rejected"
    BY <1>5 DEF Deliver, Accept
  <2>2. WindowTogether'
    BY <2>1 DEF WindowTogether
  <2>. QED BY <1>1, <1>3, <2>1, <2>2
<1>. QED BY <1>4, <1>5

\* Whatever Store returns to the runtime is the packet it was given, or one of
\* the table's; and the table stays within its bound.
LEMMA StoreIs ==
  ASSUME NEW pend, Table(pend), Cardinality(DOMAIN pend) <= MaxPending,
         NEW k \in Key, NEW p \in Packet, NEW m \in Metrics, Store(pend, k, p, m)
  PROVE  /\ Table(pending') /\ Cardinality(DOMAIN pending') <= MaxPending
         /\ \A j \in DOMAIN pending' : \/ pending'[j] = p
                                       \/ j \in DOMAIN pend /\ pending'[j] = pend[j]
         /\ metrics' \in Metrics /\ metrics'.gaps = m.gaps
         /\ \/ DeliverNothing
            \/ Deliver(k, p)
            \/ \E j \in DOMAIN pend : Deliver(j, pend[j])
<1>. DEFINE kept == With(pend, k, p)
<1>1. /\ Table(kept) /\ Cardinality(DOMAIN kept) <= Cardinality(DOMAIN pend) + 1
      /\ Cardinality(DOMAIN pend) \in Nat /\ MaxPending \in Nat
  BY WithTable, TableIs, Numbers
<1>2. /\ IsFiniteSet(DOMAIN kept) /\ Cardinality(DOMAIN kept) \in Nat
  BY <1>1, TableIs
<1>3. /\ DOMAIN kept = DOMAIN pend \cup {k}
      /\ \A j \in DOMAIN kept : kept[j] = IF j = k THEN p ELSE pend[j]
  BY DEF With
<1>4. \/ /\ Count(p) = Full
         /\ pending' = Without(pend, {k})
         /\ metrics' = Finalized(m, kept, {k}, FALSE)
         /\ Deliver(k, p)
      \/ /\ Cardinality(DOMAIN kept) <= MaxPending
         /\ pending' = kept /\ metrics' = m /\ DeliverNothing
      \/ \E old \in Oldest(kept) :
             /\ pending' = Without(kept, {old})
             /\ metrics' = [Finalized(m, kept, {old}, TRUE) EXCEPT !.evictions = @ + 1]
             /\ Deliver(old, kept[old])
  BY DEF Store
<1>. HIDE DEF kept
<1>5. \A x, t : t \in BOOLEAN => /\ Finalized(m, kept, {x}, t) \in Metrics
                               /\ Finalized(m, kept, {x}, t).gaps = m.gaps
  BY FinalizedIs, FS_Singleton
<1>6. CASE /\ Count(p) = Full
           /\ pending' = Without(pend, {k})
           /\ metrics' = Finalized(m, kept, {k}, FALSE)
           /\ Deliver(k, p)
  <2>1. Table(pending') /\ Cardinality(DOMAIN pending') <= Cardinality(DOMAIN pend)
    BY <1>6, WithoutTable
  <2>2. Cardinality(DOMAIN pending') \in Nat
    BY <2>1, TableIs
  <2>3. \A j \in DOMAIN pending' : j \in DOMAIN pend /\ pending'[j] = pend[j]
    BY <1>6 DEF Without, Restrict
  <2>4. Cardinality(DOMAIN pending') <= MaxPending
    BY <1>1, <2>1, <2>2
  <2>5. metrics' \in Metrics /\ metrics'.gaps = m.gaps
    BY <1>5, <1>6
  <2>. QED BY <1>6, <2>1, <2>3, <2>4, <2>5, Zenon
<1>7. CASE /\ Cardinality(DOMAIN kept) <= MaxPending
           /\ pending' = kept /\ metrics' = m /\ DeliverNothing
  BY <1>1, <1>3, <1>7
<1>8. CASE \E old \in Oldest(kept) :
             /\ pending' = Without(kept, {old})
             /\ metrics' = [Finalized(m, kept, {old}, TRUE) EXCEPT !.evictions = @ + 1]
             /\ Deliver(old, kept[old])
  <2>. PICK old \in Oldest(kept) :
             /\ pending' = Without(kept, {old})
             /\ metrics' = [Finalized(m, kept, {old}, TRUE) EXCEPT !.evictions = @ + 1]
             /\ Deliver(old, kept[old])
    BY <1>8
  <2>1. old \in DOMAIN kept
    BY DEF Oldest
  <2>2. Table(pending') /\ DOMAIN pending' = DOMAIN kept \ {old}
    BY <1>1, WithoutTable, WithoutIs
  <2>3. Cardinality(DOMAIN kept \ {old}) = Cardinality(DOMAIN kept) - 1
    BY <1>2, <2>1, FS_RemoveElement
  <2>4. Cardinality(DOMAIN pending') <= MaxPending
    BY <1>1, <1>2, <2>2, <2>3
  <2>5. \A j \in DOMAIN pending' : pending'[j] = kept[j] /\ j \in DOMAIN kept
    BY <2>2, WithoutIs
  <2>6. metrics' \in Metrics /\ metrics'.gaps = m.gaps
    <3>1. Finalized(m, kept, {old}, TRUE) \in Metrics /\ Finalized(m, kept, {old}, TRUE).gaps = m.gaps
      BY <1>5
    <3>2. \A f \in Metrics : /\ [f EXCEPT !.evictions = @ + 1] \in Metrics
                            /\ [f EXCEPT !.evictions = @ + 1].gaps = f.gaps
      BY DEF Metrics
    <3>. QED BY <3>1, <3>2
  <2>7. Deliver(k, p) \/ \E j \in DOMAIN pend : Deliver(j, pend[j])
    BY <1>3, <2>1
  <2>. QED BY <1>3, <2>2, <2>4, <2>5, <2>6, <2>7
<1>. QED BY <1>4, <1>6, <1>7, <1>8

-----------------------------------------------------------------------------
(* An observation.                                                         *)

Young == Without(pending, Expired(pending))
Rebooted(s, b) == receiverBoots[s] \notin {NoBoot, b}
Stale(s, b) == IF Rebooted(s, b) THEN Contaminated(Young, s) ELSE {}
Clean(s, b) == Without(Young, Stale(s, b))
Begun(s, k, b, ch) ==
  IF k \notin DOMAIN Clean(s, b)
  THEN [channel |-> ch, first |-> now, obs |-> [x \in {} |-> [boot |-> b, at |-> now]]]
  ELSE Clean(s, b)[k]
Counted(s, k, b) ==
  [Finalized(metrics, pending, Expired(pending), TRUE)
     EXCEPT !.transitions = @ + IF Rebooted(s, b) THEN 1 ELSE 0,
            !.evictions = @ + Cardinality(Stale(s, b)), !.gaps = @ + Gap(k)]

LEMMA ObserveIs ==
  ASSUME NEW s \in Slot, NEW n \in Packets, NEW b \in Boot, NEW ch \in Channel,
         Observe(s, n, b, ch), NEW k, k = n % Modulus
  PROVE  /\ inputs < MaxInputs /\ inputs' = inputs + 1
         /\ receiverBoots' = [receiverBoots EXCEPT ![s] = b]
         /\ lastSequence' = IF lastSequence = NoSeq \/ IsNewer(k, lastSequence)
                            THEN k ELSE lastSequence
         /\ seen' = seen \cup {n} /\ firstSeen' = IF seen = {} THEN n ELSE firstSeen
         /\ now' = now /\ bootOf' = bootOf
         /\ \/ /\ \/ metrics' = [Counted(s, k, b) EXCEPT !.mismatches = @ + 1]
                  \/ metrics' = [Counted(s, k, b) EXCEPT !.duplicates = @ + 1]
               /\ pending' = Clean(s, b) /\ DeliverNothing
            \/ /\ Begun(s, k, b, ch).channel = ch
               /\ s \notin DOMAIN Begun(s, k, b, ch).obs
               /\ Store(Clean(s, b), k,
                        Joined(Begun(s, k, b, ch), s, [boot |-> b, at |-> now]),
                        Counted(s, k, b))
BY DEF Observe, Young, Rebooted, Stale, Clean, Begun, Counted, Joined

\* What is left when an observation of boot b of receiver s came: young packets
\* of one boot per receiver, that of s being b.
LEMMA CleanIs ==
  ASSUME TypeOK, PendingTogether, OneBootPerReceiver, NEW s \in Slot, NEW b \in Boot
  PROVE  /\ Table(Clean(s, b)) /\ Cardinality(DOMAIN Clean(s, b)) <= MaxPending
         /\ \A j \in DOMAIN Clean(s, b) :
              LET p == Clean(s, b)[j]
              IN  /\ p \in Packet /\ Together(p) /\ p.first <= now /\ now - p.first < Timeout
                  /\ OneBoot(p, [receiverBoots EXCEPT ![s] = b])
<1>1. /\ Table(pending) /\ Cardinality(DOMAIN pending) <= MaxPending /\ MaxPending \in Nat
      /\ DOMAIN receiverBoots = Slot /\ now \in 0..MaxTime /\ Timeout \in Nat
      /\ MaxTime \in Nat
  BY Numbers DEF TypeOK, Table
<1>2. /\ Table(Young) /\ Cardinality(DOMAIN Young) <= Cardinality(DOMAIN pending)
  BY <1>1, WithoutTable DEF Young
<1>3. /\ Table(Clean(s, b)) /\ Cardinality(DOMAIN Clean(s, b)) <= Cardinality(DOMAIN Young)
  BY <1>2, WithoutTable DEF Clean
<1>4. /\ Cardinality(DOMAIN pending) \in Nat /\ Cardinality(DOMAIN Young) \in Nat
      /\ Cardinality(DOMAIN Clean(s, b)) \in Nat
  BY <1>1, <1>2, <1>3, TableIs
<1>5. Cardinality(DOMAIN Clean(s, b)) <= MaxPending
  BY <1>1, <1>2, <1>3, <1>4
<1>6. /\ DOMAIN Young = DOMAIN pending \ Expired(pending)
      /\ \A j \in DOMAIN Young : Young[j] = pending[j]
  BY DEF Young, Without, Restrict
<1>7. /\ DOMAIN Clean(s, b) = DOMAIN Young \ Stale(s, b)
      /\ \A j \in DOMAIN Clean(s, b) : Clean(s, b)[j] = Young[j]
  BY DEF Clean, Without, Restrict
<1>8. ASSUME NEW j \in DOMAIN Clean(s, b)
      PROVE  LET p == Clean(s, b)[j]
             IN  /\ p \in Packet /\ Together(p) /\ p.first <= now /\ now - p.first < Timeout
                 /\ OneBoot(p, [receiverBoots EXCEPT ![s] = b])
  <2>. DEFINE p == Clean(s, b)[j]
  <2>1. /\ p = pending[j] /\ j \in DOMAIN pending /\ j \notin Expired(pending)
        /\ j \in DOMAIN Young /\ j \notin Stale(s, b) /\ p = Young[j]
    BY <1>6, <1>7
  <2>. HIDE DEF p
  <2>2. p \in Packet
    BY <1>1, <2>1, TableIs
  <2>3. /\ p.first \in 0..MaxTime /\ DOMAIN p.obs \in SUBSET Slot
        /\ p.obs \in [DOMAIN p.obs -> Observation]
    BY <2>2, PacketIs
  <2>4. Together(p) /\ p.first <= now
    BY <2>1 DEF PendingTogether
  <2>5. now - p.first < Timeout
    <3>1. ~(now - pending[j].first >= Timeout)
      BY <2>1 DEF Expired
    <3>. QED BY <1>1, <2>1, <2>3, <3>1
  <2>6. \A t \in DOMAIN p.obs : p.obs[t].boot = receiverBoots[t] /\ p.obs[t].boot \in Boot
    BY <2>1, <2>3 DEF OneBootPerReceiver, Observation
  <2>7. s \in DOMAIN p.obs => receiverBoots[s] = b
    <3>1. ASSUME s \in DOMAIN p.obs, Rebooted(s, b)
          PROVE  FALSE
      BY <2>1, <3>1 DEF Stale, Contaminated
    <3>2. NoBoot \notin Boot
      BY DEF NoBoot, Boot
    <3>. QED BY <2>6, <3>1, <3>2 DEF Rebooted
  <2>8. OneBoot(p, [receiverBoots EXCEPT ![s] = b])
    BY <1>1, <2>3, <2>6, <2>7 DEF OneBoot
  <2>. QED BY <2>2, <2>4, <2>5, <2>8 DEF p
<1>. QED BY <1>3, <1>5, <1>8

LEMMA BegunIs ==
  ASSUME TypeOK, PendingTogether, OneBootPerReceiver,
         NEW s \in Slot, NEW k \in Key, NEW b \in Boot, NEW ch \in Channel
  PROVE  LET p == Begun(s, k, b, ch)
         IN  /\ p \in Packet /\ Together(p) /\ p.first <= now /\ now - p.first < Timeout
             /\ OneBoot(p, [receiverBoots EXCEPT ![s] = b])
<1>1. CASE k \in DOMAIN Clean(s, b)
  <2>1. Begun(s, k, b, ch) = Clean(s, b)[k]
    BY <1>1 DEF Begun
  <2>. QED BY <1>1, <2>1, CleanIs
<1>2. CASE k \notin DOMAIN Clean(s, b)
  <2>. DEFINE o == [x \in {} |-> [boot |-> b, at |-> now]]
              p == [channel |-> ch, first |-> now, obs |-> o]
  <2>1. Begun(s, k, b, ch) = p
    BY <1>2 DEF Begun
  <2>2. now \in 0..MaxTime /\ Timeout \in Nat \ {0} /\ now \in Int
    BY Numbers DEF TypeOK
  <2>3. o \in [{} -> Observation] /\ DOMAIN o = {} /\ {} \in SUBSET Slot
    OBVIOUS
  <2>. HIDE DEF o
  <2>4. o \in UNION {[S -> Observation] : S \in SUBSET Slot}
    BY <2>3
  <2>5. p \in Packet
    BY <2>2, <2>4 DEF Packet
  <2>6. p.first = now /\ DOMAIN p.obs = {}
    BY <2>3
  <2>. HIDE DEF p
  <2>7. Together(p) /\ OneBoot(p, [receiverBoots EXCEPT ![s] = b])
    BY <2>6 DEF Together, OneBoot
  <2>. QED BY <2>1, <2>2, <2>5, <2>6, <2>7
<1>. QED BY <1>1, <1>2

LEMMA CountedIs ==
  ASSUME TypeOK, PendingTogether, OneBootPerReceiver,
         NEW s \in Slot, NEW k \in Key, NEW b \in Boot, Gap(k) \in Nat
  PROVE  Counted(s, k, b) \in Metrics /\ Counted(s, k, b).gaps = metrics.gaps + Gap(k)
<1>. DEFINE f == Finalized(metrics, pending, Expired(pending), TRUE)
            x == IF Rebooted(s, b) THEN 1 ELSE 0
            c == Cardinality(Stale(s, b))
            g == Gap(k)
<1>1. /\ IsFiniteSet(DOMAIN pending) /\ metrics \in Metrics /\ Table(pending)
  BY DEF TypeOK, Table
<1>2. IsFiniteSet(Expired(pending))
  <2>1. Expired(pending) \subseteq DOMAIN pending
    BY DEF Expired
  <2>. QED BY <1>1, <2>1, FS_Subset
<1>3. f \in Metrics /\ f.gaps = metrics.gaps
  BY <1>1, <1>2, FinalizedIs
<1>4. c \in Nat
  <2>1. Table(Young)
    BY <1>1, WithoutTable DEF Young
  <2>2. Stale(s, b) \subseteq DOMAIN Young /\ IsFiniteSet(DOMAIN Young)
    BY <2>1, TableIs DEF Stale, Contaminated
  <2>3. IsFiniteSet(Stale(s, b))
    BY <2>2, FS_Subset
  <2>. QED BY <2>3, FS_CardinalityType
<1>5. x \in Nat /\ g \in Nat
  OBVIOUS
<1>6. Counted(s, k, b) = [f EXCEPT !.transitions = @ + x, !.evictions = @ + c, !.gaps = @ + g]
  BY DEF Counted
<1>. HIDE DEF f, x, c, g
<1>7. /\ f.transitions + x \in Nat /\ f.evictions + c \in Nat /\ f.gaps + g \in Nat
  BY <1>3, <1>4, <1>5 DEF Metrics
<1>8. /\ [f EXCEPT !.transitions = @ + x, !.evictions = @ + c, !.gaps = @ + g] \in Metrics
      /\ [f EXCEPT !.transitions = @ + x, !.evictions = @ + c, !.gaps = @ + g].gaps = f.gaps + g
  BY <1>3, <1>7 DEF Metrics
<1>. QED BY <1>3, <1>6, <1>8 DEF g

LEMMA GapType ==
  ASSUME TypeOK, NEW k \in Key
  PROVE  Gap(k) \in Nat
<1>1. Modulus \in Nat \ {0} /\ lastSequence \in Int /\ k \in Int
  BY Numbers DEF TypeOK, Key, NoSeq
<1>2. (k - lastSequence) % Modulus \in Nat
  BY <1>1
<1>. QED BY <1>2 DEF Gap

\* The numbers: the newest one, and what is missing below it.
LEMMA NumbersStep ==
  ASSUME LastIsNewest, NoGapUnnoticed, seen \subseteq Packets, firstSeen \in Packets,
         metrics.gaps \in Nat, NEW n \in Packets, NEW k, k = n % Modulus,
         seen' = seen \cup {n}, firstSeen' = IF seen = {} THEN n ELSE firstSeen,
         lastSequence' = IF lastSequence = NoSeq \/ IsNewer(k, lastSequence)
                         THEN k ELSE lastSequence,
         metrics'.gaps = metrics.gaps + Gap(k)
  PROVE  LastIsNewest' /\ NoGapUnnoticed'
<1>1. /\ Modulus \in Nat \ {0} /\ Half \in Nat /\ Modulus = 2 * Half
      /\ MaxPackets \in Nat \ {0} /\ MaxPackets < Half /\ FirstSeq \in Nat
  BY Numbers
<1>2. /\ Packets \in SUBSET Nat /\ Packets \in SUBSET Int
      /\ \A i, j \in Packets : i - j < Half
  BY <1>1 DEF Packets
<1>3. \A i \in Nat : i % Modulus \in 0..(Modulus - 1)
  BY <1>1
<1>4. NoSeq \notin 0..(Modulus - 1)
  BY <1>1 DEF NoSeq
<1>5. CASE seen = {}
  <2>1. lastSequence = NoSeq /\ seen' = {n} /\ firstSeen' = n /\ lastSequence' = k
    BY <1>5 DEF LastIsNewest
  <2>2. Gap(k) = 0
    BY <2>1 DEF Gap
  <2>3. n \in Int /\ {n} \in SUBSET Int /\ n <= n
    BY <1>2
  <2>4. Max({n}) = n
    BY <2>3, MaxIs
  <2>5. (n..n) \ {n} = {}
    BY <2>3
  <2>6. Cardinality((firstSeen'..Max(seen')) \ seen') = 0
    BY <2>1, <2>4, <2>5, FS_EmptySet
  <2>7. NoGapUnnoticed'
    BY <2>2, <2>6 DEF NoGapUnnoticed
  <2>8. LastIsNewest'
    BY <2>1, <2>3 DEF LastIsNewest
  <2>. QED BY <2>7, <2>8
<1>6. CASE seen # {}
  <2>1. PICK N \in seen : (\A i \in seen : i <= N) /\ lastSequence = N % Modulus
    BY <1>6 DEF LastIsNewest
  <2>2. /\ N \in Packets /\ N \in Nat /\ n \in Nat /\ n \in Int /\ N \in Int
        /\ n - N < Half /\ N - n < Half
        /\ firstSeen \in seen /\ firstSeen' = firstSeen /\ firstSeen <= N
        /\ firstSeen \in Int /\ seen \in SUBSET Int /\ lastSequence # NoSeq
    BY <1>2, <1>3, <1>4, <1>6, <2>1 DEF LastIsNewest
  <2>3. Max(seen) = N
    BY <2>1, <2>2, MaxIs
  <2>. DEFINE D == Delta(Modulus, n, N)
  <2>4. D = IF n >= N THEN n - N ELSE n - N + Modulus
    <3>1. n - N < Modulus /\ N - n < Modulus
      BY <1>1, <2>2
    <3>. QED BY <1>1, <2>2, <3>1, DeltaIs
  <2>5. /\ Gap(k) = IF D > 1 /\ D < Half THEN D - 1 ELSE 0
        /\ IsNewer(k, lastSequence) <=> D \in 1..(Half - 1)
    BY <2>1, <2>2 DEF Gap, IsNewer, Delta
  <2>. HIDE DEF D
  <2>6. Gaps(seen, firstSeen, N) \in Nat
    BY <2>2, GapsType
  <2>7. Gaps(seen, firstSeen, N) <= metrics.gaps
    BY <1>6, <2>3 DEF NoGapUnnoticed, Gaps
  <2>8. CASE n > N
    <3>1. D = n - N /\ D < Half /\ D >= 1 /\ D \in Int
      BY <1>1, <2>2, <2>4, <2>8
    <3>2. Gap(k) = n - N - 1 /\ IsNewer(k, lastSequence)
      BY <1>1, <2>2, <2>5, <3>1
    <3>3. lastSequence' = n % Modulus
      BY <3>2
    <3>4. \A i \in seen' : i <= n
      BY <1>2, <2>1, <2>2, <2>8
    <3>5. LastIsNewest'
      BY <2>2, <3>3, <3>4 DEF LastIsNewest
    <3>6. Max(seen') = n
      <4>1. seen' \in SUBSET Int /\ n \in seen'
        BY <2>2
      <4>. QED BY <3>4, <4>1, MaxIs
    <3>7. Gaps(seen \cup {n}, firstSeen, n) = Gaps(seen, firstSeen, N) + (n - N - 1)
      BY <2>1, <2>2, <2>8, NewerOpens
    <3>8. Gaps(seen \cup {n}, firstSeen, n) <= metrics'.gaps
      BY <2>2, <2>6, <2>7, <2>8, <3>2, <3>7
    <3>9. NoGapUnnoticed'
      BY <2>2, <3>6, <3>8 DEF NoGapUnnoticed, Gaps
    <3>. QED BY <3>5, <3>9
  <2>9. CASE n <= N
    <3>1. D = 0 \/ D >= Half
      BY <1>1, <2>2, <2>4, <2>9
    <3>2. Gap(k) = 0 /\ lastSequence' = lastSequence
      BY <1>1, <2>2, <2>4, <2>5, <3>1
    <3>3. \A i \in seen' : i <= N
      BY <2>1, <2>9
    <3>4. LastIsNewest'
      BY <2>1, <2>2, <3>2, <3>3 DEF LastIsNewest
    <3>5. Max(seen') = N
      <4>1. seen' \in SUBSET Int /\ N \in seen'
        BY <2>2
      <4>. QED BY <3>3, <4>1, MaxIs
    <3>6. Gaps(seen \cup {n}, firstSeen, N) <= Gaps(seen, firstSeen, N)
      BY <2>2, LateFills
    <3>7. Gaps(seen \cup {n}, firstSeen, N) \in Nat
      BY <2>2, GapsType
    <3>8. Gaps(seen \cup {n}, firstSeen, N) <= metrics'.gaps
      BY <2>6, <2>7, <3>2, <3>6, <3>7
    <3>9. NoGapUnnoticed'
      BY <2>2, <3>5, <3>8 DEF NoGapUnnoticed, Gaps
    <3>. QED BY <3>4, <3>9
  <2>. QED BY <2>2, <2>8, <2>9
<1>. QED BY <1>5, <1>6

-----------------------------------------------------------------------------
(* The invariant of the joint path.                                        *)

LEMMA JointStarts == Init => JointIInv
<1>. SUFFICES ASSUME Init PROVE JointIInv
  OBVIOUS
<1>1. /\ MaxTime \in Nat /\ MaxBoots \in Nat \ {0} /\ MaxInputs \in Nat
      /\ MaxPending \in Nat /\ WindowPackets \in Nat
      /\ MaxPackets \in Nat \ {0} /\ FirstSeq \in Nat
  BY Numbers
<1>2. /\ 0 \in 0..MaxTime /\ 1 \in Boot /\ 0 \in 0..MaxInputs /\ FirstSeq \in Packets
  BY <1>1 DEF Boot, Packets
<1>3. DOMAIN pending = {} /\ (\E K \in SUBSET Key : pending \in [K -> Packet])
  <2>1. pending \in [{} -> Packet] /\ {} \in SUBSET Key
    BY DEF Init
  <2>. QED BY <2>1
<1>4. IsFiniteSet(DOMAIN pending) /\ Cardinality(DOMAIN pending) <= MaxPending
  BY <1>1, <1>3, FS_EmptySet
<1>5. metrics \in Metrics /\ metrics.gaps = 0
  BY DEF Init, Metrics, NoMetrics
<1>6. TypeOK
  <2>1. /\ window \in Seq(Packet) /\ Len(window) <= WindowPackets
        /\ returned \in Seq([key : Key, count : 0..Full])
        /\ prediction \in {"none", "accepted", "rejected"}
    BY <1>1 DEF Init
  <2>2. /\ now \in 0..MaxTime /\ inputs \in 0..MaxInputs /\ bootOf \in [Slot -> Boot]
        /\ receiverBoots \in [Slot -> Boot \cup {NoBoot}]
        /\ lastSequence \in Key \cup {NoSeq} /\ seen \subseteq Packets /\ firstSeen \in Packets
    BY <1>2 DEF Init
  <2>. QED BY <1>3, <1>4, <1>5, <2>1, <2>2 DEF TypeOK
<1>7. PendingTogether /\ OneBootPerReceiver
  BY <1>3 DEF PendingTogether, OneBootPerReceiver
<1>8. WindowTogether /\ LastIsNewest /\ NoGapUnnoticed
  BY DEF Init, WindowTogether, LastIsNewest, NoGapUnnoticed
<1>. QED BY <1>6, <1>7, <1>8 DEF JointIInv

LEMMA ObserveStep ==
  ASSUME JointIInv, NEW s \in Slot, NEW n \in Packets, NEW b \in Boot,
         NEW ch \in Channel, Observe(s, n, b, ch)
  PROVE  JointIInv'
<1>. DEFINE k == n % Modulus
            c == Clean(s, b)
            p == Begun(s, k, b, ch)
            q == Joined(p, s, [boot |-> b, at |-> now])
            m == Counted(s, k, b)
            boots == [receiverBoots EXCEPT ![s] = b]
<1>1. /\ TypeOK /\ PendingTogether /\ WindowTogether /\ OneBootPerReceiver
      /\ LastIsNewest /\ NoGapUnnoticed
  BY DEF JointIInv
<1>2. k \in Key
  <2>1. n \in Nat /\ Modulus \in Nat \ {0}
    BY Numbers DEF Packets
  <2>. QED BY <2>1 DEF Key
<1>3. /\ Gap(k) \in Nat /\ m \in Metrics /\ m.gaps = metrics.gaps + Gap(k)
  BY <1>1, <1>2, GapType, CountedIs
<1>4. /\ Table(c) /\ Cardinality(DOMAIN c) <= MaxPending
      /\ \A j \in DOMAIN c : /\ c[j] \in Packet /\ Together(c[j]) /\ c[j].first <= now
                            /\ OneBoot(c[j], boots)
  BY <1>1, CleanIs
<1>5. /\ p \in Packet /\ Together(p) /\ p.first <= now /\ now - p.first < Timeout
      /\ OneBoot(p, boots)
  BY <1>1, <1>2, BegunIs
<1>6. /\ inputs < MaxInputs /\ inputs' = inputs + 1 /\ receiverBoots' = boots
      /\ lastSequence' = IF lastSequence = NoSeq \/ IsNewer(k, lastSequence)
                         THEN k ELSE lastSequence
      /\ seen' = seen \cup {n} /\ firstSeen' = IF seen = {} THEN n ELSE firstSeen
      /\ now' = now /\ bootOf' = bootOf
      /\ \/ /\ metrics' \in {[m EXCEPT !.mismatches = @ + 1], [m EXCEPT !.duplicates = @ + 1]}
            /\ pending' = c /\ DeliverNothing
         \/ s \notin DOMAIN p.obs /\ Store(c, k, q, m)
  BY ObserveIs
<1>7. /\ now \in 0..MaxTime /\ receiverBoots \in [Slot -> Boot \cup {NoBoot}]
      /\ inputs \in 0..MaxInputs /\ MaxInputs \in Nat /\ bootOf \in [Slot -> Boot]
      /\ lastSequence \in Key \cup {NoSeq} /\ seen \subseteq Packets /\ firstSeen \in Packets
      /\ metrics.gaps \in Nat
  BY <1>1, Numbers DEF TypeOK, Metrics
<1>8. s \notin DOMAIN p.obs
        => q \in Packet /\ Together(q) /\ q.first <= now /\ OneBoot(q, boots)
  <2>1. [boot |-> b, at |-> now] \in Observation
    BY <1>7 DEF Observation
  <2>2. q \in Packet /\ q.first = p.first
    BY <1>5, <2>1, JoinedIs
  <2>3. ASSUME s \notin DOMAIN p.obs
        PROVE  Together(q) /\ OneBoot(q, boots)
    BY <1>5, <1>7, <2>3, JoinedTogether
  <2>. HIDE DEF q
  <2>. QED BY <1>5, <2>2, <2>3
<1>. HIDE DEF k, c, p, q, m, boots
<1>9. /\ now' \in 0..MaxTime /\ inputs' \in 0..MaxInputs /\ bootOf' \in [Slot -> Boot]
      /\ lastSequence' \in Key \cup {NoSeq} /\ seen' \subseteq Packets /\ firstSeen' \in Packets
  BY <1>2, <1>6, <1>7
<1>10. receiverBoots' \in [Slot -> Boot \cup {NoBoot}]
  BY <1>6, <1>7 DEF boots
\* The table, the metrics, and what the runtime was given.
<1>11. /\ Table(pending') /\ Cardinality(DOMAIN pending') <= MaxPending
       /\ metrics' \in Metrics /\ metrics'.gaps = metrics.gaps + Gap(k)
       /\ \A j \in DOMAIN pending' :
            Together(pending'[j]) /\ pending'[j].first <= now /\ OneBoot(pending'[j], boots)
       /\ \/ DeliverNothing
          \/ \E j \in Key, r \in Packet : Together(r) /\ Deliver(j, r)
  <2>1. CASE /\ metrics' \in {[m EXCEPT !.mismatches = @ + 1], [m EXCEPT !.duplicates = @ + 1]}
             /\ pending' = c /\ DeliverNothing
    <3>1. metrics' \in Metrics /\ metrics'.gaps = m.gaps
      BY <1>3, <2>1 DEF Metrics
    <3>. QED BY <1>3, <1>4, <2>1, <3>1
  <2>2. CASE s \notin DOMAIN p.obs /\ Store(c, k, q, m)
    <3>1. q \in Packet /\ Together(q) /\ q.first <= now /\ OneBoot(q, boots)
      BY <1>8, <2>2
    <3>2. /\ Table(pending') /\ Cardinality(DOMAIN pending') <= MaxPending
          /\ \A j \in DOMAIN pending' : \/ pending'[j] = q
                                        \/ j \in DOMAIN c /\ pending'[j] = c[j]
          /\ metrics' \in Metrics /\ metrics'.gaps = m.gaps
          /\ \/ DeliverNothing
             \/ Deliver(k, q)
             \/ \E j \in DOMAIN c : Deliver(j, c[j])
      BY <1>2, <1>3, <1>4, <2>2, <3>1, StoreIs
    <3>3. DOMAIN c \subseteq Key
      BY <1>4, TableIs
    <3>4. \/ DeliverNothing
          \/ \E j \in Key, r \in Packet : Together(r) /\ Deliver(j, r)
      BY <1>2, <1>4, <3>1, <3>2, <3>3, Zenon
    <3>5. \A j \in DOMAIN pending' :
            Together(pending'[j]) /\ pending'[j].first <= now /\ OneBoot(pending'[j], boots)
      BY <1>4, <3>1, <3>2, Zenon
    <3>. QED BY <1>3, <3>2, <3>4, <3>5, Zenon
  <2>. QED BY <1>6, <2>1, <2>2
<1>12. /\ window' \in Seq(Packet) /\ Len(window') <= WindowPackets /\ WindowTogether'
       /\ returned' \in Seq([key : Key, count : 0..Full])
       /\ prediction' \in {"none", "accepted", "rejected"}
  <2>1. CASE DeliverNothing
    BY <1>1, <2>1 DEF DeliverNothing, TypeOK, WindowTogether
  <2>2. CASE \E j \in Key, r \in Packet : Together(r) /\ Deliver(j, r)
    BY <1>1, <2>2, DeliverIs
  <2>. QED BY <1>11, <2>1, <2>2
<1>13. TypeOK'
  BY <1>9, <1>10, <1>11, <1>12 DEF TypeOK, Table
<1>14. PendingTogether' /\ OneBootPerReceiver'
  BY <1>6, <1>11 DEF PendingTogether, OneBootPerReceiver, OneBoot
<1>15. LastIsNewest' /\ NoGapUnnoticed'
  BY <1>1, <1>6, <1>7, <1>11, NumbersStep DEF k
<1>. QED BY <1>12, <1>13, <1>14, <1>15 DEF JointIInv

LEMMA JointStep == JointIInv /\ [Next]_vars => JointIInv'
<1>. SUFFICES ASSUME JointIInv, [Next]_vars PROVE JointIInv'
  OBVIOUS
<1>1. /\ TypeOK /\ PendingTogether /\ WindowTogether /\ OneBootPerReceiver
      /\ LastIsNewest /\ NoGapUnnoticed
  BY DEF JointIInv
\* The clock, a restart or nothing: the aligner is left alone.
<1>2. ASSUME UNCHANGED <<inputs, seen, firstSeen, pending, receiverBoots, lastSequence,
                         metrics, window, prediction, returned>>,
             now' \in 0..MaxTime, now' >= now, bootOf' \in [Slot -> Boot]
      PROVE  JointIInv'
  <2>1. TypeOK'
    BY <1>1, <1>2 DEF TypeOK
  <2>2. WindowTogether' /\ OneBootPerReceiver' /\ LastIsNewest' /\ NoGapUnnoticed'
    BY <1>1, <1>2 DEF WindowTogether, OneBootPerReceiver, LastIsNewest, NoGapUnnoticed
  <2>3. PendingTogether'
    <3>1. /\ now \in Int /\ now' \in Int
          /\ \A j \in DOMAIN pending : pending[j].first \in Int
      <4>1. now \in 0..MaxTime /\ now' \in 0..MaxTime /\ Table(pending)
        BY <1>1, <1>2 DEF TypeOK, Table
      <4>2. \A j \in DOMAIN pending : pending[j].first \in 0..MaxTime
        BY <4>1, TableIs, PacketIs
      <4>. QED BY <4>1, <4>2
    <3>2. \A j \in DOMAIN pending : pending[j].first <= now'
      BY <1>1, <1>2, <3>1 DEF PendingTogether
    <3>. QED BY <1>1, <1>2, <3>2 DEF PendingTogether
  <2>. QED BY <2>1, <2>2, <2>3 DEF JointIInv
<1>3. /\ now \in 0..MaxTime /\ MaxTime \in Nat /\ bootOf \in [Slot -> Boot]
      /\ MaxBoots \in Nat \ {0}
  BY <1>1, Numbers DEF TypeOK
<1>4. CASE Tick
  <2>1. now' = now + 1 /\ now < MaxTime /\ bootOf' = bootOf
    BY <1>4 DEF Tick, envVars
  <2>2. now' \in 0..MaxTime /\ now' >= now
    BY <1>3, <2>1
  <2>. QED BY <1>2, <1>3, <1>4, <2>1, <2>2 DEF Tick, envVars
<1>5. ASSUME NEW s \in Slot, Restart(s)
      PROVE  JointIInv'
  <2>1. /\ bootOf[s] < MaxBoots /\ bootOf' = [bootOf EXCEPT ![s] = bootOf[s] + 1]
        /\ now' = now
    BY <1>5 DEF Restart
  <2>2. bootOf[s] + 1 \in Boot
    BY <1>3, <2>1 DEF Boot
  <2>3. bootOf' \in [Slot -> Boot] /\ now' \in 0..MaxTime /\ now' >= now
    BY <1>3, <2>1, <2>2
  <2>. QED BY <1>2, <1>5, <2>3 DEF Restart
<1>6. CASE Input
  <2>1. PICK s \in Slot, n \in Packets, ch \in Channel :
          \E b \in 1..bootOf[s] : Observe(s, n, b, ch)
    BY <1>6 DEF Input
  <2>2. PICK b \in 1..bootOf[s] : Observe(s, n, b, ch)
    BY <2>1
  <2>3. b \in Boot
    <3>1. bootOf[s] \in 1..MaxBoots
      BY <1>3 DEF Boot
    <3>. QED BY <1>3, <3>1 DEF Boot
  <2>. QED BY <2>2, <2>3, ObserveStep
<1>7. CASE UNCHANGED vars
  <2>1. /\ UNCHANGED <<inputs, seen, firstSeen, pending, receiverBoots, lastSequence,
                       metrics, window, prediction, returned>>
        /\ now' = now /\ bootOf' = bootOf
    BY <1>7 DEF vars, envVars
  <2>2. now' \in 0..MaxTime /\ now' >= now /\ bootOf' \in [Slot -> Boot]
    BY <1>3, <2>1
  <2>. QED BY <1>2, <2>1, <2>2
<1>. QED BY <1>4, <1>5, <1>6, <1>7 DEF Next

\* The inductive invariant of the aligner and the live runtime: with the type
\* invariant, the bound on the packets being aligned (enforceBound removes one
\* and needs no more).
THEOREM JointInductive == Spec => []JointIInv
BY JointStarts, JointStep, PTL DEF Spec

\* Every packet of a feature window has enough observations, and any two came
\* within the timeout of each other, whatever the order and number of arrivals.
THEOREM JointIsTogether == Spec => []JointMeansTogether
<1>1. JointIInv => JointMeansTogether
  <2>. SUFFICES ASSUME JointIInv, NEW i \in 1..Len(window)
       PROVE  /\ Count(window[i]) >= MinReceivers
              /\ \A s, t \in DOMAIN window[i].obs :
                   window[i].obs[s].at - window[i].obs[t].at < Timeout
    BY Zenon DEF JointMeansTogether
  <2>1. Together(window[i]) /\ Count(window[i]) >= MinReceivers
    BY Zenon DEF JointIInv, WindowTogether
  <2>2. window[i] \in Packet
    BY DEF JointIInv, TypeOK
  <2>3. window[i].first \in 0..MaxTime /\ window[i].obs \in [DOMAIN window[i].obs -> Observation]
    BY <2>2, PacketIs
  <2>4. ASSUME NEW s \in DOMAIN window[i].obs, NEW t \in DOMAIN window[i].obs
        PROVE  window[i].obs[s].at - window[i].obs[t].at < Timeout
    <3>1. /\ window[i].obs[s].at \in 0..MaxTime /\ window[i].obs[t].at \in 0..MaxTime
          /\ Timeout \in Nat \ {0}
      BY <2>3, Numbers DEF Observation
    <3>2. /\ window[i].obs[s].at - window[i].first \in 0..(Timeout - 1)
          /\ window[i].obs[t].at - window[i].first \in 0..(Timeout - 1)
      BY <2>1 DEF Together
    <3>. QED BY <2>3, <3>1, <3>2
  <2>. QED BY <2>1, <2>4
<1>. QED BY <1>1, JointInductive, PTL

\* A packet is never joined by observations of two boots of a receiver
\* (dropPacketsContaining).
THEOREM PacketsOfOneBoot == Spec => []OneBootPerReceiver
<1>1. JointIInv => OneBootPerReceiver
  BY DEF JointIInv
<1>. QED BY <1>1, JointInductive, PTL

\* No number the transmitter used goes missing without being counted
\* (JointPacketAligner.add).
THEOREM GapsAreCounted == Spec => []NoGapUnnoticed
<1>1. JointIInv => NoGapUnnoticed
  BY DEF JointIInv
<1>. QED BY <1>1, JointInductive, PTL

-----------------------------------------------------------------------------
(* The engine's runtimes.                                                  *)

LEMMA EngineNumbers ==
  /\ Window \in Nat /\ Window >= 2 /\ Required \in Nat \ {0}
  /\ SeqModulus \in Nat \ {0} /\ None \notin Stream
  /\ MaxBoot \in Nat \ {0} /\ MaxSent \in Nat /\ MaxGrams \in Nat /\ MaxSwitch \in Nat
  /\ \A b \in BootId, i \in 0..MaxSent : StreamOf(b, i) \in Stream
BY EngineAssumption DEF EngineAssumption, BootId

LEMMA FrameIs ==
  ASSUME NEW b \in BootId, NEW i \in 0..MaxSent
  PROVE  /\ FrameAt(b, i) \in Frame
         /\ FrameAt(b, i).boot = b /\ FrameAt(b, i).stream \in Stream
BY EngineNumbers DEF Frame, FrameAt

LEMMA RuntimeIs ==
  ASSUME NEW r \in Runtime
  PROVE  /\ r.boot \in BootId \cup {None} /\ r.last \in (0..MaxSent) \cup {None}
         /\ r.missing \in Nat /\ r.grams \in Nat /\ r.canon \in Stream \cup {None}
         /\ r.window \in Seq(Frame) /\ r.seen \in Frame \cup {NoFrame}
         /\ r.samples \in 0..Required /\ r.votes \in (0..2) \X (0..4)
         /\ r.taught \in SUBSET Verdict
BY DEF Runtime

LEMMA ResetIs ==
  ASSUME NEW r \in Runtime
  PROVE  LET t == ResetRuntime(r)
         IN  /\ t \in Runtime
             /\ t.known = r.known /\ t.boot = r.boot /\ t.grams = r.grams
             /\ t.canon = None /\ t.window = <<>> /\ t.seen = NoFrame
             /\ t.samples = 0 /\ t.votes = <<0, 0>> /\ t.taught = {} /\ ~t.ready
<1>1. 0 \in 0..Required /\ <<0, 0>> \in (0..2) \X (0..4)
  BY EngineNumbers
<1>2. <<>> \in Seq(Frame) /\ {} \in SUBSET Verdict
  OBVIOUS
<1>. QED BY <1>1, <1>2 DEF ResetRuntime, Runtime

\* A runtime that holds nothing yet.
LEMMA EmptyIs ==
  ASSUME NEW t \in Runtime, t.canon = None, t.window = <<>>, t.taught = {}
  PROVE  OfOneStream(t)
BY DEF OfOneStream

LEMMA EnterIs ==
  ASSUME NEW r \in Runtime, NEW b \in BootId
  PROVE  LET t == Enter(r, b)
         IN  /\ t \in Runtime /\ t.known /\ t.boot = b /\ t.grams = r.grams
             /\ OfOneStream(r) => OfOneStream(t)
             /\ \A byModel : Earned(r, byModel) => Earned(t, byModel)
             /\ Current(r) => Current(t)
<1>. DEFINE t == Enter(r, b)
<1>1. CASE ~r.known
  <2>1. t = [r EXCEPT !.known = TRUE, !.boot = b]
    BY <1>1 DEF Enter
  <2>2. /\ t \in Runtime /\ t.known /\ t.boot = b /\ t.grams = r.grams
        /\ t.canon = r.canon /\ t.window = r.window /\ t.taught = r.taught
        /\ t.samples = r.samples /\ t.seen = r.seen /\ (t.ready <=> r.ready)
    BY <2>1 DEF Runtime
  <2>. HIDE DEF t
  <2>3. OfOneStream(r) => OfOneStream(t)
    BY <1>1, <2>2, EmptyIs DEF OfOneStream
  <2>4. \A byModel : Earned(r, byModel) => Earned(t, byModel)
    BY <2>2 DEF Earned
  <2>5. Current(r) => Current(t)
    BY <2>2 DEF Current, Seen
  <2>. QED BY <2>2, <2>3, <2>4, <2>5 DEF t
<1>2. CASE r.known /\ r.boot # b
  <2>. DEFINE z == ResetRuntime(r)
  <2>1. t = [z EXCEPT !.boot = b, !.last = None, !.missing = 0]
    BY <1>2 DEF Enter
  <2>2. /\ z \in Runtime
        /\ z.known = r.known /\ z.grams = r.grams
        /\ z.canon = None /\ z.window = <<>> /\ z.seen = NoFrame
        /\ z.samples = 0 /\ z.votes = <<0, 0>> /\ z.taught = {} /\ ~z.ready
    BY ResetIs
  <2>. HIDE DEF z, t
  <2>3. /\ t \in Runtime /\ t.known /\ t.boot = b /\ t.grams = r.grams
        /\ t.canon = None /\ t.window = <<>> /\ t.taught = {}
        /\ t.samples = 0 /\ t.seen = NoFrame /\ ~t.ready
    BY <1>2, <2>1, <2>2 DEF Runtime
  <2>4. OfOneStream(t)
    BY <2>3, EmptyIs
  <2>5. Current(t) /\ \A byModel : Earned(t, byModel)
    BY <2>3 DEF Earned, Current
  <2>. QED BY <2>3, <2>4, <2>5 DEF t
<1>3. CASE r.known /\ r.boot = b
  BY <1>3 DEF Enter
<1>. QED BY <1>1, <1>2, <1>3

LEMMA TrackIs ==
  ASSUME NEW r \in Runtime, NEW seq \in 0..MaxSent
  PROVE  LET t == TrackSequence(r, seq)
         IN  /\ t \in Runtime /\ t.known = r.known /\ t.boot = r.boot /\ t.grams = r.grams
             /\ t.canon = r.canon /\ t.window = r.window /\ t.seen = r.seen
             /\ t.samples = r.samples /\ t.votes = r.votes /\ t.taught = r.taught
             /\ (t.ready <=> r.ready)
<1>. DEFINE delta == (seq + SeqModulus - r.last) % SeqModulus
<1>1. CASE TrackSequence(r, seq) = r
  BY <1>1
<1>2. CASE r.last = None /\ TrackSequence(r, seq) = [r EXCEPT !.last = seq]
  BY <1>2 DEF Runtime
<1>3. CASE /\ r.last # None /\ delta # 0
           /\ TrackSequence(r, seq) = [r EXCEPT !.missing = @ + delta - 1, !.last = seq]
  <2>1. r.last \in 0..MaxSent /\ r.missing \in Nat
    BY <1>3, RuntimeIs
  <2>2. SeqModulus \in Nat \ {0} /\ MaxSent \in Nat
    BY EngineNumbers
  <2>3. delta \in Nat
    BY <2>1, <2>2
  <2>4. r.missing + delta - 1 \in Nat
    BY <1>3, <2>1, <2>3
  <2>. HIDE DEF delta
  <2>. QED BY <1>3, <2>4 DEF Runtime
<1>. QED BY <1>1, <1>2, <1>3 DEF TrackSequence

LEMMA RecentIs ==
  ASSUME NEW s \in Seq(Frame), Len(s) > 0
  PROVE  /\ Recent(s) \in Seq(Frame) /\ Len(Recent(s)) > 0
         /\ \A i \in 1..Len(Recent(s)) : \E j \in 1..Len(s) : Recent(s)[i] = s[j]
<1>1. Window \in Nat /\ Window >= 2 /\ Len(s) \in Nat
  BY EngineNumbers
<1>2. CASE Len(s) > Window
  <2>. DEFINE a == Len(s) - Window + 1
  <2>1. Recent(s) = SubSeq(s, a, Len(s)) /\ a \in 1..Len(s)
    BY <1>1, <1>2 DEF Recent
  <2>. HIDE DEF a
  <2>2. /\ SubSeq(s, a, Len(s)) \in Seq(Frame)
        /\ Len(SubSeq(s, a, Len(s))) = Len(s) - a + 1
        /\ \A i \in 1..(Len(s) - a + 1) : SubSeq(s, a, Len(s))[i] = s[a + i - 1]
    BY <2>1
  <2>3. \A i \in 1..(Len(s) - a + 1) : a + i - 1 \in 1..Len(s)
    BY <2>1
  <2>. QED BY <1>1, <2>1, <2>2, <2>3
<1>3. CASE ~(Len(s) > Window)
  BY <1>3 DEF Recent
<1>. QED BY <1>2, <1>3

\* What the input buffer takes is of the runtime's boot and canonical stream.
LEMMA BufferIs ==
  ASSUME NEW r \in Runtime, NEW f \in Frame, f.boot = r.boot, f.stream \in Stream, r.known,
         OfOneStream(r), NEW controlled \in BOOLEAN, NEW late \in BOOLEAN
  PROVE  LET t == Buffer(r, f, controlled, late)
         IN  /\ t \in Runtime /\ t.known /\ t.boot = r.boot /\ t.grams = r.grams + 1
             /\ t.samples = r.samples /\ t.taught = r.taught /\ (t.ready <=> r.ready)
             /\ OfOneStream(t)
<1>. DEFINE canon == IF r.canon = None /\ controlled THEN f.stream ELSE r.canon
            shaped == r.shaped \/ canon # None
            count == [r EXCEPT !.grams = r.grams + 1, !.canon = canon, !.shaped = shaped]
            w == Recent(Append(r.window, f))
            t == Buffer(r, f, controlled, late)
<1>1. /\ r.window \in Seq(Frame) /\ r.grams \in Nat /\ r.canon \in Stream \cup {None}
      /\ None \notin Stream
  BY RuntimeIs, EngineNumbers
<1>2. canon \in Stream \cup {None} /\ (r.canon = None \/ canon = r.canon)
      /\ (canon = None => r.canon = None)
  BY <1>1
<1>3. /\ canon # f.stream => t = count
      /\ canon = f.stream => t = [count EXCEPT !.window = w, !.late = late \/ Len(r.window) = 0]
  BY DEF Buffer, Runtime
<1>4. /\ shaped \in BOOLEAN /\ (late \/ Len(r.window) = 0) \in BOOLEAN
      /\ r.grams + 1 \in Nat
  BY <1>1
<1>. HIDE DEF canon, shaped
<1>5. /\ count \in Runtime /\ count.known = r.known /\ count.boot = r.boot
      /\ count.grams = r.grams + 1 /\ count.canon = canon /\ count.window = r.window
      /\ count.samples = r.samples /\ count.taught = r.taught /\ (count.ready <=> r.ready)
  BY <1>1, <1>2, <1>4 DEF Runtime
<1>6. /\ w \in Seq(Frame) /\ Len(w) > 0
      /\ \A i \in 1..Len(w) : w[i] = f \/ \E j \in 1..Len(r.window) : w[i] = r.window[j]
  <2>. DEFINE a == Append(r.window, f)
  <2>1. /\ a \in Seq(Frame) /\ Len(a) = Len(r.window) + 1 /\ Len(r.window) \in Nat
        /\ a[Len(r.window) + 1] = f
        /\ \A j \in 1..Len(r.window) : a[j] = r.window[j]
    BY <1>1
  <2>2. \A j \in 1..Len(a) : j = Len(r.window) + 1 \/ j \in 1..Len(r.window)
    BY <2>1
  <2>. HIDE DEF a
  <2>3. /\ Recent(a) \in Seq(Frame) /\ Len(Recent(a)) > 0
        /\ \A i \in 1..Len(Recent(a)) : \E j \in 1..Len(a) : Recent(a)[i] = a[j]
    BY <2>1, RecentIs
  <2>4. \A i \in 1..Len(Recent(a)) :
          Recent(a)[i] = f \/ \E j \in 1..Len(r.window) : Recent(a)[i] = r.window[j]
    BY <2>1, <2>2, <2>3
  <2>. QED BY <2>3, <2>4 DEF a
<1>. HIDE DEF count, w, t
<1>7. CASE canon # f.stream
  <2>1. \/ canon = r.canon
        \/ r.window = <<>> /\ r.taught = {}
    BY <1>2 DEF OfOneStream
  <2>2. OfOneStream(count)
    BY <1>2, <1>5, <2>1 DEF OfOneStream
  <2>. QED BY <1>3, <1>5, <1>7, <2>2 DEF t
<1>8. CASE canon = f.stream
  <2>1. /\ t \in Runtime /\ t.known /\ t.boot = r.boot /\ t.grams = r.grams + 1
        /\ t.canon = canon /\ t.window = w
        /\ t.samples = r.samples /\ t.taught = r.taught /\ (t.ready <=> r.ready)
    BY <1>3, <1>4, <1>5, <1>6, <1>8 DEF Runtime
  <2>2. canon # None
    BY <1>1, <1>8
  <2>3. \A j \in 1..Len(r.window) : r.window[j].boot = r.boot /\ r.window[j].stream = canon
    BY <1>2, <1>1 DEF OfOneStream
  <2>4. r.taught \subseteq {<<r.boot, canon>>}
    BY <1>2 DEF OfOneStream
  <2>5. \A i \in 1..Len(w) : w[i].boot = r.boot /\ w[i].stream = canon
    BY <1>6, <1>8, <2>3
  <2>6. OfOneStream(t)
    BY <2>1, <2>2, <2>4, <2>5 DEF OfOneStream
  <2>. QED BY <2>1, <2>6 DEF t
<1>. QED BY <1>7, <1>8

\* The frames a verdict rests on are of the runtime's boot and stream.
LEMMA AmplitudesAre ==
  ASSUME NEW r \in Runtime, OfOneStream(r)
  PROVE  /\ AmplitudesOf(r) \subseteq {<<r.boot, r.canon>>}
         /\ AmplitudesOf(r) \in SUBSET Verdict
         /\ Len(r.window) > 0 => AmplitudesOf(r) # {}
<1>1. r.window \in Seq(Frame) /\ Len(r.window) \in Nat /\ DOMAIN r.window = 1..Len(r.window)
  BY RuntimeIs
<1>2. AmplitudesOf(r) \subseteq {<<r.boot, r.canon>>}
  BY <1>1 DEF AmplitudesOf, OfOneStream
<1>3. <<r.boot, r.canon>> \in Verdict
  BY RuntimeIs DEF Verdict
<1>4. Len(r.window) > 0 => AmplitudesOf(r) # {}
  <2>1. ASSUME Len(r.window) > 0 PROVE AmplitudesOf(r) # {}
    <3>1. 1 \in DOMAIN r.window
      BY <1>1, <2>1
    <3>2. <<r.window[1].boot, r.window[1].stream>> \in AmplitudesOf(r)
      BY <3>1 DEF AmplitudesOf
    <3>. QED BY <3>2
  <2>. QED BY <2>1
<1>. QED BY <1>2, <1>3, <1>4

\* What the classifier leaves of a runtime that it looked at.
Looked(r, t) ==
  /\ t \in Runtime
  /\ t.known = r.known /\ t.boot = r.boot /\ t.grams = r.grams /\ t.canon = r.canon
  /\ t.window = r.window /\ t.seen = r.seen

LEMMA ClassifyIs ==
  ASSUME NEW r \in Runtime, OfOneStream(r), Earned(r, model), NEW band \in Band
  PROVE  LET t == Classify(r, band)
         IN  /\ Looked(r, t)
             /\ t.taught \subseteq {<<r.boot, r.canon>>} /\ r.taught \subseteq t.taught
             /\ (t.taught = {} => r.taught = {})
             /\ r.window = <<>> => t.taught = r.taught
             /\ Earned(t, model)
<1>. DEFINE t == Classify(r, band)
            A == AmplitudesOf(r)
<1>1. /\ A \subseteq {<<r.boot, r.canon>>} /\ A \in SUBSET Verdict
      /\ Len(r.window) > 0 => A # {}
      /\ r.taught \subseteq {<<r.boot, r.canon>>} /\ r.taught \in SUBSET Verdict
      /\ r.samples \in 0..Required /\ Required \in Nat \ {0} /\ Len(r.window) \in Nat
      /\ r.votes \in (0..2) \X (0..4)
      /\ (r.samples > 0 => r.taught # {})
      /\ (r.window = <<>> => Len(r.window) < 2)
  BY AmplitudesAre, RuntimeIs, EngineNumbers DEF OfOneStream, Earned
<1>2. CASE Len(r.window) < 2
  <2>. DEFINE e == r.samples >= Required
  <2>1. t = [r EXCEPT !.ready = e] /\ e \in BOOLEAN
    BY <1>2 DEF Classify
  <2>2. e => r.samples >= Required
    OBVIOUS
  <2>. HIDE DEF e, t
  <2>3. /\ Looked(r, t) /\ t.taught = r.taught /\ t.samples = r.samples /\ (t.ready <=> e)
    BY <2>1 DEF Looked, Runtime
  <2>. QED BY <1>1, <2>2, <2>3 DEF Earned, t
<1>3. CASE ~(Len(r.window) < 2) /\ model /\ Len(r.window) >= Window
  <2>1. t = [r EXCEPT !.ready = TRUE]
    BY <1>3 DEF Classify
  <2>. HIDE DEF t
  <2>2. Looked(r, t) /\ t.taught = r.taught /\ t.samples = r.samples
    BY <2>1 DEF Looked, Runtime
  <2>. QED BY <1>1, <1>3, <2>2 DEF Earned, t
<1>4. CASE ~(Len(r.window) < 2) /\ ~(model /\ Len(r.window) >= Window) /\ r.samples < Required
  <2>. DEFINE e == r.samples + 1 >= Required
              B == r.taught \cup A
  <2>1. t = [r EXCEPT !.samples = r.samples + 1, !.ready = e, !.taught = B]
    BY <1>4 DEF Classify, Runtime
  <2>2. /\ r.samples + 1 \in 0..Required /\ e \in BOOLEAN /\ B \in SUBSET Verdict
        /\ B \subseteq {<<r.boot, r.canon>>} /\ r.taught \subseteq B /\ B # {}
    BY <1>1, <1>4
  <2>3. e => r.samples + 1 >= Required
    OBVIOUS
  <2>. HIDE DEF e, t, B
  <2>4. /\ Looked(r, t) /\ t.taught = B /\ t.samples = r.samples + 1 /\ (t.ready <=> e)
    BY <2>1, <2>2 DEF Looked, Runtime
  <2>. QED BY <1>1, <1>4, <2>2, <2>3, <2>4 DEF Earned, t
<1>5. CASE ~(Len(r.window) < 2) /\ ~(model /\ Len(r.window) >= Window) /\ ~(r.samples < Required)
  <2>. DEFINE up == IF band = "high" THEN r.votes[1] + 1 ELSE IF band = "low" THEN 0 ELSE r.votes[1]
              dn == IF band = "low" THEN r.votes[2] + 1 ELSE IF band = "high" THEN 0 ELSE r.votes[2]
              on == (up >= 2 \/ r.active) /\ dn < 4
              v == <<IF up > 2 THEN 2 ELSE up, IF dn > 4 THEN 4 ELSE dn>>
              B == r.taught \cup A
  <2>1. t = [r EXCEPT !.votes = v, !.active = on, !.ready = TRUE, !.taught = B]
    BY <1>5 DEF Classify, Vote, Runtime
  <2>2. v \in (0..2) \X (0..4)
    <3>1. r.votes[1] \in 0..2 /\ r.votes[2] \in 0..4
      BY <1>1
    <3>2. up \in 0..3 /\ dn \in 0..5
      BY <3>1
    <3>. HIDE DEF up, dn
    <3>. QED BY <3>2
  <2>3. on \in BOOLEAN
    OBVIOUS
  <2>4. /\ B \in SUBSET Verdict
        /\ B \subseteq {<<r.boot, r.canon>>} /\ r.taught \subseteq B /\ B # {}
    BY <1>1, <1>5
  <2>. HIDE DEF t, B, on, v
  <2>5. Looked(r, t) /\ t.taught = B /\ t.samples = r.samples
    BY <2>1, <2>2, <2>3, <2>4 DEF Looked, Runtime
  <2>. QED BY <1>1, <1>5, <2>4, <2>5 DEF Earned, t
<1>. QED BY <1>2, <1>3, <1>4, <1>5

LEMMA EvaluateIs ==
  ASSUME NEW r \in Runtime, OfOneStream(r), Earned(r, model), NEW band \in Band
  PROVE  LET t == Evaluate(r, band)
         IN  /\ t \in Runtime /\ t.grams = r.grams
             /\ OfOneStream(t) /\ Earned(t, model) /\ Current(t)
             /\ Seen(r) => t = r
<1>1. CASE Seen(r)
  BY <1>1 DEF Evaluate, Current
<1>2. CASE ~Seen(r)
  <2>. DEFINE s == r.window[Len(r.window)]
              z == [r EXCEPT !.seen = s]
              t == Evaluate(r, band)
  <2>1. /\ r.window \in Seq(Frame) /\ r.window # <<>>
    BY <1>2, RuntimeIs DEF Seen
  <2>2. s \in Frame
    BY <2>1
  <2>3. t = Classify(z, band)
    BY <1>2 DEF Evaluate
  <2>. HIDE DEF s
  <2>4. /\ z \in Runtime /\ z.known = r.known /\ z.boot = r.boot /\ z.grams = r.grams
        /\ z.canon = r.canon /\ z.window = r.window /\ z.seen = s
        /\ z.samples = r.samples /\ z.taught = r.taught /\ (z.ready <=> r.ready)
    BY <2>2 DEF Runtime
  <2>. HIDE DEF z, t
  <2>5. OfOneStream(z)
    BY <2>4 DEF OfOneStream
  <2>6. Earned(z, model)
    BY <2>4 DEF Earned
  <2>7. /\ Looked(z, t)
        /\ t.taught \subseteq {<<z.boot, z.canon>>}
        /\ z.window = <<>> => t.taught = z.taught
        /\ Earned(t, model)
    BY <2>3, <2>4, <2>5, <2>6, ClassifyIs
  <2>8. OfOneStream(t)
    BY <2>1, <2>4, <2>5, <2>7 DEF OfOneStream, Looked
  <2>9. Current(t)
    <3>1. t.window = r.window /\ t.seen = s
      BY <2>4, <2>7 DEF Looked
    <3>. QED BY <3>1 DEF Current, Seen, s
  <2>. QED BY <1>2, <2>4, <2>7, <2>8, <2>9 DEF Looked, t
<1>. QED BY <1>1, <1>2

-----------------------------------------------------------------------------
(* The invariant of the engine.                                            *)

RuntimeOK(r, byModel) == r \in Runtime /\ OfOneStream(r) /\ Earned(r, byModel)

LEMMA NewRuntimeIs ==
  RuntimeOK(NewRuntime, FALSE) /\ Current(NewRuntime)
<1>1. 0 \in 0..Required /\ <<0, 0>> \in (0..2) \X (0..4) /\ <<>> \in Seq(Frame)
  BY EngineNumbers
<1>2. NewRuntime \in Runtime
  BY <1>1 DEF NewRuntime, Runtime
<1>3. /\ NewRuntime.canon = None /\ NewRuntime.window = <<>> /\ NewRuntime.taught = {}
      /\ NewRuntime.samples = 0 /\ ~NewRuntime.ready /\ NewRuntime.seen = NoFrame
  BY DEF NewRuntime
<1>. QED BY <1>2, <1>3, EmptyIs DEF RuntimeOK, Earned, Current

LEMMA EngineStarts == EngineInit => EngineIInv
<1>. SUFFICES ASSUME EngineInit PROVE EngineIInv
  OBVIOUS
<1>1. /\ air = [n \in Node |-> <<0>>] /\ rt = [n \in Node |-> NewRuntime]
      /\ model = FALSE /\ switches = 0
  BY DEF EngineInit
<1>2. \A n \in Node : RuntimeOK(rt[n], FALSE) /\ Current(rt[n])
  BY <1>1, NewRuntimeIs
<1>3. air \in [Node -> Seq(0..MaxSent)] /\ \A n \in Node : Len(air[n]) \in 1..MaxBoot
  <2>1. 0 \in 0..MaxSent /\ 1 \in 1..MaxBoot
    BY EngineNumbers
  <2>2. <<0>> \in Seq(0..MaxSent) /\ Len(<<0>>) = 1
    BY <2>1
  <2>. QED BY <1>1, <2>1, <2>2
<1>4. rt \in [Node -> Runtime]
  BY <1>1, NewRuntimeIs DEF RuntimeOK
<1>5. switches \in 0..MaxSwitch
  BY <1>1, EngineNumbers
<1>6. EngineTypeOK
  BY <1>3, <1>4, <1>5 DEF EngineTypeOK
<1>. QED BY <1>1, <1>2, <1>6 DEF EngineIInv, RuntimeOK

\* A datagram is counted, and leaves its receiver's runtime in order.
LEMMA AcceptIs ==
  ASSUME EngineIInv, ~down, NEW n \in Node, AcceptDatagram(n)
  PROVE  /\ rt' \in [Node -> Runtime]
         /\ \A i \in Node : RuntimeOK(rt'[i], model')
         /\ ~down' => \A i \in Node : Current(rt'[i])
         /\ rt'[n].grams = rt[n].grams + 1
         /\ \A i \in Node : i # n => rt'[i] = rt[i]
<1>0. /\ rt \in [Node -> Runtime]
      /\ \A i \in Node : RuntimeOK(rt[i], model)
      /\ \A i \in Node : Current(rt[i])
  BY DEF EngineIInv, EngineTypeOK, RuntimeOK
<1>1. PICK b \in DOMAIN air[n] : \E i \in 0..(air[n][b] - 1) :
        \E controlled \in BOOLEAN, late \in BOOLEAN, band \in Band :
          LET f == FrameAt(b, i)
              r == Buffer(TrackSequence(Enter(rt[n], b), i), f, controlled, late)
          IN  IF Throws(r)
              THEN /\ down' = TRUE
                   /\ rt' = [rt EXCEPT ![n] = r]
              ELSE /\ rt' = [rt EXCEPT ![n] = Evaluate(r, band)]
                   /\ UNCHANGED down
  BY DEF AcceptDatagram
<1>2. PICK i \in 0..(air[n][b] - 1), controlled \in BOOLEAN, late \in BOOLEAN, band \in Band :
          LET f == FrameAt(b, i)
              r == Buffer(TrackSequence(Enter(rt[n], b), i), f, controlled, late)
          IN  IF Throws(r)
              THEN /\ down' = TRUE
                   /\ rt' = [rt EXCEPT ![n] = r]
              ELSE /\ rt' = [rt EXCEPT ![n] = Evaluate(r, band)]
                   /\ UNCHANGED down
  BY <1>1
<1>3. b \in BootId /\ i \in 0..MaxSent
  <2>1. /\ air[n] \in Seq(0..MaxSent) /\ Len(air[n]) \in 1..MaxBoot
        /\ MaxSent \in Nat /\ MaxBoot \in Nat
    BY EngineNumbers DEF EngineIInv, EngineTypeOK
  <2>2. b \in 1..Len(air[n]) /\ air[n][b] \in 0..MaxSent
    BY <2>1
  <2>3. b \in BootId
    BY <2>1, <2>2 DEF BootId
  <2>4. i \in 0..MaxSent
    BY <2>1, <2>2
  <2>. QED BY <2>3, <2>4
<1>. DEFINE f == FrameAt(b, i)
            e == Enter(rt[n], b)
            s == TrackSequence(e, i)
            r == Buffer(s, f, controlled, late)
            t == Evaluate(r, band)
<1>4. f \in Frame /\ f.boot = b /\ f.stream \in Stream
  BY <1>3, FrameIs
<1>5. \/ down' = TRUE /\ rt' = [rt EXCEPT ![n] = r]
      \/ down' = down /\ rt' = [rt EXCEPT ![n] = t]
  BY <1>2
<1>6. RuntimeOK(rt[n], model)
  BY <1>0
<1>. HIDE DEF f, e, s, r, t
<1>7. RuntimeOK(e, model) /\ e.known /\ e.boot = b /\ e.grams = rt[n].grams
  BY <1>3, <1>6, EnterIs DEF RuntimeOK, e
<1>8. /\ s \in Runtime /\ s.known /\ s.boot = b /\ s.canon = e.canon /\ s.window = e.window
      /\ s.samples = e.samples /\ s.taught = e.taught /\ (s.ready <=> e.ready)
      /\ s.grams = rt[n].grams
  BY <1>3, <1>7, TrackIs DEF RuntimeOK, s
<1>9. RuntimeOK(s, model)
  <2>1. OfOneStream(s)
    BY <1>7, <1>8 DEF RuntimeOK, OfOneStream
  <2>2. Earned(s, model)
    BY <1>7, <1>8 DEF RuntimeOK, Earned
  <2>. QED BY <1>8, <2>1, <2>2 DEF RuntimeOK
<1>10. /\ r \in Runtime /\ OfOneStream(r)
       /\ r.grams = rt[n].grams + 1
       /\ r.samples = s.samples /\ r.taught = s.taught /\ (r.ready <=> s.ready)
  BY <1>4, <1>8, <1>9, BufferIs DEF RuntimeOK, r
<1>11. RuntimeOK(r, model)
  <2>1. Earned(r, model)
    BY <1>9, <1>10 DEF RuntimeOK, Earned
  <2>. QED BY <1>10, <2>1 DEF RuntimeOK
<1>12. RuntimeOK(t, model) /\ Current(t) /\ t.grams = rt[n].grams + 1
  BY <1>10, <1>11, EvaluateIs DEF RuntimeOK, t
<1>13. model' = model
  BY DEF AcceptDatagram
<1>14. CASE down' = TRUE /\ rt' = [rt EXCEPT ![n] = r]
  <2>1. \A j \in Node : rt'[j] = IF j = n THEN r ELSE rt[j]
    BY <1>0, <1>14
  <2>2. \A j \in Node : RuntimeOK(rt'[j], model')
    BY <1>0, <1>11, <1>13, <2>1
  <2>3. rt' \in [Node -> Runtime]
    BY <1>0, <1>10, <1>14
  <2>. QED BY <1>10, <1>14, <2>1, <2>2, <2>3
<1>15. CASE down' = down /\ rt' = [rt EXCEPT ![n] = t]
  <2>1. \A j \in Node : rt'[j] = IF j = n THEN t ELSE rt[j]
    BY <1>0, <1>15
  <2>2. \A j \in Node : RuntimeOK(rt'[j], model') /\ Current(rt'[j])
    BY <1>0, <1>12, <1>13, <2>1
  <2>3. rt' \in [Node -> Runtime]
    BY <1>0, <1>12, <1>15 DEF RuntimeOK
  <2>. QED BY <1>12, <2>1, <2>2, <2>3
<1>. QED BY <1>5, <1>14, <1>15

\* The runtimes after a step, one by one.
LEMMA RuntimesStep ==
  ASSUME EngineIInv, [EngineNext]_engineVars
  PROVE  /\ rt' \in [Node -> Runtime]
         /\ \A n \in Node : RuntimeOK(rt'[n], model')
         /\ ~down' => \A n \in Node : Current(rt'[n])
<1>1. /\ rt \in [Node -> Runtime]
      /\ \A n \in Node : RuntimeOK(rt[n], model)
      /\ ~down => \A n \in Node : Current(rt[n])
  BY DEF EngineIInv, EngineTypeOK, RuntimeOK
<1>2. CASE rt' = rt /\ model' = model /\ (down' <=> down)
  BY <1>1, <1>2
<1>3. ASSUME ~down, NEW n \in Node, AcceptDatagram(n)
      PROVE  /\ rt' \in [Node -> Runtime]
             /\ \A i \in Node : RuntimeOK(rt'[i], model')
             /\ ~down' => \A i \in Node : Current(rt'[i])
  BY <1>3, AcceptIs
<1>4. ASSUME ~down, Snapshot
      PROVE  /\ rt' \in [Node -> Runtime]
             /\ \A i \in Node : RuntimeOK(rt'[i], model')
             /\ ~down' => \A i \in Node : Current(rt'[i])
  <2>1. PICK band \in [Node -> Band] :
          rt' = [n \in Node |-> IF Throws(rt[n]) THEN rt[n] ELSE Evaluate(rt[n], band[n])]
    BY <1>4 DEF Snapshot
  <2>2. model' = model
    BY <1>4 DEF Snapshot
  <2>3. ASSUME NEW n \in Node
        PROVE  RuntimeOK(rt'[n], model') /\ Current(rt'[n])
    <3>1. band[n] \in Band /\ RuntimeOK(rt[n], model) /\ Current(rt[n])
      BY <1>1, <1>4
    <3>2. RuntimeOK(Evaluate(rt[n], band[n]), model) /\ Current(Evaluate(rt[n], band[n]))
      BY <3>1, EvaluateIs DEF RuntimeOK
    <3>3. rt'[n] = rt[n] \/ rt'[n] = Evaluate(rt[n], band[n])
      BY <2>1
    <3>. QED BY <2>2, <3>1, <3>2, <3>3
  <2>4. rt' \in [Node -> Runtime]
    BY <2>1, <2>3 DEF RuntimeOK
  <2>. QED BY <2>3, <2>4
<1>5. ASSUME ~down, NEW n \in Node, Silence(n)
      PROVE  /\ rt' \in [Node -> Runtime]
             /\ \A i \in Node : RuntimeOK(rt'[i], model')
             /\ ~down' => \A i \in Node : Current(rt'[i])
  <2>. DEFINE t == [rt[n] EXCEPT !.late = TRUE]
  <2>1. rt' = [rt EXCEPT ![n] = t] /\ model' = model
    BY <1>1, <1>5 DEF Silence
  <2>2. /\ t \in Runtime /\ t.known = rt[n].known /\ t.boot = rt[n].boot
        /\ t.canon = rt[n].canon /\ t.window = rt[n].window /\ t.seen = rt[n].seen
        /\ t.samples = rt[n].samples /\ t.taught = rt[n].taught /\ (t.ready <=> rt[n].ready)
    BY <1>1 DEF Runtime
  <2>3. RuntimeOK(rt[n], model) /\ Current(rt[n])
    BY <1>1, <1>5
  <2>. HIDE DEF t
  <2>4. RuntimeOK(t, model)
    BY <2>2, <2>3 DEF RuntimeOK, OfOneStream, Earned
  <2>5. Current(t)
    BY <2>2, <2>3 DEF Current, Seen
  <2>6. \A j \in Node : rt'[j] = IF j = n THEN t ELSE rt[j]
    BY <1>1, <2>1
  <2>7. \A j \in Node : RuntimeOK(rt'[j], model') /\ Current(rt'[j])
    BY <1>1, <1>5, <2>1, <2>4, <2>5, <2>6
  <2>8. rt' \in [Node -> Runtime]
    BY <1>1, <2>1, <2>2
  <2>. QED BY <2>7, <2>8
<1>6. ASSUME ~down, NEW set, ResetBaseline(set)
      PROVE  /\ rt' \in [Node -> Runtime]
             /\ \A i \in Node : RuntimeOK(rt'[i], model')
             /\ ~down' => \A i \in Node : Current(rt'[i])
  <2>1. /\ rt' = [n \in Node |-> IF n \in set THEN ResetRuntime(rt[n]) ELSE rt[n]]
        /\ model' = model
    BY <1>6 DEF ResetBaseline
  <2>2. ASSUME NEW n \in Node
        PROVE  RuntimeOK(rt'[n], model') /\ Current(rt'[n])
    <3>. DEFINE z == ResetRuntime(rt[n])
    <3>1. /\ z \in Runtime /\ z.canon = None /\ z.window = <<>> /\ z.seen = NoFrame
          /\ z.samples = 0 /\ z.taught = {} /\ ~z.ready
      BY <1>1, ResetIs
    <3>. HIDE DEF z
    <3>2. RuntimeOK(z, model) /\ Current(z)
      BY <3>1, EmptyIs DEF RuntimeOK, Earned, Current
    <3>3. rt'[n] = z \/ rt'[n] = rt[n]
      BY <2>1 DEF z
    <3>. QED BY <1>1, <1>6, <2>1, <3>2, <3>3
  <2>3. rt' \in [Node -> Runtime]
    BY <2>1, <2>2 DEF RuntimeOK
  <2>. QED BY <2>2, <2>3
<1>7. ASSUME ~down, SetModel
      PROVE  /\ rt' \in [Node -> Runtime]
             /\ \A i \in Node : RuntimeOK(rt'[i], model')
             /\ ~down' => \A i \in Node : Current(rt'[i])
  <2>1. rt' = [n \in Node |->
          [rt[n] EXCEPT !.votes = <<0, 0>>, !.active = FALSE, !.seen = NoFrame,
                        !.ready = rt[n].samples >= Required]]
    BY <1>7 DEF SetModel
  <2>2. ASSUME NEW n \in Node
        PROVE  RuntimeOK(rt'[n], model') /\ Current(rt'[n])
    <3>. DEFINE e == rt[n].samples >= Required
                r == rt[n]
                t == [r EXCEPT !.votes = <<0, 0>>, !.active = FALSE, !.seen = NoFrame, !.ready = e]
    <3>1. e \in BOOLEAN /\ (e => r.samples >= Required) /\ <<0, 0>> \in (0..2) \X (0..4)
      OBVIOUS
    <3>2. rt'[n] = t /\ r \in Runtime /\ RuntimeOK(r, model)
      BY <1>1, <2>1
    <3>. HIDE DEF e, r
    <3>3. /\ t \in Runtime /\ t.known = r.known /\ t.boot = r.boot
          /\ t.canon = r.canon /\ t.window = r.window /\ t.seen = NoFrame
          /\ t.samples = r.samples /\ t.taught = r.taught /\ (t.ready <=> e)
      BY <3>1, <3>2 DEF Runtime
    <3>. HIDE DEF t
    <3>4. OfOneStream(t)
      BY <3>2, <3>3 DEF RuntimeOK, OfOneStream
    <3>5. Earned(t, model') /\ Current(t)
      BY <3>1, <3>2, <3>3 DEF RuntimeOK, Earned, Current
    <3>. QED BY <3>2, <3>3, <3>4, <3>5 DEF RuntimeOK
  <2>3. rt' \in [Node -> Runtime]
    BY <2>1, <2>2 DEF RuntimeOK
  <2>. QED BY <2>2, <2>3
<1>8. ASSUME NEW n \in Node, Transmit(n) \/ Reboot(n)
      PROVE  rt' = rt /\ model' = model /\ (down' <=> down)
  BY <1>8 DEF Transmit, Reboot
<1>9. RecordInvalid => rt' = rt /\ model' = model /\ (down' <=> down)
  BY DEF RecordInvalid
<1>10. UNCHANGED engineVars => rt' = rt /\ model' = model /\ (down' <=> down)
  BY DEF engineVars
<1>. QED BY <1>2, <1>3, <1>4, <1>5, <1>6, <1>7, <1>8, <1>9, <1>10 DEF EngineNext

LEMMA ElementIn == \A S, a, i : a \in Seq(S) /\ i \in 1..Len(a) => a[i] \in S
OBVIOUS

LEMMA AirStep ==
  ASSUME EngineTypeOK, [EngineNext]_engineVars
  PROVE  /\ air' \in [Node -> Seq(0..MaxSent)]
         /\ \A n \in Node : Len(air'[n]) \in 1..MaxBoot
         /\ switches' \in 0..MaxSwitch
<1>. DEFINE Sent == 0..MaxSent
            Boots == 1..MaxBoot
            Goal == /\ air' \in [Node -> Seq(Sent)]
                    /\ \A i \in Node : Len(air'[i]) \in Boots
                    /\ switches' \in 0..MaxSwitch
<1>1. /\ air \in [Node -> Seq(Sent)] /\ \A n \in Node : Len(air[n]) \in Boots
      /\ switches \in 0..MaxSwitch /\ MaxSent \in Nat /\ MaxBoot \in Nat /\ MaxSwitch \in Nat
  BY EngineNumbers DEF EngineTypeOK
<1>2. ASSUME air' = air, switches' \in 0..MaxSwitch
      PROVE  Goal
  BY <1>1, <1>2
<1>3. ASSUME NEW n \in Node, NEW s \in Seq(Sent), Len(s) \in Boots,
             air' = [air EXCEPT ![n] = s], switches' = switches
      PROVE  Goal
  <2>. HIDE DEF Sent, Boots
  <2>. QED BY <1>1, <1>3
<1>4. ASSUME NEW n \in Node, Transmit(n)
      PROVE  Goal
  <2>. DEFINE l == Len(air[n])
              s == [air[n] EXCEPT ![l] = @ + 1]
  <2>1. /\ air[n][l] < MaxSent /\ air' = [air EXCEPT ![n] = s] /\ switches' = switches
    BY <1>1, <1>4 DEF Transmit
  <2>2. air[n] \in Seq(Sent) /\ l \in Boots /\ l \in 1..Len(air[n])
    BY <1>1
  <2>3. air[n][l] + 1 \in Sent
    <3>1. air[n][l] \in Sent
      <4>. HIDE DEF l, Sent
      <4>. QED BY <2>2, ElementIn
    <3>. HIDE DEF l
    <3>. QED BY <1>1, <2>1, <3>1
  <2>4. s \in Seq(Sent) /\ Len(s) = Len(air[n])
    <3>. HIDE DEF l, Sent
    <3>. QED BY <2>2, <2>3
  <2>5. Len(s) \in Boots
    BY <2>2, <2>4
  <2>. HIDE DEF s, Sent, Boots
  <2>. QED BY <1>3, <2>1, <2>4, <2>5
<1>5. ASSUME NEW n \in Node, Reboot(n)
      PROVE  Goal
  <2>. DEFINE s == Append(air[n], 0)
  <2>1. Len(air[n]) < MaxBoot /\ air' = [air EXCEPT ![n] = s] /\ switches' = switches
    BY <1>1, <1>5 DEF Reboot
  <2>2. s \in Seq(Sent) /\ Len(s) = Len(air[n]) + 1
    BY <1>1
  <2>. HIDE DEF s
  <2>3. Len(s) \in Boots
    BY <1>1, <2>1, <2>2
  <2>. HIDE DEF Sent, Boots
  <2>. QED BY <1>3, <2>1, <2>2, <2>3
<1>6. ASSUME NEW n \in Node, AcceptDatagram(n) \/ Silence(n)
      PROVE  Goal
  <2>1. air' = air /\ switches' = switches
    BY <1>6 DEF AcceptDatagram, Silence
  <2>. HIDE DEF Goal
  <2>. QED BY <1>1, <1>2, <2>1
<1>7. ASSUME RecordInvalid \/ Snapshot \/ UNCHANGED engineVars
      PROVE  Goal
  <2>1. air' = air /\ switches' = switches
    BY <1>7 DEF RecordInvalid, Snapshot, engineVars
  <2>. HIDE DEF Goal
  <2>. QED BY <1>1, <1>2, <2>1
<1>8. ASSUME NEW set, ResetBaseline(set) \/ SetModel
      PROVE  Goal
  <2>1. air' = air /\ switches < MaxSwitch /\ switches' = switches + 1
    BY <1>8 DEF ResetBaseline, SetModel
  <2>2. switches' \in 0..MaxSwitch
    BY <1>1, <2>1
  <2>. HIDE DEF Goal
  <2>. QED BY <1>2, <2>1, <2>2
<1>. HIDE DEF Goal
<1>9. Goal
  BY <1>4, <1>5, <1>6, <1>7, <1>8 DEF EngineNext
<1>. QED BY <1>9 DEF Goal

LEMMA EngineStep == EngineIInv /\ [EngineNext]_engineVars => EngineIInv'
<1>. SUFFICES ASSUME EngineIInv, [EngineNext]_engineVars PROVE EngineIInv'
  OBVIOUS
<1>1. /\ rt' \in [Node -> Runtime]
      /\ \A n \in Node : RuntimeOK(rt'[n], model')
      /\ ~down' => \A n \in Node : Current(rt'[n])
  BY RuntimesStep
<1>2. EngineTypeOK'
  BY <1>1, AirStep DEF EngineIInv, EngineTypeOK
<1>3. \A n \in Node : OfOneStream(rt'[n]) /\ Earned(rt'[n], model')
  BY <1>1 DEF RuntimeOK
<1>. QED BY <1>1, <1>2, <1>3 DEF EngineIInv

\* The inductive invariant of the engine: each runtime is of one boot and one
\* stream (MultiNodeEngine.accept, resetRuntime).
THEOREM EngineInductive == EngineSpec => []EngineIInv
BY EngineStarts, EngineStep, PTL DEF EngineSpec

\* Whatever a verdict rests on is of one boot and one stream, and a receiver
\* that is ready without a model has a finished baseline of it.
THEOREM ReadinessIsEarned == EngineSpec => []ReadinessEarned
<1>1. EngineIInv => ReadinessEarned
  <2>. SUFFICES ASSUME EngineIInv, NEW n \in Node
       PROVE  /\ rt[n].taught \cup AmplitudesOf(rt[n]) \subseteq {<<rt[n].boot, rt[n].canon>>}
              /\ Ready(rt[n]) /\ ~model => rt[n].samples = Required /\ rt[n].taught # {}
    BY Zenon DEF ReadinessEarned
  <2>1. /\ rt[n] \in Runtime /\ OfOneStream(rt[n]) /\ Earned(rt[n], model)
        /\ Required \in Nat \ {0}
    BY EngineNumbers DEF EngineIInv, EngineTypeOK
  <2>2. AmplitudesOf(rt[n]) \subseteq {<<rt[n].boot, rt[n].canon>>}
    BY <2>1, AmplitudesAre
  <2>3. rt[n].taught \subseteq {<<rt[n].boot, rt[n].canon>>}
    BY <2>1 DEF OfOneStream
  <2>4. ASSUME Ready(rt[n]), ~model
        PROVE  rt[n].samples = Required /\ rt[n].taught # {}
    <3>1. rt[n].samples \in 0..Required
      BY <2>1, RuntimeIs
    <3>2. rt[n].ready
      BY <2>4 DEF Ready
    <3>. QED BY <2>1, <2>4, <3>1, <3>2 DEF Earned
  <2>. QED BY <2>2, <2>3, <2>4
<1>. QED BY <1>1, EngineInductive, PTL

\* A snapshot teaches nothing: without a datagram the baseline and the votes
\* move only when a change of model or a reset starts them anew.
THEOREM PollsTeachNothing == EngineSpec => PollsDoNotTeach
<1>. DEFINE P == \A n \in Node :
                   rt'[n].grams = rt[n].grams /\ rt[n].seen # NoFrame =>
                     /\ rt'[n].samples <= rt[n].samples
                     /\ rt'[n].votes \in {rt[n].votes, <<0, 0>>}
<1>1. EngineIInv /\ [EngineNext]_engineVars => [P]_engineVars
  <2>. SUFFICES ASSUME EngineIInv, EngineNext, NEW n \in Node,
                       rt'[n].grams = rt[n].grams, rt[n].seen # NoFrame
       PROVE  /\ rt'[n].samples <= rt[n].samples
              /\ rt'[n].votes \in {rt[n].votes, <<0, 0>>}
    BY Zenon
  <2>1. /\ rt \in [Node -> Runtime] /\ rt[n] \in Runtime /\ ~down
        /\ RuntimeOK(rt[n], model) /\ Current(rt[n]) /\ Seen(rt[n])
        /\ rt[n].samples \in Int /\ rt[n].grams \in Nat /\ 0 <= rt[n].samples
    <3>1. /\ rt \in [Node -> Runtime] /\ rt[n] \in Runtime /\ ~down
          /\ RuntimeOK(rt[n], model) /\ Current(rt[n])
      BY DEF EngineNext, EngineIInv, EngineTypeOK, RuntimeOK
    <3>2. Seen(rt[n])
      BY <3>1 DEF Current
    <3>. QED BY <3>1, <3>2, RuntimeIs
  <2>2. CASE rt'[n] = rt[n]
    BY <2>1, <2>2
  <2>3. CASE rt'[n].samples = 0 /\ rt'[n].votes = <<0, 0>>
    BY <2>1, <2>3
  <2>4. CASE rt'[n].samples = rt[n].samples /\ rt'[n].votes = <<0, 0>>
    BY <2>1, <2>4
  <2>5. CASE AcceptDatagram(n)
    <3>1. rt'[n].grams = rt[n].grams + 1
      BY <2>1, <2>5, AcceptIs
    <3>. QED BY <2>1, <3>1
  <2>6. ASSUME NEW i \in Node, i # n, AcceptDatagram(i)
        PROVE  rt'[n] = rt[n]
    BY <2>1, <2>6, AcceptIs
  <2>7. ASSUME NEW i \in Node, Transmit(i) \/ Reboot(i)
        PROVE  rt'[n] = rt[n]
    BY <2>7 DEF Transmit, Reboot
  <2>8. CASE RecordInvalid
    BY <2>2, <2>8 DEF RecordInvalid
  <2>9. CASE Snapshot
    <3>1. PICK band \in [Node -> Band] :
            rt' = [i \in Node |-> IF Throws(rt[i]) THEN rt[i] ELSE Evaluate(rt[i], band[i])]
      BY <2>9 DEF Snapshot
    <3>2. Evaluate(rt[n], band[n]) = rt[n]
      BY <2>1 DEF Evaluate
    <3>3. rt'[n] = rt[n]
      BY <3>1, <3>2
    <3>. QED BY <2>2, <3>3
  <2>10. ASSUME NEW i \in Node, Silence(i)
         PROVE  rt'[n].samples = rt[n].samples /\ rt'[n].votes = rt[n].votes
    <3>1. rt' = [rt EXCEPT ![i] = [rt[i] EXCEPT !.late = TRUE]]
      BY <2>1, <2>10 DEF Silence
    <3>2. CASE i = n
      <4>1. rt'[n] = [rt[n] EXCEPT !.late = TRUE]
        BY <2>1, <3>1, <3>2
      <4>. QED BY <2>1, <4>1 DEF Runtime
    <3>3. CASE i # n
      BY <2>1, <3>1, <3>3
    <3>. QED BY <3>2, <3>3
  <2>11. ASSUME NEW set, ResetBaseline(set)
         PROVE  \/ rt'[n] = rt[n]
                \/ rt'[n].samples = 0 /\ rt'[n].votes = <<0, 0>>
    <3>1. rt'[n] = IF n \in set THEN ResetRuntime(rt[n]) ELSE rt[n]
      BY <2>11 DEF ResetBaseline
    <3>. QED BY <2>1, <3>1, ResetIs
  <2>12. CASE SetModel
    <3>1. rt'[n] = [rt[n] EXCEPT !.votes = <<0, 0>>, !.active = FALSE, !.seen = NoFrame,
                                 !.ready = rt[n].samples >= Required]
      BY <2>12 DEF SetModel
    <3>2. rt'[n].samples = rt[n].samples /\ rt'[n].votes = <<0, 0>>
      BY <2>1, <3>1 DEF Runtime
    <3>. QED BY <2>4, <3>2
  <2>13. ASSUME rt'[n].samples = rt[n].samples, rt'[n].votes = rt[n].votes
         PROVE  /\ rt'[n].samples <= rt[n].samples
                /\ rt'[n].votes \in {rt[n].votes, <<0, 0>>}
    BY <2>1, <2>13
  <2>. QED BY <2>2, <2>3, <2>5, <2>6, <2>7, <2>8, <2>9, <2>10, <2>11, <2>12, <2>13
           DEF EngineNext
<1>2. EngineSpec => [][P]_engineVars
  BY <1>1, EngineInductive, PTL DEF EngineSpec
<1>. QED BY <1>2 DEF PollsDoNotTeach

-----------------------------------------------------------------------------
(* The fusion of the receivers' positions.                                 *)

LEMMA PlacesFinite ==
  /\ Place \in SUBSET Nat
  /\ \A S \in SUBSET Place : IsFiniteSet(S) /\ Cardinality(S) \in Nat
<1>1. IsFiniteSet(Place) /\ Place \in SUBSET Nat
  BY FusionAssumption, FS_Interval DEF FusionAssumption, Place
<1>. QED BY <1>1, FS_Subset, FS_CardinalityType

LEMMA BallotsFinite ==
  ASSUME NEW est, NEW S \in SUBSET Place
  PROVE  IsFiniteSet(Ballots(est, S)) /\ Cardinality(Ballots(est, S)) \in Nat
<1>1. IsFiniteSet(1..MaxWeight)
  BY FusionAssumption, FS_Interval DEF FusionAssumption
<1>2. IsFiniteSet(S \X (1..MaxWeight))
  BY <1>1, PlacesFinite, FS_Product
<1>3. Ballots(est, S) \in SUBSET (S \X (1..MaxWeight))
  BY DEF Ballots
<1>. QED BY <1>2, <1>3, FS_Subset, FS_CardinalityType

\* A vote has a ballot, and no ballot is of two votes.
LEMMA BallotsOf ==
  ASSUME NEW est \in [Place -> Estimate], NEW S \in SUBSET Place, NEW T \in SUBSET Place
  PROVE  /\ S # {} => Cardinality(Ballots(est, S)) >= 1
         /\ S \cap T = {} => Cardinality(Ballots(est, S \cup T))
                               = Cardinality(Ballots(est, S)) + Cardinality(Ballots(est, T))
         /\ S \subseteq T => Cardinality(Ballots(est, S)) <= Cardinality(Ballots(est, T))
<1>1. /\ IsFiniteSet(Ballots(est, S)) /\ Cardinality(Ballots(est, S)) \in Nat
      /\ IsFiniteSet(Ballots(est, T)) /\ Cardinality(Ballots(est, T)) \in Nat
  BY BallotsFinite
<1>2. ASSUME NEW p \in S PROVE Cardinality(Ballots(est, S)) >= 1
  <2>1. est[p].weight \in 1..MaxWeight
    BY DEF Estimate
  <2>2. <<p, 1>> \in Ballots(est, S)
    BY <2>1, FusionAssumption DEF Ballots, FusionAssumption
  <2>3. Cardinality(Ballots(est, S)) # 0
    BY <1>1, <2>2, FS_EmptySet
  <2>. QED BY <1>1, <2>3
<1>3. ASSUME S \cap T = {}
      PROVE  Cardinality(Ballots(est, S \cup T))
               = Cardinality(Ballots(est, S)) + Cardinality(Ballots(est, T))
  <2>1. /\ Ballots(est, S \cup T) = Ballots(est, S) \cup Ballots(est, T)
        /\ Ballots(est, S) \cap Ballots(est, T) = {}
    BY <1>3 DEF Ballots
  <2>2. Cardinality(Ballots(est, S) \cup Ballots(est, T))
          = Cardinality(Ballots(est, S)) + Cardinality(Ballots(est, T))
              - Cardinality(Ballots(est, S) \cap Ballots(est, T))
    BY <1>1, FS_Union, Zenon
  <2>3. Cardinality(Ballots(est, S) \cap Ballots(est, T)) = 0
    BY <2>1, FS_EmptySet
  <2>4. Cardinality(Ballots(est, S \cup T))
          = Cardinality(Ballots(est, S)) + Cardinality(Ballots(est, T)) - 0
    BY <2>1, <2>2, <2>3, Zenon
  <2>. QED BY <1>1, <2>4
<1>4. ASSUME S \subseteq T
      PROVE  Cardinality(Ballots(est, S)) <= Cardinality(Ballots(est, T))
  <2>1. Ballots(est, S) \in SUBSET Ballots(est, T)
    BY <1>4 DEF Ballots
  <2>. QED BY <1>1, <2>1, FS_Subset
<1>. QED BY <1>2, <1>3, <1>4

\* Several zones' votes are of different receivers, and all count.
LEMMA VotesAre ==
  ASSUME NEW est \in [Place -> Estimate]
  PROVE  /\ Positional(est) \in SUBSET Place /\ Voters(est) \in SUBSET Place
         /\ \A z \in Zone : Votes(est, z) \in SUBSET Voters(est)
         /\ \A y, z \in Zone : y # z => Votes(est, y) \cap Votes(est, z) = {}
         /\ \A z \in Zone : Weight(est, z) \in Nat
         /\ \A z \in Voted(est) : Weight(est, z) >= 1
         /\ TotalWeight(est) \in Nat
         /\ \A y, z \in Zone : y # z => Weight(est, y) + Weight(est, z) <= TotalWeight(est)
<1>1. /\ Positional(est) \in SUBSET Place /\ Voters(est) \in SUBSET Place
      /\ \A z \in Zone : Votes(est, z) \in SUBSET Voters(est)
      /\ \A y, z \in Zone : y # z => Votes(est, y) \cap Votes(est, z) = {}
  BY DEF Positional, Voters, Votes
<1>2. \A z \in Zone : Weight(est, z) \in Nat
  BY <1>1, BallotsFinite DEF Weight
<1>3. \A z \in Voted(est) : Weight(est, z) >= 1
  BY <1>1, BallotsOf DEF Weight, Voted
<1>4. TotalWeight(est) \in Nat
  BY <1>1, BallotsFinite DEF TotalWeight
<1>5. ASSUME NEW y \in Zone, NEW z \in Zone, y # z
      PROVE  Weight(est, y) + Weight(est, z) <= TotalWeight(est)
  <2>. DEFINE V == Votes(est, y) \cup Votes(est, z)
  <2>1. V \in SUBSET Voters(est) /\ V \in SUBSET Place
    BY <1>1
  <2>2. Cardinality(Ballots(est, V)) = Weight(est, y) + Weight(est, z)
    BY <1>1, <1>5, BallotsOf DEF Weight
  <2>3. Cardinality(Ballots(est, V)) <= TotalWeight(est)
    BY <1>1, <2>1, BallotsOf DEF TotalWeight
  <2>. QED BY <2>2, <2>3
<1>. QED BY <1>1, <1>2, <1>3, <1>4, <1>5

\* Some zone leads.
LEMMA LeaderIs ==
  ASSUME NEW est \in [Place -> Estimate], Voted(est) # {}
  PROVE  /\ Leader(est) \in Voted(est)
         /\ \A y \in Voted(est) : Weight(est, y) <= Weight(est, Leader(est))
<1>. DEFINE W == {Weight(est, z) : z \in Voted(est)}
<1>1. Voted(est) \in SUBSET Zone
  BY DEF Voted
<1>2. \A z \in Voted(est) : Weight(est, z) \in 0..TotalWeight(est)
  <2>. SUFFICES ASSUME NEW z \in Voted(est) PROVE Weight(est, z) \in 0..TotalWeight(est)
    OBVIOUS
  <2>1. Votes(est, z) \in SUBSET Voters(est) /\ Voters(est) \in SUBSET Place
    BY <1>1, VotesAre
  <2>2. Cardinality(Ballots(est, Votes(est, z))) <= Cardinality(Ballots(est, Voters(est)))
    BY <2>1, BallotsOf
  <2>. QED BY <1>1, <2>2, VotesAre DEF Weight, TotalWeight
<1>3. IsFiniteSet(0..TotalWeight(est))
  BY VotesAre, FS_Interval
<1>4. W \in SUBSET Nat /\ IsFiniteSet(W) /\ W # {}
  <2>1. W \in SUBSET (0..TotalWeight(est))
    BY <1>2
  <2>. QED BY <1>3, <2>1, VotesAre, FS_Subset
<1>5. PICK top \in W : \A w \in W : w <= top
  BY <1>4, LeastLargest
<1>. DEFINE Tops == {z \in Voted(est) : Weight(est, z) = top}
            F == {First(est, z) : z \in Tops}
<1>6. \A z \in Voted(est) : First(est, z) \in Votes(est, z)
  <2>. SUFFICES ASSUME NEW z \in Voted(est) PROVE First(est, z) \in Votes(est, z)
    OBVIOUS
  <2>1. Votes(est, z) \in SUBSET Place /\ Votes(est, z) # {}
    BY <1>1, VotesAre DEF Voted
  <2>2. Votes(est, z) \in SUBSET Nat /\ IsFiniteSet(Votes(est, z))
    BY <2>1, PlacesFinite
  <2>3. \E x \in Votes(est, z) : \A y \in Votes(est, z) : x <= y
    BY <2>1, <2>2, LeastLargest
  <2>. QED BY <2>3, Zenon DEF First, Min
<1>7. F \in SUBSET Place /\ F # {}
  <2>1. Tops # {}
    BY <1>5
  <2>2. \A z \in Tops : First(est, z) \in Place
    BY <1>6, <1>1, VotesAre
  <2>. QED BY <2>1, <2>2
<1>8. PICK f \in F : \A g \in F : f <= g
  BY <1>7, PlacesFinite, LeastLargest
<1>9. PICK z \in Tops : First(est, z) = f
  OBVIOUS
<1>10. z \in Voted(est) /\ \A y \in Voted(est) \ {z} :
         \/ Weight(est, z) > Weight(est, y)
         \/ Weight(est, z) = Weight(est, y) /\ First(est, z) < First(est, y)
  <2>1. z \in Voted(est) /\ Weight(est, z) = top
    OBVIOUS
  <2>2. ASSUME NEW y \in Voted(est) \ {z}
        PROVE  \/ Weight(est, z) > Weight(est, y)
               \/ Weight(est, z) = Weight(est, y) /\ First(est, z) < First(est, y)
    <3>1. Weight(est, y) <= top /\ Weight(est, y) \in Nat /\ top \in Nat
      BY <1>1, <1>4, <1>5, VotesAre
    <3>2. CASE Weight(est, y) = top
      <4>1. f <= First(est, y)
        BY <1>8, <3>2
      <4>2. First(est, y) \in Votes(est, y) /\ First(est, z) \in Votes(est, z)
        BY <1>6, <2>1
      <4>3. First(est, y) # First(est, z)
        BY <4>2, <2>1, <1>1, VotesAre
      <4>4. First(est, y) \in Nat /\ First(est, z) \in Nat
        BY <4>2, <2>1, <1>1, VotesAre, PlacesFinite
      <4>. QED BY <1>9, <2>1, <3>2, <4>1, <4>3, <4>4
    <3>. QED BY <2>1, <3>1, <3>2
  <2>. QED BY <2>1, <2>2
<1>11. /\ Leader(est) \in Voted(est)
       /\ \A y \in Voted(est) \ {Leader(est)} :
            \/ Weight(est, Leader(est)) > Weight(est, y)
            \/ Weight(est, Leader(est)) = Weight(est, y) /\ First(est, Leader(est)) < First(est, y)
  BY <1>10, Zenon DEF Leader
<1>12. \A y \in Voted(est) : Weight(est, y) \in Nat
  BY <1>1, VotesAre
<1>. QED BY <1>11, <1>12

\* What is accepted: a zone that satisfies the gate, and there is at most one.
Wins(est, z) == z \in Voted(est) /\ Accepted(est, z, 55)

LEMMA FuseIs ==
  ASSUME NEW est \in [Place -> Estimate]
  PROVE  /\ Fuse(est) \in Zone \cup {NoZone}
         /\ \A z \in Zone : Fuse(est) = z <=> Wins(est, z)
<1>1. Voted(est) \in SUBSET Zone /\ NoZone \notin Zone
  BY FusionAssumption DEF Voted, FusionAssumption
<1>2. CASE Voted(est) = {}
  BY <1>1, <1>2 DEF Fuse, Wins
<1>3. CASE Voted(est) # {}
  <2>. DEFINE l == Leader(est)
  <2>1. l \in Voted(est) /\ \A y \in Voted(est) : Weight(est, y) <= Weight(est, l)
    BY <1>3, LeaderIs
  <2>2. Fuse(est) = IF Accepted(est, l, 55) THEN l ELSE NoZone
    BY <1>3 DEF Fuse
  <2>. HIDE DEF l
  <2>3. ASSUME NEW z \in Zone, Wins(est, z) PROVE z = l
    <3>1. SUFFICES ASSUME z # l PROVE FALSE
      OBVIOUS
    <3>2. Weight(est, z) + Weight(est, l) <= TotalWeight(est)
      BY <1>1, <2>1, <3>1, VotesAre
    <3>3. 100 * Weight(est, z) >= 55 * TotalWeight(est)
      BY <2>3 DEF Wins, Accepted
    <3>4. Weight(est, z) <= Weight(est, l) /\ Weight(est, z) >= 1
      BY <2>1, <2>3, VotesAre DEF Wins
    <3>5. Weight(est, z) \in Nat /\ Weight(est, l) \in Nat /\ TotalWeight(est) \in Nat
      BY <1>1, <2>1, VotesAre
    <3>. QED BY <3>2, <3>3, <3>4, <3>5
  <2>. QED BY <1>1, <2>1, <2>2, <2>3 DEF Wins
<1>. QED BY <1>2, <1>3

\* The estimates at other places.
Moved(est, order) == [p \in Place |-> est[order[p]]]
MovedFrom(order, S) == {p \in Place : order[p] \in S}

LEMMA MovedCounts ==
  ASSUME NEW est \in [Place -> Estimate], NEW order \in Injection(Place, Place),
         NEW S \in SUBSET Place
  PROVE  /\ Cardinality(MovedFrom(order, S)) = Cardinality(S)
         /\ Cardinality(Ballots(Moved(est, order), MovedFrom(order, S)))
              = Cardinality(Ballots(est, S))
<1>. DEFINE T == MovedFrom(order, S)
            A == Ballots(Moved(est, order), T)
            B == Ballots(est, S)
            f == [p \in T |-> order[p]]
            g == [b \in A |-> <<order[b[1]], b[2]>>]
<1>1. order \in Surjection(Place, Place) /\ order \in [Place -> Place]
  BY PlacesFinite, FS_Injection DEF Injection
<1>2. \A p, q \in Place : order[p] = order[q] => p = q
  BY DEF Injection, IsInjective
<1>3. \A s \in S : \E p \in T : order[p] = s
  BY <1>1 DEF Surjection, MovedFrom
<1>4. T \in SUBSET Place /\ \A p \in T : order[p] \in S
  BY DEF MovedFrom
<1>5. \A b : b \in A <=> b \in T \X (1..MaxWeight) /\ b[2] <= est[order[b[1]]].weight
  BY <1>4 DEF Ballots, Moved
<1>6. \A b : b \in B <=> b \in S \X (1..MaxWeight) /\ b[2] <= est[b[1]].weight
  BY DEF Ballots
<1>. HIDE DEF T, A, B
<1>7. f \in Bijection(T, S)
  <2>1. f \in [T -> S] /\ \A p, q \in T : f[p] = f[q] => p = q
    BY <1>2, <1>4
  <2>2. \A s \in S : \E p \in T : f[p] = s
    BY <1>3
  <2>. QED BY <2>1, <2>2 DEF Bijection, Injection, IsInjective, Surjection
<1>8. g \in Bijection(A, B)
  <2>1. \A b \in A : <<order[b[1]], b[2]>> \in B
    BY <1>4, <1>5, <1>6
  <2>2. \A b, c \in A : <<order[b[1]], b[2]>> = <<order[c[1]], c[2]>> => b = c
    <3>. SUFFICES ASSUME NEW b \in A, NEW c \in A,
                         <<order[b[1]], b[2]>> = <<order[c[1]], c[2]>>
                  PROVE  b = c
      OBVIOUS
    <3>1. b \in T \X (1..MaxWeight) /\ c \in T \X (1..MaxWeight)
      BY <1>5
    <3>2. b[1] = c[1] /\ b[2] = c[2]
      BY <1>2, <1>4, <3>1
    <3>. QED BY <3>1, <3>2
  <2>3. \A b \in B : \E a \in A : <<order[a[1]], a[2]>> = b
    <3>. SUFFICES ASSUME NEW b \in B PROVE \E a \in A : <<order[a[1]], a[2]>> = b
      OBVIOUS
    <3>1. b \in S \X (1..MaxWeight) /\ b[2] <= est[b[1]].weight
      BY <1>6
    <3>2. PICK p \in T : order[p] = b[1]
      BY <1>3, <3>1
    <3>3. <<p, b[2]>> \in A
      BY <1>5, <3>1, <3>2
    <3>. QED BY <3>1, <3>2, <3>3
  <2>. QED BY <2>1, <2>2, <2>3 DEF Bijection, Injection, IsInjective, Surjection
<1>. HIDE DEF f, g
<1>9. IsFiniteSet(T) /\ IsFiniteSet(A)
  BY <1>4, PlacesFinite, BallotsFinite DEF A
<1>10. Cardinality(S) = Cardinality(T) /\ Cardinality(B) = Cardinality(A)
  BY <1>7, <1>8, <1>9, FS_Bijection DEF ExistsBijection
<1>. QED BY <1>10 DEF T, A, B

\* Who listed where wins does not matter.
LEMMA WinsAnywhere ==
  ASSUME NEW est \in [Place -> Estimate], NEW order \in Injection(Place, Place), NEW z \in Zone
  PROVE  /\ Moved(est, order) \in [Place -> Estimate]
         /\ Wins(Moved(est, order), z) <=> Wins(est, z)
<1>. DEFINE new == Moved(est, order)
<1>1. order \in Surjection(Place, Place) /\ order \in [Place -> Place]
  BY PlacesFinite, FS_Injection DEF Injection
<1>2. new \in [Place -> Estimate] /\ \A p \in Place : new[p] = est[order[p]]
  BY <1>1 DEF Moved
<1>. HIDE DEF new
<1>3. /\ Votes(new, z) = MovedFrom(order, Votes(est, z))
      /\ Positional(new) = MovedFrom(order, Positional(est))
      /\ Voters(new) = MovedFrom(order, Voters(est))
  BY <1>1, <1>2 DEF Votes, Positional, Voters, MovedFrom
<1>4. Votes(est, z) \in SUBSET Place /\ Positional(est) \in SUBSET Place /\ Voters(est) \in SUBSET Place
  BY VotesAre
<1>5. /\ Cardinality(Votes(new, z)) = Cardinality(Votes(est, z))
      /\ Cardinality(Positional(new)) = Cardinality(Positional(est))
      /\ Weight(new, z) = Weight(est, z)
      /\ TotalWeight(new) = TotalWeight(est)
  BY <1>3, <1>4, MovedCounts DEF new, Weight, TotalWeight
<1>6. Votes(new, z) = {} <=> Votes(est, z) = {}
  BY <1>1, <1>3, <1>4 DEF MovedFrom, Surjection
<1>7. Wins(new, z) <=> Wins(est, z)
  BY <1>5, <1>6 DEF Wins, Accepted, Voted
<1>. QED BY <1>2, <1>7 DEF new

\* The same estimates at any other places fuse to the same zone.
LEMMA FusesTheSame ==
  ASSUME NEW est \in [Place -> Estimate], NEW order \in Injection(Place, Place)
  PROVE  Fuse(Moved(est, order)) = Fuse(est)
<1>. DEFINE new == Moved(est, order)
<1>1. new \in [Place -> Estimate]
  BY DEF Injection, Moved
<1>2. \A z \in Zone : Wins(new, z) <=> Wins(est, z)
  BY WinsAnywhere
<1>. HIDE DEF new
<1>3. /\ Fuse(new) \in Zone \cup {NoZone} /\ \A z \in Zone : Fuse(new) = z <=> Wins(new, z)
      /\ Fuse(est) \in Zone \cup {NoZone} /\ \A z \in Zone : Fuse(est) = z <=> Wins(est, z)
  BY <1>1, FuseIs
<1>4. Fuse(new) = Fuse(est)
  BY <1>2, <1>3, FusionAssumption DEF FusionAssumption
<1>. QED BY <1>4 DEF new

LEMMA FusionStep == FusionIInv /\ [FusionNext]_fusionVars => FusionIInv'
<1>. SUFFICES ASSUME FusionIInv, [FusionNext]_fusionVars PROVE FusionIInv'
  OBVIOUS
<1>1. CASE Report
  <2>1. PICK p \in Place, e \in Estimate :
          estimate' = [estimate EXCEPT ![p] = e] /\ fused' = Fuse(estimate')
    BY <1>1 DEF Report
  <2>. QED BY <2>1 DEF FusionIInv
<1>2. CASE UNCHANGED fusionVars
  BY <1>2 DEF fusionVars, FusionIInv
<1>. QED BY <1>1, <1>2 DEF FusionNext

LEMMA FusionStart == FusionInit => FusionIInv
<1>. SUFFICES ASSUME FusionInit PROVE FusionIInv
  OBVIOUS
<1>1. estimate \in [Place -> Estimate]
  BY FusionAssumption DEF FusionInit, Estimate, Silent, FusionAssumption
<1>2. Voted(estimate) = {}
  BY DEF FusionInit, Voted, Votes, Silent
<1>. QED BY <1>1, <1>2 DEF FusionInit, FusionIInv, Fuse

\* For every number of receivers, zones and weights, the order in which the
\* receivers are listed does not decide the position (fusePositionEstimates).
THEOREM OrderDoesNotDecide == FusionSpec => []FusionOrderFree
<1>1. ASSUME FusionIInv PROVE FusionOrderFree
  <2>. SUFFICES ASSUME NEW p \in Place, NEW q \in Place
                PROVE  Fuse([estimate EXCEPT ![p] = estimate[q], ![q] = estimate[p]]) = fused
    BY DEF FusionOrderFree
  <2>. DEFINE order == [r \in Place |-> IF r = p THEN q ELSE IF r = q THEN p ELSE r]
  <2>1. order \in Injection(Place, Place)
    BY DEF Injection, IsInjective
  <2>2. estimate \in [Place -> Estimate] /\ fused = Fuse(estimate)
    BY <1>1 DEF FusionIInv
  <2>3. Moved(estimate, order) = [estimate EXCEPT ![p] = estimate[q], ![q] = estimate[p]]
    BY <2>2 DEF Moved
  <2>. HIDE DEF order
  <2>. QED BY <2>1, <2>2, <2>3, FusesTheSame
<1>. QED BY <1>1, FusionStart, FusionStep, PTL DEF FusionSpec
=============================================================================
