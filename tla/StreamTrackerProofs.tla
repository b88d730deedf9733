-------------------------- MODULE StreamTrackerProofs --------------------------
(***************************************************************************)
(* For every number of receivers, every even modulus, every bound on the   *)
(* delay below half of it and every reordering, duplication and loss: the  *)
(* tracker's counters describe what was really sent, and its reboots the   *)
(* boots that were heard of.                                               *)
(***************************************************************************)
EXTENDS StreamTracker, WrappingNumbers

-----------------------------------------------------------------------------
(* One stream: its counters s, the set S of the numbers that arrived, and  *)
(* the newest of them, N.                                                  *)

Spanned(s) == s.received - s.outOfOrder - s.duplicates + s.lost
Oldest(s, N) == N - Spanned(s) + 1

Truthful(s, S, N) ==
  /\ N \in S /\ \A i \in S : i <= N
  /\ Oldest(s, N) \in S
  /\ s.last = N % Modulus
  /\ s.first = Oldest(s, N) % Modulus
  /\ Gaps(S, Oldest(s, N), N) <= s.lost
  /\ s.lost <= Gaps(S, Oldest(s, N), N) + s.outOfOrder

Received(s) == [s EXCEPT !.received = @ + 1]

LEMMA Numbers ==
  /\ Modulus \in Nat \ {0} /\ Half \in Nat /\ MaxDelay \in Nat
  /\ Modulus = 2 * Half /\ MaxDelay < Half
  /\ MaxBoot \in Nat \ {0} /\ MaxSent \in Nat
  /\ \A n \in Nat : n % Modulus \in 0..Modulus - 1
BY TrackerAssumption DEF TrackerAssumption, Half

LEMMA FirstTruthful ==
  ASSUME NEW n \in Nat
  PROVE  Truthful(Received(FirstOf(n % Modulus)), {n}, n)
<1>. DEFINE t == Received(FirstOf(n % Modulus))
<1>1. /\ t.received = 1 /\ t.lost = 0 /\ t.outOfOrder = 0 /\ t.duplicates = 0
      /\ t.first = n % Modulus /\ t.last = n % Modulus
  BY DEF Received, FirstOf, NoCounters
<1>2. Oldest(t, n) = n
  BY <1>1 DEF Oldest, Spanned
<1>3. (n..n) \ {n} = {}
  OBVIOUS
<1>4. Gaps({n}, n, n) = 0
  BY <1>3, FS_EmptySet DEF Gaps
<1>. HIDE DEF t
<1>5. Truthful(t, {n}, n)
  BY <1>1, <1>2, <1>4 DEF Truthful
<1>. QED BY <1>5 DEF t

LEMMA AdvanceTruthful ==
  ASSUME NEW s \in Counters, NEW S \in SUBSET Nat, NEW N \in Nat, NEW n \in Nat,
         Truthful(s, S, N), N - n <= MaxDelay, n - N < Half
  PROVE  Truthful(Received(Advance(s, n % Modulus)), S \cup {n},
                  IF n > N THEN n ELSE N)
<1>. DEFINE t == Received(Advance(s, n % Modulus))
            D == Delta(Modulus, n, N)
<1>1. /\ s.received \in Nat /\ s.lost \in Nat /\ s.outOfOrder \in Nat
      /\ s.duplicates \in Nat
  BY DEF Counters
<1>2. /\ Oldest(s, N) \in S /\ Oldest(s, N) \in Int /\ Oldest(s, N) <= N
      /\ N \in Int /\ n \in Int
  BY <1>1 DEF Truthful, Oldest, Spanned
<1>3. /\ Modulus \in Nat \ {0} /\ Half \in Nat /\ MaxDelay \in Nat
      /\ Modulus = 2 * Half /\ MaxDelay < Half
  BY Numbers
<1>4. D = IF n >= N THEN n - N ELSE n - N + Modulus
  BY <1>3, DeltaIs
<1>5. /\ D = 0 => Advance(s, n % Modulus) = [s EXCEPT !.duplicates = @ + 1]
      /\ D # 0 /\ D >= Half
           => Advance(s, n % Modulus) = [s EXCEPT !.outOfOrder = @ + 1]
      /\ D # 0 /\ ~(D >= Half)
           => Advance(s, n % Modulus)
                = [s EXCEPT !.lost = @ + D - 1, !.last = n % Modulus]
  BY DEF Truthful, Advance, Backwards, Delta
<1>. HIDE DEF D
<1>6. Gaps(S, Oldest(s, N), N) \in Nat
  BY <1>2, GapsType, Zenon
<1>7. CASE n = N
  <2>1. D = 0
    BY <1>4, <1>7
  <2>2. /\ t.received = s.received + 1 /\ t.duplicates = s.duplicates + 1
        /\ t.lost = s.lost /\ t.outOfOrder = s.outOfOrder
        /\ t.first = s.first /\ t.last = s.last
    BY <1>5, <2>1 DEF Received, Counters
  <2>. HIDE DEF t
  <2>3. S \cup {n} = S
    BY <1>7 DEF Truthful
  <2>4. Oldest(t, N) = Oldest(s, N)
    BY <1>1, <2>2 DEF Oldest, Spanned
  <2>5. Truthful(t, S, N)
    BY <2>2, <2>4 DEF Truthful
  <2>6. (IF n > N THEN n ELSE N) = N
    BY <1>7
  <2>. QED BY <2>3, <2>5, <2>6 DEF t
<1>8. CASE n < N
  <2>1. D # 0 /\ D >= Half
    BY <1>3, <1>4, <1>8
  <2>2. /\ t.received = s.received + 1 /\ t.duplicates = s.duplicates
        /\ t.lost = s.lost /\ t.outOfOrder = s.outOfOrder + 1
        /\ t.first = s.first /\ t.last = s.last
    BY <1>5, <2>1 DEF Received, Counters
  <2>. HIDE DEF t
  <2>3. Oldest(t, N) = Oldest(s, N)
    BY <1>1, <2>2 DEF Oldest, Spanned
  <2>4. /\ Gaps(S \cup {n}, Oldest(s, N), N) <= Gaps(S, Oldest(s, N), N)
        /\ Gaps(S, Oldest(s, N), N) <= Gaps(S \cup {n}, Oldest(s, N), N) + 1
    BY <1>2, LateFills, Zenon
  <2>5. Gaps(S \cup {n}, Oldest(s, N), N) \in Nat
    BY <1>2, GapsType, Zenon
  <2>6. /\ Gaps(S \cup {n}, Oldest(s, N), N) <= s.lost
        /\ s.lost <= Gaps(S \cup {n}, Oldest(s, N), N) + (s.outOfOrder + 1)
    BY <1>1, <1>6, <2>4, <2>5 DEF Truthful
  <2>7. \A i \in S \cup {n} : i <= N
    BY <1>8 DEF Truthful
  <2>8. Truthful(t, S \cup {n}, N)
    BY <2>2, <2>3, <2>6, <2>7 DEF Truthful
  <2>9. (IF n > N THEN n ELSE N) = N
    BY <1>8
  <2>. QED BY <2>8, <2>9 DEF t
<1>9. CASE n > N
  <2>1. D # 0 /\ ~(D >= Half) /\ D = n - N
    BY <1>3, <1>4, <1>9
  <2>2. /\ t.received = s.received + 1 /\ t.duplicates = s.duplicates
        /\ t.lost = s.lost + (n - N) - 1 /\ t.outOfOrder = s.outOfOrder
        /\ t.first = s.first /\ t.last = n % Modulus
    BY <1>5, <2>1 DEF Received, Counters
  <2>. HIDE DEF t
  <2>3. Oldest(t, n) = Oldest(s, N)
    BY <1>1, <2>2 DEF Oldest, Spanned
  <2>4. Gaps(S \cup {n}, Oldest(s, N), n) = Gaps(S, Oldest(s, N), N) + (n - N - 1)
    <3>1. N < n /\ S \subseteq Int /\ \A i \in S : i <= N
      BY <1>9 DEF Truthful
    <3>. QED BY <1>2, <3>1, NewerOpens, Zenon
  <2>5. /\ Gaps(S \cup {n}, Oldest(s, N), n) <= t.lost
        /\ t.lost <= Gaps(S \cup {n}, Oldest(s, N), n) + t.outOfOrder
    BY <1>1, <1>6, <2>2, <2>4 DEF Truthful
  <2>6. \A i \in S \cup {n} : i <= n
    BY <1>9 DEF Truthful
  <2>7. Truthful(t, S \cup {n}, n)
    BY <2>2, <2>3, <2>5, <2>6 DEF Truthful
  <2>8. (IF n > N THEN n ELSE N) = n
    BY <1>9
  <2>. QED BY <2>7, <2>8 DEF t
<1>. QED BY <1>7, <1>8, <1>9

-----------------------------------------------------------------------------
(* The streams of a state.                                                 *)

LEMMA StreamsTruthful ==
  ASSUME TrackerTypeOK, NEW k \in known,
         NEW N \in arrived[k], \A i \in arrived[k] : i <= N
  PROVE  /\ Newest(k) = N
         /\ (Truthful(stream[k], arrived[k], N)
              <=> /\ Newest(k) - Span(k) + 1 \in arrived[k]
                  /\ stream[k].last = Newest(k) % Modulus
                  /\ stream[k].first = (Newest(k) - Span(k) + 1) % Modulus
                  /\ Missing(k) <= stream[k].lost
                  /\ stream[k].lost <= Missing(k) + stream[k].outOfOrder)
<1>1. arrived[k] \in SUBSET Int
  BY DEF TrackerTypeOK
<1>2. Newest(k) = N
  BY <1>1, MaxIs DEF Newest
<1>3. Oldest(stream[k], N) = Newest(k) - Span(k) + 1
  BY <1>2 DEF Oldest, Spanned, Span
<1>4. Missing(k) = Gaps(arrived[k], Oldest(stream[k], N), N)
  BY <1>2, <1>3, Zenon DEF Missing, Gaps
<1>. QED BY <1>2, <1>3, <1>4, Zenon DEF Truthful

\* What the invariant says of one stream.
StreamOK(k) ==
  /\ k \in known <=> arrived[k] # {}
  /\ k \in known => \E N \in arrived[k] : Truthful(stream[k], arrived[k], N)

StreamsOK == \A k \in Stream : StreamOK(k)

LEMMA StreamByStream ==
  TrackerTypeOK => (StreamsOK <=> KnownByArrival /\ SpanIsTrue /\ LossBounded)
<1>. SUFFICES ASSUME TrackerTypeOK
     PROVE  StreamsOK <=> KnownByArrival /\ SpanIsTrue /\ LossBounded
  OBVIOUS
<1>1. known \subseteq Stream
  BY DEF TrackerTypeOK
<1>2. ASSUME \A k \in Stream : StreamOK(k)
      PROVE  KnownByArrival /\ SpanIsTrue /\ LossBounded
  <2>1. KnownByArrival
    BY <1>2, Zenon DEF KnownByArrival, StreamOK, Truthful
  <2>2. ASSUME NEW k \in known
        PROVE  /\ Newest(k) - Span(k) + 1 \in arrived[k]
               /\ stream[k].last = Newest(k) % Modulus
               /\ stream[k].first = (Newest(k) - Span(k) + 1) % Modulus
               /\ Missing(k) <= stream[k].lost
               /\ stream[k].lost <= Missing(k) + stream[k].outOfOrder
    <3>1. PICK N \in arrived[k] : Truthful(stream[k], arrived[k], N)
      BY <1>1, <1>2, <2>2, Zenon DEF StreamOK
    <3>2. \A i \in arrived[k] : i <= N
      BY <3>1 DEF Truthful
    <3>. QED BY <3>1, <3>2, StreamsTruthful, Zenon
  <2>. QED BY <2>1, <2>2, Zenon DEF SpanIsTrue, LossBounded
<1>3. ASSUME KnownByArrival, SpanIsTrue, LossBounded, NEW k \in Stream
      PROVE  StreamOK(k)
  <2>1. ASSUME k \in known
        PROVE  \E N \in arrived[k] : Truthful(stream[k], arrived[k], N)
    <3>1. PICK N \in arrived[k] : \A i \in arrived[k] : i <= N
      BY <1>3, <2>1, Zenon DEF KnownByArrival
    <3>2. Truthful(stream[k], arrived[k], N)
      BY <1>3, <2>1, <3>1, StreamsTruthful, Zenon DEF SpanIsTrue, LossBounded
    <3>. QED BY <3>2, Zenon
  <2>. QED BY <1>3, <2>1, Zenon DEF StreamOK, KnownByArrival
<1>. QED BY <1>2, <1>3, Zenon DEF StreamsOK

LEMMA StreamByStreamNext ==
  ASSUME TrackerTypeOK', \A k \in Stream : StreamOK(k)'
  PROVE  KnownByArrival' /\ SpanIsTrue' /\ LossBounded'
<1>1. StreamsOK'
  BY DEF StreamsOK
<1>. QED BY <1>1, StreamByStream, PTL

\* The newest datagram of a known stream is in reach.
LEMMA NewestIs ==
  ASSUME TrackerTypeOK, KnownByArrival, NEW k \in Stream, k \in known
  PROVE  /\ Newest(k) \in arrived[k] /\ Newest(k) \in Nat
         /\ \A i \in arrived[k] : i <= Newest(k)
<1>1. PICK N \in arrived[k] : \A i \in arrived[k] : i <= N
  BY Zenon DEF KnownByArrival
<1>2. arrived[k] \in SUBSET Int /\ arrived[k] \in SUBSET Nat
  BY DEF TrackerTypeOK
<1>3. Newest(k) = N
  BY <1>1, <1>2, MaxIs DEF Newest
<1>. QED BY <1>1, <1>2, <1>3

-----------------------------------------------------------------------------
(* The steps.                                                              *)

LEMMA AdvanceType ==
  ASSUME NEW s \in Counters, NEW seq \in 0..Modulus - 1
  PROVE  Received(Advance(s, seq)) \in Counters /\ Received(FirstOf(seq)) \in Counters
<1>. DEFINE D == (seq - s.last) % Modulus
<1>1. /\ s.first \in 0..Modulus - 1 /\ s.last \in 0..Modulus - 1
      /\ s.received \in Nat /\ s.lost \in Nat /\ s.outOfOrder \in Nat
      /\ s.duplicates \in Nat
  BY DEF Counters
<1>2. Modulus \in Nat \ {0} /\ 0 \in 0..Modulus - 1
  BY Numbers
<1>3. D \in Nat
  BY <1>1, <1>2
<1>4. /\ D = 0 => Advance(s, seq) = [s EXCEPT !.duplicates = s.duplicates + 1]
      /\ D # 0 => \/ Advance(s, seq) = [s EXCEPT !.outOfOrder = s.outOfOrder + 1]
                  \/ Advance(s, seq) = [s EXCEPT !.lost = s.lost + D - 1, !.last = seq]
  BY DEF Advance
<1>5. D # 0 => s.lost + D - 1 \in Nat
  BY <1>1, <1>3
<1>. HIDE DEF D
<1>6. \A c \in Counters : Received(c) \in Counters
  BY DEF Counters, Received
<1>7. [s EXCEPT !.duplicates = s.duplicates + 1] \in Counters
  BY <1>1 DEF Counters
<1>8. [s EXCEPT !.outOfOrder = s.outOfOrder + 1] \in Counters
  BY <1>1 DEF Counters
<1>9. D # 0 => [s EXCEPT !.lost = s.lost + D - 1, !.last = seq] \in Counters
  BY <1>5 DEF Counters
<1>10. Advance(s, seq) \in Counters
  BY <1>4, <1>7, <1>8, <1>9
<1>11. FirstOf(seq) \in Counters
  <2>1. NoCounters \in Counters
    BY <1>2 DEF NoCounters, Counters
  <2>. QED BY <2>1 DEF FirstOf, Counters
<1>. QED BY <1>6, <1>10, <1>11

LEMMA InAir ==
  ASSUME TrackerTypeOK, NEW m \in air
  PROVE  /\ m[1] \in Device /\ m[2] \in 1..MaxBoot /\ m[3] \in 0..MaxSent
         /\ m[3] \in Nat /\ <<m[1], m[2]>> \in Stream
BY DEF TrackerTypeOK, Stream

\* What Deliver does to the streams.
LEMMA DeliverIs ==
  ASSUME TrackerTypeOK, NEW m \in air, Deliver(m), NEW k, k = <<m[1], m[2]>>
  PROVE  /\ k \in Stream /\ m[3] \in Nat
         /\ known' = known \cup {k}
         /\ \A j \in Stream \ {k} : stream'[j] = stream[j] /\ arrived'[j] = arrived[j]
         /\ arrived'[k] = arrived[k] \cup {m[3]}
         /\ stream'[k] = IF k \in known THEN Received(Advance(stream[k], m[3] % Modulus))
                                        ELSE Received(FirstOf(m[3] % Modulus))
         /\ DOMAIN stream' = Stream /\ DOMAIN arrived' = Stream
<1>1. k \in Stream /\ m[3] \in Nat
  BY InAir
<1>2. /\ DOMAIN stream = Stream /\ DOMAIN arrived = Stream
  BY DEF TrackerTypeOK
<1>3. /\ known' = known \cup {k}
      /\ stream' = [stream EXCEPT ![k] =
               LET s == IF k \in known THEN Advance(@, m[3] % Modulus) ELSE FirstOf(m[3] % Modulus)
               IN  [s EXCEPT !.received = @ + 1]]
      /\ arrived' = [arrived EXCEPT ![k] = @ \cup {m[3]}]
  BY DEF Deliver, RecordStream
<1>4. stream'[k] = IF k \in known THEN Received(Advance(stream[k], m[3] % Modulus))
                                        ELSE Received(FirstOf(m[3] % Modulus))
  BY <1>1, <1>2, <1>3 DEF Received
<1>. QED BY <1>1, <1>2, <1>3, <1>4

LEMMA TypeStep ==
  ASSUME TrackerTypeOK, TrackerNext
  PROVE  TrackerTypeOK'
<1>1. CASE \E d \in Device : Transmit(d) \/ Reboot(d)
  <2>. PICK d \in Device : Transmit(d) \/ Reboot(d)
    BY <1>1
  <2>1. CASE Transmit(d)
    <3>1. sent[d] \in 0..MaxSent /\ sent[d] + 1 \in 0..MaxSent
      <4>1. MaxSent \in Nat /\ sent[d] \in 0..MaxSent /\ sent[d] < MaxSent
        BY <2>1, Numbers DEF TrackerTypeOK, Transmit
      <4>. QED BY <4>1
    <3>2. /\ sent' = [sent EXCEPT ![d] = sent[d] + 1]
          /\ air' = air \cup {<<d, boot[d], sent[d]>>}
          /\ UNCHANGED <<boot, boots, known, stream, total, invalid, reboots, arrived>>
      BY <2>1 DEF Transmit, trackerVars
    <3>. QED BY <3>1, <3>2 DEF TrackerTypeOK
  <2>2. CASE Reboot(d)
    <3>1. boot[d] + 1 \in 1..MaxBoot /\ 0 \in 0..MaxSent
      <4>1. /\ MaxSent \in Nat /\ MaxBoot \in Nat
            /\ boot[d] \in 1..MaxBoot /\ boot[d] < MaxBoot
        BY <2>2, Numbers DEF TrackerTypeOK, Reboot
      <4>. QED BY <4>1
    <3>2. /\ boot' = [boot EXCEPT ![d] = boot[d] + 1] /\ sent' = [sent EXCEPT ![d] = 0]
          /\ UNCHANGED <<air, boots, known, stream, total, invalid, reboots, arrived>>
      BY <2>2 DEF Reboot, trackerVars
    <3>. QED BY <3>1, <3>2 DEF TrackerTypeOK
  <2>. QED BY <2>1, <2>2
<1>2. CASE \E m \in air : Lose(m) \/ Deliver(m) \/ DeliverCorrupt(m)
  <2>. PICK m \in air : Lose(m) \/ Deliver(m) \/ DeliverCorrupt(m)
    BY <1>2
  <2>1. CASE Lose(m)
    BY <2>1 DEF TrackerTypeOK, Lose, receiverVars, trackerVars
  <2>2. CASE DeliverCorrupt(m)
    BY <2>2 DEF TrackerTypeOK, DeliverCorrupt, receiverVars
  <2>3. CASE Deliver(m)
    <3>. DEFINE k == <<m[1], m[2]>>
    <3>1. /\ m[1] \in Device /\ m[2] \in 1..MaxBoot /\ m[3] \in 0..MaxSent
          /\ m[3] \in Nat /\ k \in Stream
      BY InAir
    <3>2. /\ boot' = boot /\ sent' = sent /\ invalid' = invalid /\ total' = total + 1
          /\ reboots' \in {reboots, reboots + 1} /\ air' \in {air, air \ {m}}
          /\ boots' = [boots EXCEPT ![m[1]] = @ \cup {m[2]}]
          /\ known' = known \cup {k}
          /\ arrived' = [arrived EXCEPT ![k] = @ \cup {m[3]}]
          /\ RecordStream(k, m[3] % Modulus)
      <4>1. reboots \in Nat
        BY DEF TrackerTypeOK
      <4>. QED BY <2>3, <4>1 DEF Deliver, receiverVars
    <3>3. stream[k] \in Counters /\ m[3] % Modulus \in 0..Modulus - 1
      BY <3>1, Numbers DEF TrackerTypeOK
    <3>4. /\ Received(Advance(stream[k], m[3] % Modulus)) \in Counters
          /\ Received(FirstOf(m[3] % Modulus)) \in Counters
      BY <3>3, AdvanceType
    <3>5. /\ \A j \in Stream \ {k} : stream'[j] = stream[j]
          /\ stream'[k] \in Counters
          /\ DOMAIN stream' = Stream
      BY <2>3, <3>4, DeliverIs
    <3>6. stream \in [Stream -> Counters]
      BY DEF TrackerTypeOK
    <3>7. \E x : stream' = [stream EXCEPT ![k] = x]
      BY <3>2 DEF RecordStream
    <3>. HIDE DEF k
    <3>8. stream' \in [Stream -> Counters]
      BY <3>1, <3>5, <3>6, <3>7
    <3>9. air' \subseteq Device \X (1..MaxBoot) \X (0..MaxSent)
      BY <3>2 DEF TrackerTypeOK
    <3>10. /\ boots' \in [Device -> SUBSET (1..MaxBoot)] /\ known' \subseteq Stream
           /\ arrived' \in [Stream -> SUBSET (0..MaxSent)]
      BY <3>1, <3>2 DEF TrackerTypeOK
    <3>11. total' \in Nat /\ invalid' \in Nat /\ reboots' \in Nat
      BY <3>2 DEF TrackerTypeOK
    <3>12. boot' \in [Device -> 1..MaxBoot] /\ sent' \in [Device -> 0..MaxSent]
      BY <3>2 DEF TrackerTypeOK
    <3>. QED BY <3>8, <3>9, <3>10, <3>11, <3>12, Zenon DEF TrackerTypeOK
  <2>. QED BY <2>1, <2>2, <2>3
<1>. QED BY <1>1, <1>2 DEF TrackerNext

\* A delivery leaves every stream with true counters.
LEMMA StreamsStep ==
  ASSUME TrackerTypeOK, NearInAir, \A j \in Stream : StreamOK(j),
         NEW m \in air, Deliver(m), NEW j \in Stream
  PROVE  StreamOK(j)'
<1>. DEFINE k == <<m[1], m[2]>>
            n == m[3]
<1>1. /\ k \in Stream /\ n \in Nat
      /\ known' = known \cup {k}
      /\ \A i \in Stream \ {k} : stream'[i] = stream[i] /\ arrived'[i] = arrived[i]
      /\ arrived'[k] = arrived[k] \cup {n}
      /\ stream'[k] = IF k \in known THEN Received(Advance(stream[k], n % Modulus))
                                     ELSE Received(FirstOf(n % Modulus))
  BY DeliverIs
<1>2. /\ arrived[k] \in SUBSET Nat /\ stream[k] \in Counters
      /\ KnownByArrival
  BY <1>1, StreamByStream DEF TrackerTypeOK, StreamsOK
<1>3. k \in known => Newest(k) - n <= MaxDelay /\ n - Newest(k) < Half
  BY DEF NearInAir
<1>. HIDE DEF k, n
<1>4. StreamOK(k) /\ StreamOK(j)
  BY <1>1
<1>5. CASE j # k
  <2>1. stream'[j] = stream[j] /\ arrived'[j] = arrived[j] /\ (j \in known' <=> j \in known)
    BY <1>1, <1>5
  <2>. QED BY <1>4, <2>1, Zenon DEF StreamOK
<1>6. CASE j = k /\ k \notin known
  <2>1. arrived'[k] = {n} /\ stream'[k] = Received(FirstOf(n % Modulus)) /\ k \in known'
    BY <1>1, <1>4, <1>6 DEF StreamOK
  <2>2. Truthful(stream'[k], arrived'[k], n)
    BY <1>1, <2>1, FirstTruthful
  <2>3. n \in arrived'[k] /\ arrived'[k] # {}
    BY <2>1
  <2>. QED BY <1>6, <2>1, <2>2, <2>3, Zenon DEF StreamOK
<1>7. CASE j = k /\ k \in known
  <2>1. PICK N \in arrived[k] : Truthful(stream[k], arrived[k], N)
    BY <1>4, <1>7 DEF StreamOK
  <2>2. \A i \in arrived[k] : i <= N
    BY <2>1 DEF Truthful
  <2>3. Newest(k) = N
    BY <1>7, <2>2, StreamsTruthful
  <2>4. N \in Nat /\ N - n <= MaxDelay /\ n - N < Half
    BY <1>2, <1>3, <1>7, <2>3
  <2>. DEFINE K == IF n > N THEN n ELSE N
  <2>5. Truthful(stream'[k], arrived'[k], K)
    <3>1. stream'[k] = Received(Advance(stream[k], n % Modulus))
      BY <1>1, <1>7
    <3>2. Truthful(Received(Advance(stream[k], n % Modulus)), arrived[k] \cup {n}, K)
      BY <1>1, <1>2, <2>1, <2>4, AdvanceTruthful
    <3>. QED BY <1>1, <3>1, <3>2
  <2>6. K \in arrived'[k] /\ arrived'[k] # {} /\ k \in known'
    BY <1>1, <2>1
  <2>. QED BY <1>7, <2>5, <2>6, Zenon DEF StreamOK
<1>. QED BY <1>5, <1>6, <1>7

\* A step that leaves what arrived alone leaves the streams alone.
LEMMA StreamsKept ==
  ASSUME UNCHANGED <<known, stream, arrived>>, NEW j \in Stream, StreamOK(j)
  PROVE  StreamOK(j)'
BY Zenon DEF StreamOK

LEMMA SentStep ==
  ASSUME TrackerTypeOK, SentBefore, TrackerNext
  PROVE  SentBefore'
<1>1. /\ \A o \in air : /\ o[2] <= boot[o[1]]
                        /\ o[2] = boot[o[1]] => o[3] < sent[o[1]]
                        /\ o[1] \in Device /\ o[2] \in 1..MaxBoot /\ o[3] \in Nat
      /\ \A e \in Device, b \in 1..MaxBoot :
           /\ b > boot[e] => arrived[<<e, b>>] = {}
           /\ b = boot[e] => \A n \in arrived[<<e, b>>] : n < sent[e]
           /\ \A n \in arrived[<<e, b>>] : n \in Nat
  <2>1. \A o \in air : o[1] \in Device /\ o[2] \in 1..MaxBoot /\ o[3] \in Nat
    BY InAir
  <2>2. \A e \in Device, b \in 1..MaxBoot : \A n \in arrived[<<e, b>>] : n \in Nat
    BY DEF TrackerTypeOK, Stream
  <2>3. AirSent /\ ArrivedSent
    BY DEF SentBefore
  <2>4. \A o \in air : o[2] <= boot[o[1]] /\ (o[2] = boot[o[1]] => o[3] < sent[o[1]])
    BY <2>3, Zenon DEF AirSent
  <2>5. \A e \in Device, b \in 1..MaxBoot :
           /\ b > boot[e] => arrived[<<e, b>>] = {}
           /\ b = boot[e] => \A n \in arrived[<<e, b>>] : n < sent[e]
    BY <2>3 DEF ArrivedSent
  <2>. QED BY <2>1, <2>2, <2>4, <2>5
<1>2. \A e \in Device : boot[e] \in Int /\ sent[e] \in Nat
  BY DEF TrackerTypeOK
<1>3. DOMAIN boot = Device /\ DOMAIN sent = Device
  BY DEF TrackerTypeOK
<1>4. ASSUME NEW d \in Device, Transmit(d)
      PROVE  SentBefore'
  <2>1. /\ boot' = boot /\ arrived' = arrived
        /\ sent' = [sent EXCEPT ![d] = sent[d] + 1]
        /\ air' = air \cup {<<d, boot[d], sent[d]>>}
    BY <1>4 DEF Transmit
  <2>2. \A e \in Device : sent'[e] = IF e = d THEN sent[d] + 1 ELSE sent[e]
    BY <1>3, <2>1
  <2>3. \A o \in air' : /\ o[2] <= boot'[o[1]]
                        /\ o[2] = boot'[o[1]] => o[3] < sent'[o[1]]
    BY <1>1, <1>2, <2>1, <2>2
  <2>4. ASSUME NEW e \in Device, NEW b \in 1..MaxBoot
        PROVE  /\ b > boot'[e] => arrived'[<<e, b>>] = {}
               /\ b = boot'[e] => \A n \in arrived'[<<e, b>>] : n < sent'[e]
    <3>1. sent[e] <= sent'[e] /\ sent'[e] \in Nat /\ sent[e] \in Nat
      BY <1>2, <2>2
    <3>2. \A n \in arrived[<<e, b>>] : n \in Nat /\ (b = boot[e] => n < sent[e])
      BY <1>1
    <3>. QED BY <1>1, <2>1, <3>1, <3>2
  <2>6. \A e \in Device, b \in 1..MaxBoot :
           /\ b > boot'[e] => arrived'[<<e, b>>] = {}
           /\ b = boot'[e] => \A n \in arrived'[<<e, b>>] : n < sent'[e]
    BY <2>4
  <2>7. AirSent'
    BY <2>3 DEF AirSent
  <2>8. ArrivedSent'
    BY <2>6 DEF ArrivedSent
  <2>. QED BY <2>7, <2>8 DEF SentBefore
<1>5. ASSUME NEW d \in Device, Reboot(d)
      PROVE  SentBefore'
  <2>1. /\ air' = air /\ arrived' = arrived
        /\ boot' = [boot EXCEPT ![d] = boot[d] + 1] /\ sent' = [sent EXCEPT ![d] = 0]
    BY <1>5 DEF Reboot
  <2>2. \A e \in Device : boot'[e] = IF e = d THEN boot[d] + 1 ELSE boot[e]
    BY <1>3, <2>1
  <2>3. \A e \in Device : e # d => sent'[e] = sent[e]
    BY <1>3, <2>1
  <2>4. \A o \in air' : /\ o[2] <= boot'[o[1]]
                        /\ o[2] = boot'[o[1]] => o[3] < sent'[o[1]]
    BY <1>1, <1>2, <2>1, <2>2, <2>3
  <2>5. ASSUME NEW e \in Device, NEW b \in 1..MaxBoot
        PROVE  /\ b > boot'[e] => arrived'[<<e, b>>] = {}
               /\ b = boot'[e] => \A n \in arrived'[<<e, b>>] : n < sent'[e]
    <3>1. CASE e = d
      <4>1. b >= boot'[e] => b > boot[e]
        BY <1>2, <2>2, <3>1
      <4>2. b > boot[e] => arrived'[<<e, b>>] = {}
        BY <1>1, <2>1
      <4>3. boot'[e] \in Int
        BY <1>2, <2>2
      <4>. QED BY <4>1, <4>2, <4>3
    <3>2. CASE e # d
      BY <1>1, <2>1, <2>2, <2>3, <3>2
    <3>. QED BY <3>1, <3>2
  <2>6. \A e \in Device, b \in 1..MaxBoot :
           /\ b > boot'[e] => arrived'[<<e, b>>] = {}
           /\ b = boot'[e] => \A n \in arrived'[<<e, b>>] : n < sent'[e]
    BY <2>5
  <2>7. AirSent'
    BY <2>4 DEF AirSent
  <2>8. ArrivedSent'
    BY <2>6 DEF ArrivedSent
  <2>. QED BY <2>7, <2>8 DEF SentBefore
<1>6. ASSUME NEW m \in air, Deliver(m)
      PROVE  SentBefore'
  <2>1. /\ boot' = boot /\ sent' = sent /\ air' \subseteq air
    BY <1>6 DEF Deliver, receiverVars
  <2>2. /\ arrived'[<<m[1], m[2]>>] = arrived[<<m[1], m[2]>>] \cup {m[3]}
        /\ \A j \in Stream \ {<<m[1], m[2]>>} : arrived'[j] = arrived[j]
    BY <1>6, DeliverIs
  <2>3. ASSUME NEW e \in Device, NEW b \in 1..MaxBoot
        PROVE  /\ b > boot'[e] => arrived'[<<e, b>>] = {}
               /\ b = boot'[e] => \A n \in arrived'[<<e, b>>] : n < sent'[e]
    <3>1. <<e, b>> \in Stream
      BY DEF Stream
    <3>2. CASE e = m[1] /\ b = m[2]
      BY <1>1, <1>2, <2>1, <2>2, <3>2
    <3>3. CASE ~(e = m[1] /\ b = m[2])
      <4>1. arrived'[<<e, b>>] = arrived[<<e, b>>]
        BY <2>2, <3>1, <3>3
      <4>. QED BY <1>1, <2>1, <4>1
    <3>. QED BY <3>2, <3>3
  <2>. QED BY <1>1, <2>1, <2>3 DEF SentBefore, AirSent, ArrivedSent
<1>7. ASSUME NEW m \in air, Lose(m) \/ DeliverCorrupt(m)
      PROVE  SentBefore'
  <2>1. boot' = boot /\ sent' = sent /\ air' \subseteq air /\ arrived' = arrived
    BY <1>7 DEF Lose, DeliverCorrupt, receiverVars
  <2>. QED BY <1>1, <2>1 DEF SentBefore, AirSent, ArrivedSent
<1>. QED BY <1>4, <1>5, <1>6, <1>7 DEF TrackerNext

\* Nothing but a Transmit brings numbers apart, and it waits for those on the
\* network; a delivery may take one of them for the newest.
LEMMA NearStep ==
  ASSUME TrackerTypeOK, SentBefore, NearInAir, KnownByArrival, TrackerTypeOK',
         KnownByArrival', TrackerNext
  PROVE  NearInAir'
<1>1. /\ MaxDelay \in Nat /\ Half \in Nat /\ MaxDelay < Half
  BY Numbers
<1>2. \A o \in air : /\ o[1] \in Device /\ o[2] \in 1..MaxBoot /\ o[3] \in Nat
                    /\ <<o[1], o[2]>> \in Stream
  BY InAir
<1>3. \A k \in known : /\ k \in Stream /\ Newest(k) \in arrived[k] /\ Newest(k) \in Nat
                       /\ \A i \in arrived[k] : i <= Newest(k)
  BY NewestIs DEF TrackerTypeOK
<1>4. \A k \in known' : /\ k \in Stream /\ Newest(k)' \in arrived'[k] /\ Newest(k)' \in Nat
                        /\ \A i \in arrived'[k] : i <= Newest(k)'
  <2>1. ASSUME NEW k \in known'
        PROVE  /\ k \in Stream /\ Newest(k)' \in arrived'[k] /\ Newest(k)' \in Nat
               /\ \A i \in arrived'[k] : i <= Newest(k)'
    <3>1. k \in Stream /\ arrived'[k] \in SUBSET Nat /\ arrived'[k] \in SUBSET Int
      BY DEF TrackerTypeOK
    <3>2. PICK N \in arrived'[k] : \A i \in arrived'[k] : i <= N
      BY <3>1, Zenon DEF KnownByArrival
    <3>3. Max(arrived'[k]) = N
      BY <3>1, <3>2, MaxIs
    <3>4. Newest(k)' = N
      BY <3>3 DEF Newest
    <3>. QED BY <3>1, <3>2, <3>4
  <2>. QED BY <2>1
<1>5. ASSUME NEW d \in Device, Transmit(d)
      PROVE  NearInAir'
  <2>. DEFINE x == <<d, boot[d], sent[d]>>
  <2>1. /\ known' = known /\ arrived' = arrived /\ air' = air \cup {x}
        /\ \A m \in air : m[1] = d /\ m[2] = boot[d] => sent[d] - m[3] <= MaxDelay
        /\ arrived[<<d, boot[d]>>] # {} => sent[d] - Max(arrived[<<d, boot[d]>>]) < Half
    BY <1>5 DEF Transmit, trackerVars
  <2>2. x[1] = d /\ x[2] = boot[d] /\ x[3] = sent[d]
    OBVIOUS
  <2>3. /\ sent[d] \in Nat /\ boot[d] \in 1..MaxBoot
        /\ \A m \in air : m[1] = d /\ m[2] = boot[d] => m[3] < sent[d]
        /\ \A n \in arrived[<<d, boot[d]>>] : n < sent[d]
    <3>1. sent[d] \in Nat /\ boot[d] \in 1..MaxBoot
      BY DEF TrackerTypeOK
    <3>2. \A m \in air : m[1] = d /\ m[2] = boot[d] => m[3] < sent[d]
      BY Zenon DEF SentBefore, AirSent
    <3>3. \A n \in arrived[<<d, boot[d]>>] : n < sent[d]
      BY <3>1 DEF SentBefore, ArrivedSent
    <3>. QED BY <3>1, <3>2, <3>3
  <2>4. \A k : Newest(k)' = Newest(k)
    BY <2>1 DEF Newest
  <2>5. <<d, boot[d]>> \in known
          => /\ sent[d] - Newest(<<d, boot[d]>>) < Half
             /\ Newest(<<d, boot[d]>>) < sent[d]
    BY <1>3, <2>1, <2>3 DEF Newest
  <2>. HIDE DEF x
  <2>6. ASSUME NEW m \in air', NEW o \in air', m[1] = o[1], m[2] = o[2]
        PROVE  m[3] - o[3] <= MaxDelay
    <3>1. m \in air /\ o \in air => m[3] - o[3] <= MaxDelay
      BY <2>6 DEF NearInAir
    <3>2. m = x /\ o \in air => m[3] - o[3] <= MaxDelay
      BY <2>1, <2>2, <2>6
    <3>3. m \in air /\ o = x => m[3] - o[3] <= MaxDelay
      BY <1>1, <1>2, <2>2, <2>3, <2>6
    <3>4. m = x /\ o = x => m[3] - o[3] <= MaxDelay
      BY <1>1, <2>2, <2>3
    <3>. QED BY <2>1, <3>1, <3>2, <3>3, <3>4
  <2>7. ASSUME NEW m \in air', NEW k, k = <<m[1], m[2]>>, k \in known'
        PROVE  Newest(k)' - m[3] <= MaxDelay /\ m[3] - Newest(k)' < Half
    <3>1. CASE m \in air
      BY <2>1, <2>4, <2>7, <3>1 DEF NearInAir
    <3>2. CASE m = x
      <4>1. k = <<d, boot[d]>> /\ Newest(k) \in Nat /\ m[3] = sent[d]
        BY <1>3, <2>1, <2>2, <2>7, <3>2
      <4>. QED BY <1>1, <2>1, <2>3, <2>4, <2>5, <2>7, <4>1
    <3>. QED BY <2>1, <3>1, <3>2
  <2>. QED BY <2>6, <2>7 DEF NearInAir
<1>6. ASSUME NEW m \in air, Deliver(m)
      PROVE  NearInAir'
  <2>. DEFINE k == <<m[1], m[2]>>
  <2>1. air' \subseteq air
    BY <1>6 DEF Deliver
  <2>2. /\ k \in Stream /\ known' = known \cup {k}
        /\ \A j \in Stream \ {k} : arrived'[j] = arrived[j]
        /\ arrived'[k] = arrived[k] \cup {m[3]}
    BY <1>6, DeliverIs
  <2>. HIDE DEF k
  <2>3. ASSUME NEW o \in air', NEW j, j = <<o[1], o[2]>>, j \in known'
        PROVE  Newest(j)' - o[3] <= MaxDelay /\ o[3] - Newest(j)' < Half
    <3>1. o \in air /\ j \in Stream /\ o[3] \in Nat /\ m[3] \in Nat
      BY <1>2, <1>4, <2>1, <2>3
    <3>2. CASE j # k
      <4>1. Newest(j)' = Newest(j) /\ j \in known
        BY <2>2, <2>3, <3>1, <3>2 DEF Newest
      <4>. QED BY <2>3, <3>1, <4>1 DEF NearInAir
    <3>3. CASE j = k
      <4>1. o[1] = m[1] /\ o[2] = m[2]
        BY <2>3, <3>3 DEF k
      <4>2. o[3] - m[3] <= MaxDelay /\ m[3] - o[3] <= MaxDelay
        BY <3>1, <4>1 DEF NearInAir
      <4>3. Newest(k)' = m[3] \/ Newest(k)' \in arrived[k]
        BY <1>4, <2>2, <2>3, <3>3
      <4>4. m[3] <= Newest(k)' /\ Newest(k)' \in Nat
        BY <1>4, <2>2, <2>3, <3>3
      <4>5. o[3] - Newest(k)' < Half
        BY <1>1, <3>1, <4>2, <4>4
      <4>6. CASE Newest(k)' = m[3]
        BY <3>3, <4>2, <4>5, <4>6
      <4>7. CASE Newest(k)' \in arrived[k]
        <5>1. k \in known
          BY <2>2, <4>7, Zenon DEF KnownByArrival
        <5>2. Newest(k)' <= Newest(k) /\ Newest(k) \in Nat
          BY <1>3, <4>7, <5>1
        <5>3. Newest(k) - o[3] <= MaxDelay
          BY <2>3, <3>1, <3>3, <5>1 DEF NearInAir
        <5>. QED BY <1>1, <3>1, <3>3, <4>4, <4>5, <5>2, <5>3
      <4>. QED BY <4>3, <4>6, <4>7
    <3>. QED BY <3>2, <3>3
  <2>. QED BY <2>1, <2>3 DEF NearInAir
<1>7. ASSUME UNCHANGED <<known, arrived>>, air' \subseteq air
      PROVE  NearInAir'
  <2>1. \A k : Newest(k)' = Newest(k)
    BY <1>7 DEF Newest
  <2>. QED BY <1>7, <2>1 DEF NearInAir
<1>8. ASSUME NEW d \in Device, Reboot(d)
      PROVE  NearInAir'
  BY <1>7, <1>8 DEF Reboot, trackerVars
<1>9. ASSUME NEW m \in air, Lose(m) \/ DeliverCorrupt(m)
      PROVE  NearInAir'
  BY <1>7, <1>9 DEF Lose, DeliverCorrupt, trackerVars
<1>. QED BY <1>5, <1>6, <1>8, <1>9 DEF TrackerNext

-----------------------------------------------------------------------------
(* The theorems.                                                           *)

LEMMA TrackerStarts == TrackerInit => TrackerIInv
<1>. SUFFICES ASSUME TrackerInit PROVE TrackerIInv
  OBVIOUS
<1>1. 1 \in 1..MaxBoot /\ 0 \in 0..MaxSent /\ 0 \in 0..Modulus - 1
  BY Numbers
<1>2. NoCounters \in Counters
  BY <1>1 DEF NoCounters, Counters
<1>3. TrackerTypeOK
  BY <1>1, <1>2 DEF TrackerInit, TrackerTypeOK
<1>4. SentBefore /\ NearInAir
  BY DEF TrackerInit, SentBefore, AirSent, ArrivedSent, NearInAir, Stream
<1>5. KnownByArrival /\ SpanIsTrue /\ LossBounded
  BY DEF TrackerInit, KnownByArrival, SpanIsTrue, LossBounded
<1>. QED BY <1>3, <1>4, <1>5 DEF TrackerIInv

LEMMA TrackerStep == TrackerIInv /\ [TrackerNext]_trackingVars => TrackerIInv'
<1>. SUFFICES ASSUME TrackerIInv, [TrackerNext]_trackingVars PROVE TrackerIInv'
  OBVIOUS
<1>1. /\ TrackerTypeOK /\ SentBefore /\ NearInAir /\ KnownByArrival
      /\ SpanIsTrue /\ LossBounded
  BY DEF TrackerIInv
<1>2. \A j \in Stream : StreamOK(j)
  BY <1>1, StreamByStream DEF StreamsOK
<1>3. CASE TrackerNext
  <2>1. TrackerTypeOK' /\ SentBefore'
    BY <1>1, <1>3, TypeStep, SentStep
  <2>2. \A j \in Stream : StreamOK(j)'
    <3>1. ASSUME NEW m \in air, Deliver(m), NEW j \in Stream
          PROVE  StreamOK(j)'
      BY <1>1, <1>2, <3>1, StreamsStep
    <3>2. (\E m \in air : Deliver(m)) \/ UNCHANGED <<known, stream, arrived>>
      BY <1>3 DEF TrackerNext, Transmit, Reboot, Lose, DeliverCorrupt, trackerVars
    <3>. QED BY <1>2, <3>1, <3>2, StreamsKept
  <2>3. KnownByArrival' /\ SpanIsTrue' /\ LossBounded'
    BY <2>1, <2>2, StreamByStreamNext
  <2>4. NearInAir'
    BY <1>1, <1>3, <2>1, <2>3, NearStep
  <2>. QED BY <2>1, <2>3, <2>4 DEF TrackerIInv
<1>4. CASE UNCHANGED trackingVars
  <2>1. UNCHANGED <<boot, sent, air, boots, known, stream, total, invalid, reboots, arrived>>
    BY <1>4 DEF trackingVars, receiverVars, trackerVars
  <2>2. TrackerTypeOK'
    BY <1>1, <2>1 DEF TrackerTypeOK
  <2>3. SentBefore'
    BY <1>1, <2>1 DEF SentBefore, AirSent, ArrivedSent
  <2>4. \A j \in Stream : StreamOK(j)'
    BY <1>2, <2>1, StreamsKept
  <2>5. KnownByArrival' /\ SpanIsTrue' /\ LossBounded'
    BY <2>2, <2>4, StreamByStreamNext
  <2>6. \A k : Newest(k)' = Newest(k)
    BY <2>1 DEF Newest
  <2>7. NearInAir'
    BY <1>1, <2>1, <2>6 DEF NearInAir
  <2>. QED BY <2>2, <2>3, <2>5, <2>7 DEF TrackerIInv
<1>. QED BY <1>3, <1>4

\* The invariant is inductive: what the counters say of a stream holds with
\* what the network may still deliver of it (StreamTracker.record).
THEOREM TrackerInductive == TrackerSpec => []TrackerIInv
BY TrackerStarts, TrackerStep, PTL DEF TrackerSpec

\* For every modulus and delay: received, lost and the late ones add up to the
\* true stretch of a boot's datagrams, across every wrap of packetSeq.
THEOREM CountersSpanTheStream == TrackerSpec => []SpanIsTrue
<1>1. TrackerIInv => SpanIsTrue
  BY DEF TrackerIInv
<1>. QED BY <1>1, TrackerInductive, PTL

\* Loss is what is missing, plus at most the datagrams that came late.
THEOREM LossIsBounded == TrackerSpec => []LossBounded
<1>1. TrackerIInv => LossBounded
  BY DEF TrackerIInv
<1>. QED BY <1>1, TrackerInductive, PTL

-----------------------------------------------------------------------------
(* Reboots.                                                                *)

\* Whatever a datagram is taken for, one more than those that were late or
\* came twice is counted.
LEMMA CountedOnce ==
  ASSUME NEW s \in Counters, NEW seq \in 0..Modulus - 1
  PROVE  LET a == Received(Advance(s, seq))
             f == Received(FirstOf(seq))
         IN  /\ s.received > s.outOfOrder + s.duplicates
                  => a.received > a.outOfOrder + a.duplicates
             /\ f.received > f.outOfOrder + f.duplicates
<1>1. /\ s.received \in Nat /\ s.outOfOrder \in Nat /\ s.duplicates \in Nat
  BY DEF Counters
<1>. DEFINE D == (seq - s.last) % Modulus
            a == Received(Advance(s, seq))
            f == Received(FirstOf(seq))
<1>2. \/ Advance(s, seq) = [s EXCEPT !.duplicates = s.duplicates + 1]
      \/ Advance(s, seq) = [s EXCEPT !.outOfOrder = s.outOfOrder + 1]
      \/ Advance(s, seq) = [s EXCEPT !.lost = s.lost + D - 1, !.last = seq]
  BY DEF Advance
<1>3. /\ a.received = s.received + 1
      /\ \/ a.outOfOrder = s.outOfOrder /\ a.duplicates \in {s.duplicates, s.duplicates + 1}
         \/ a.outOfOrder = s.outOfOrder + 1 /\ a.duplicates = s.duplicates
  BY <1>2 DEF Received, Counters
<1>4. f.received = 1 /\ f.outOfOrder = 0 /\ f.duplicates = 0
  BY DEF Received, FirstOf, NoCounters
<1>. QED BY <1>1, <1>3, <1>4

\* What a delivery does to the boots, the devices heard of and the count.
LEMMA RebootCounted ==
  ASSUME TrackerTypeOK, RebootsIInv, NEW m \in air, Deliver(m)
  PROVE  /\ IsFiniteSet(known') /\ IsFiniteSet(Heard')
         /\ \A d \in Device, b \in 1..MaxBoot : b \in boots'[d] <=> <<d, b>> \in known'
         /\ reboots' = Cardinality(known') - Cardinality(Heard')
<1>. DEFINE d0 == m[1]
            k == <<m[1], m[2]>>
<1>1. d0 \in Device /\ m[2] \in 1..MaxBoot /\ k \in Stream
  BY InAir
<1>2. /\ known' = known \cup {k}
      /\ boots' = [boots EXCEPT ![d0] = @ \cup {m[2]}]
      /\ reboots' = reboots + IF IsReboot(d0, m[2]) THEN 1 ELSE 0
  BY DEF Deliver
<1>3. /\ IsFiniteSet(known) /\ IsFiniteSet(Heard)
      /\ \A d \in Device, b \in 1..MaxBoot : b \in boots[d] <=> <<d, b>> \in known
      /\ reboots = Cardinality(known) - Cardinality(Heard)
  BY DEF RebootsIInv, RebootsExact
<1>4. boots \in [Device -> SUBSET (1..MaxBoot)] /\ known \subseteq Stream /\ reboots \in Nat
  BY DEF TrackerTypeOK
<1>5. Heard' = Heard \cup {d0}
  <2>1. \A d : (\E j \in known' : j[1] = d) <=> (\E j \in known : j[1] = d) \/ d = d0
    <3>1. k[1] = d0 /\ k \in known'
      BY <1>2
    <3>. HIDE DEF k, d0
    <3>. QED BY <1>2, <3>1
  <2>. QED BY <1>1, <2>1 DEF Heard
<1>6. d0 \in Heard <=> boots[d0] # {}
  <2>1. ASSUME NEW j \in known, j[1] = d0 PROVE boots[d0] # {}
    <3>1. PICK b \in 1..MaxBoot : j = <<d0, b>>
      BY <1>4, <2>1 DEF Stream
    <3>. QED BY <1>1, <1>3, <3>1
  <2>2. ASSUME boots[d0] # {} PROVE \E j \in known : j[1] = d0
    <3>1. PICK b \in 1..MaxBoot : b \in boots[d0]
      BY <1>1, <1>4, <2>2
    <3>2. <<d0, b>> \in known /\ <<d0, b>>[1] = d0
      BY <1>1, <1>3, <3>1
    <3>. QED BY <3>2
  <2>. QED BY <1>1, <2>1, <2>2 DEF Heard
<1>7. \A d \in Device, b \in 1..MaxBoot : b \in boots'[d] <=> <<d, b>> \in known'
  <2>. TAKE d \in Device, b \in 1..MaxBoot
  <2>1. b \in boots'[d] <=> b \in boots[d] \/ (d = d0 /\ b = m[2])
    BY <1>1, <1>2, <1>4
  <2>2. <<d, b>> \in known' <=> <<d, b>> \in known \/ (d = d0 /\ b = m[2])
    BY <1>2
  <2>. QED BY <1>3, <2>1, <2>2
<1>8. /\ IsFiniteSet(known') /\ IsFiniteSet(Heard')
      /\ Cardinality(known') = IF k \in known THEN Cardinality(known) ELSE Cardinality(known) + 1
      /\ Cardinality(Heard') = IF d0 \in Heard THEN Cardinality(Heard) ELSE Cardinality(Heard) + 1
  BY <1>2, <1>3, <1>5, FS_AddElement
<1>9. k \in known <=> m[2] \in boots[d0]
  BY <1>1, <1>3
<1>10. Cardinality(known) \in Nat /\ Cardinality(Heard) \in Nat
  BY <1>3, FS_CardinalityType
<1>. HIDE DEF d0, k
<1>11. reboots' = Cardinality(known') - Cardinality(Heard')
  BY <1>2, <1>3, <1>4, <1>6, <1>8, <1>9, <1>10 DEF IsReboot
<1>. QED BY <1>7, <1>8, <1>11

\* No boot lost more than its newest number says it sent.
LostIsOwn == \A k \in known : stream[k].lost <= Newest(k)

LEMMA LostOfItsBoot == TrackerIInv /\ OneCounted => LostIsOwn
<1>. SUFFICES ASSUME TrackerIInv, OneCounted, NEW k \in known
              PROVE  stream[k].lost <= Newest(k)
  BY DEF LostIsOwn
<1>1. TrackerTypeOK /\ KnownByArrival /\ SpanIsTrue
  BY DEF TrackerIInv
<1>2. k \in Stream
  BY <1>1 DEF TrackerTypeOK
<1>3. stream[k] \in Counters /\ arrived[k] \in SUBSET Nat
  BY <1>1, <1>2 DEF TrackerTypeOK
<1>4. Newest(k) \in Nat
  BY <1>1, <1>2, NewestIs
<1>5. Newest(k) - Span(k) + 1 \in Nat
  BY <1>1, <1>3 DEF SpanIsTrue
<1>. QED BY <1>3, <1>4, <1>5 DEF Span, Counters, OneCounted

LEMMA RebootsStep ==
  TrackerIInv /\ RebootsIInv /\ [TrackerNext]_trackingVars /\ TrackerIInv' => RebootsIInv'
<1>. SUFFICES ASSUME TrackerIInv, RebootsIInv, [TrackerNext]_trackingVars, TrackerIInv'
     PROVE  RebootsIInv'
  OBVIOUS
<1>1. TrackerTypeOK
  BY DEF TrackerIInv
<1>2. CASE UNCHANGED <<boots, known, stream, reboots, arrived>>
  <2>1. Heard' = Heard /\ \A k : Newest(k)' = Newest(k)
    BY <1>2 DEF Heard, Newest
  <2>. QED BY <1>2, <2>1 DEF RebootsIInv, RebootsExact, OneCounted
<1>3. ASSUME NEW m \in air, Deliver(m) PROVE RebootsIInv'
  <2>1. /\ IsFiniteSet(known') /\ IsFiniteSet(Heard')
        /\ \A d \in Device, b \in 1..MaxBoot : b \in boots'[d] <=> <<d, b>> \in known'
        /\ reboots' = Cardinality(known') - Cardinality(Heard')
    BY <1>1, <1>3, RebootCounted
  <2>2. ASSUME NEW j \in known'
        PROVE  stream'[j].received > stream'[j].outOfOrder + stream'[j].duplicates
    <3>1. PICK k : k = <<m[1], m[2]>>
      OBVIOUS
    <3>2. /\ k \in Stream /\ m[3] \in Nat
          /\ known' = known \cup {k}
          /\ \A i \in Stream \ {k} : stream'[i] = stream[i]
          /\ stream'[k] = IF k \in known THEN Received(Advance(stream[k], m[3] % Modulus))
                                         ELSE Received(FirstOf(m[3] % Modulus))
      BY <1>1, <1>3, <3>1, DeliverIs
    <3>3. stream[k] \in Counters /\ m[3] % Modulus \in 0..Modulus - 1 /\ known \subseteq Stream
      BY <1>1, <3>2, Numbers DEF TrackerTypeOK
    <3>4. \A i \in known : stream[i].received > stream[i].outOfOrder + stream[i].duplicates
      BY DEF RebootsIInv, OneCounted
    <3>5. CASE j # k
      BY <3>2, <3>3, <3>4, <3>5
    <3>6. CASE j = k
      BY <3>2, <3>3, <3>4, <3>6, CountedOnce
    <3>. QED BY <3>5, <3>6
  <2>3. \A j \in known' : stream'[j].lost <= Newest(j)'
    <3>1. TrackerIInv' /\ OneCounted' => LostIsOwn'
      BY LostOfItsBoot, PTL
    <3>. QED BY <2>2, <3>1 DEF OneCounted, LostIsOwn
  <2>. QED BY <2>1, <2>2, <2>3 DEF RebootsIInv, RebootsExact, OneCounted
<1>4. (\E m \in air : Deliver(m)) \/ UNCHANGED <<boots, known, stream, reboots, arrived>>
  BY DEF TrackerNext, Transmit, Reboot, Lose, DeliverCorrupt, trackingVars, trackerVars
<1>. QED BY <1>2, <1>3, <1>4

\* As many reboots are counted as boots after a device's first were heard of,
\* in whatever order its datagrams come, and no boot is charged with the loss
\* of another (StreamTracker.record).
THEOREM RebootsAreExact == TrackerSpec => []RebootsExact
<1>1. TrackerInit => RebootsIInv
  <2>. SUFFICES ASSUME TrackerInit PROVE RebootsIInv
    OBVIOUS
  <2>1. known = {} /\ Heard = {} /\ reboots = 0 /\ boots = [d \in Device |-> {}]
    BY DEF TrackerInit, Heard
  <2>2. IsFiniteSet({}) /\ Cardinality({}) = 0
    BY FS_EmptySet
  <2>. QED BY <2>1, <2>2 DEF RebootsIInv, RebootsExact, OneCounted
<1>2. RebootsIInv => RebootsExact
  BY DEF RebootsIInv
<1>. QED BY <1>1, <1>2, TrackerInductive, RebootsStep, PTL DEF TrackerSpec
=============================================================================
