--------------------------- MODULE StreamTracker ---------------------------
(***************************************************************************)
(* The collector's StreamTracker: loss and reboot accounting over what the *)
(* receivers' datagrams look like after a network that loses, duplicates   *)
(* and reorders them, across reboots of the receivers and wraps of         *)
(* packetSeq.                                                              *)
(*                                                                         *)
(* A datagram is <<device, boot, n>>, the n-th of its boot; it carries     *)
(* n % Modulus.  The bootId, a random number, is taken to be fresh at each *)
(* boot.  The network neither delays a datagram nor is silent for half the *)
(* sequence space, the assumption behind comparing wrapping numbers.       *)
(***************************************************************************)
EXTENDS Integers, FiniteSets, FiniteSetsExt

CONSTANTS Device,
          Modulus,       \* packetSeq wraps there: 2^32
          MaxBoot,       \* bound on the boots of a device
          MaxSent,       \* bound on the datagrams of a boot
          MaxReceived,   \* bound on the datagrams delivered
          MaxDelay       \* bound on the datagrams that overtake one

Half == Modulus \div 2

ASSUME TrackerAssumption ==
  /\ Modulus \in Nat /\ Modulus > 1 /\ Modulus = 2 * Half
  /\ MaxDelay \in Nat /\ MaxDelay < Half
  /\ MaxBoot \in Nat \ {0} /\ MaxSent \in Nat

Stream == Device \X (1..MaxBoot)
Counters == [first : 0..Modulus - 1, last : 0..Modulus - 1, received : Nat,
             lost : Nat, outOfOrder : Nat, duplicates : Nat]

VARIABLES
  boot, sent,             \* the receivers: boots so far, datagrams of this one
  air,                    \* datagrams on the network
  boots,                  \* bootsByDevice
  known, stream,          \* the streams with a state, and the states
  total, invalid, reboots,
  arrived                 \* history: the datagrams that arrived, by stream

receiverVars == <<boot, sent>>
trackerVars == <<boots, known, stream, total, invalid, reboots>>
trackingVars == <<receiverVars, air, trackerVars, arrived>>

NoCounters == [first |-> 0, last |-> 0, received |-> 0, lost |-> 0,
               outOfOrder |-> 0, duplicates |-> 0]

TrackerTypeOK ==
  /\ boot \in [Device -> 1..MaxBoot] /\ sent \in [Device -> 0..MaxSent]
  /\ air \subseteq Device \X (1..MaxBoot) \X (0..MaxSent)
  /\ boots \in [Device -> SUBSET (1..MaxBoot)]
  /\ known \subseteq Stream
  /\ stream \in [Stream -> Counters]
  /\ total \in Nat /\ invalid \in Nat /\ reboots \in Nat
  /\ arrived \in [Stream -> SUBSET (0..MaxSent)]

TrackerInit ==
  /\ boot = [d \in Device |-> 1] /\ sent = [d \in Device |-> 0]
  /\ air = {}
  /\ boots = [d \in Device |-> {}]
  /\ known = {} /\ stream = [s \in Stream |-> NoCounters]
  /\ total = 0 /\ invalid = 0 /\ reboots = 0
  /\ arrived = [s \in Stream |-> {}]

-----------------------------------------------------------------------------
(* The receivers and the network.                                          *)

Transmit(d) ==
  /\ sent[d] < MaxSent
  /\ \A m \in air : m[1] = d /\ m[2] = boot[d] => sent[d] - m[3] <= MaxDelay
  /\ LET heard == arrived[<<d, boot[d]>>]
     IN  heard # {} => sent[d] - Max(heard) < Half
  /\ air' = air \cup {<<d, boot[d], sent[d]>>}
  /\ sent' = [sent EXCEPT ![d] = @ + 1]
  /\ UNCHANGED <<boot, trackerVars, arrived>>

Reboot(d) ==
  /\ boot[d] < MaxBoot
  /\ boot' = [boot EXCEPT ![d] = @ + 1]
  /\ sent' = [sent EXCEPT ![d] = 0]
  /\ UNCHANGED <<air, trackerVars, arrived>>

Lose(m) ==
  /\ m \in air
  /\ air' = air \ {m}
  /\ UNCHANGED <<receiverVars, trackerVars, arrived>>

-----------------------------------------------------------------------------
(* StreamTracker.                                                          *)

\* Mutant: every difference is a step forward.
BackwardsNever(delta) == FALSE

Backwards(delta) == delta >= Half

FirstOf(seq) == [NoCounters EXCEPT !.first = seq, !.last = seq]

\* Mutant: the datagram that closes a gap counts as lost, too.
LossWithoutBase(s, seq) ==
  LET delta == (seq - s.last) % Modulus
  IN  [s EXCEPT !.lost = @ + delta, !.last = seq]

\* What record does to the state of a stream that has one: delta is the
\* unsigned 32-bit difference, and above 0x7fffffff it is a step backwards.
Advance(s, seq) ==
  LET delta == (seq - s.last) % Modulus
  IN  IF delta = 0 THEN [s EXCEPT !.duplicates = @ + 1]
      ELSE IF Backwards(delta) THEN [s EXCEPT !.outOfOrder = @ + 1]
      ELSE [s EXCEPT !.lost = @ + delta - 1, !.last = seq]

IsReboot(d, b) == b \notin boots[d] /\ boots[d] # {}

\* The rest of record: the boots of the device, and the stream of the boot.
RecordStream(k, seq) ==
  stream' = [stream EXCEPT ![k] =
               LET s == IF k \in known THEN Advance(@, seq) ELSE FirstOf(seq)
               IN  [s EXCEPT !.received = @ + 1]]

\* onMessage with a valid datagram, which the network may deliver again.
Deliver(m) ==
  LET k == <<m[1], m[2]>>
  IN  /\ m \in air /\ total < MaxReceived
      /\ air' \in {air, air \ {m}}
      /\ total' = total + 1
      /\ reboots' = reboots + IF IsReboot(m[1], m[2]) THEN 1 ELSE 0
      /\ boots' = [boots EXCEPT ![m[1]] = @ \cup {m[2]}]
      /\ known' = known \cup {k}
      /\ RecordStream(k, m[3] % Modulus)
      /\ arrived' = [arrived EXCEPT ![k] = @ \cup {m[3]}]
      /\ UNCHANGED <<receiverVars, invalid>>

\* onMessage with a datagram that does not parse: recordInvalid.
DeliverCorrupt(m) ==
  /\ m \in air /\ total < MaxReceived
  /\ air' = air \ {m}
  /\ total' = total + 1 /\ invalid' = invalid + 1
  /\ UNCHANGED <<receiverVars, boots, known, stream, reboots, arrived>>

\* The span snapshot computes the share of loss of.
SnapshotSpan(s) == s.last - s.first + 1

TrackerNext ==
  \/ \E d \in Device : Transmit(d) \/ Reboot(d)
  \/ \E m \in air : Lose(m) \/ Deliver(m) \/ DeliverCorrupt(m)

TrackerSpec == TrackerInit /\ [][TrackerNext]_trackingVars

-----------------------------------------------------------------------------
(* Properties.                                                             *)

\* The true numbers of the first and the newest datagram of a stream; first
\* is recovered from its residue, as nothing older than half the space came.
Newest(k) == Max(arrived[k])
Span(k) == stream[k].received - stream[k].outOfOrder - stream[k].duplicates
             + stream[k].lost
Missing(k) == Cardinality(((Newest(k) - Span(k) + 1)..Newest(k)) \ arrived[k])

\* The stream's counters add up to a true stretch of the boot's datagrams that
\* ends with the newest one and starts with the first one heard, however often
\* packetSeq wrapped in between (StreamTracker.record).
SpanIsTrue ==
  \A k \in known :
    /\ Newest(k) - Span(k) + 1 \in arrived[k]
    /\ stream[k].last = Newest(k) % Modulus
    /\ stream[k].first = (Newest(k) - Span(k) + 1) % Modulus

\* Loss is never underestimated, and overestimated by no more than the
\* datagrams that came late (docs/csi-protocol.md: "A gap of g means g - 1
\* lost datagrams"; stats.ts: "reordered datagram, not loss").
LossBounded ==
  \A k \in known :
    /\ Missing(k) <= stream[k].lost
    /\ stream[k].lost <= Missing(k) + stream[k].outOfOrder

\* The devices something was heard of.
Heard == {d \in Device : \E k \in known : k[1] = d}

\* As many reboots are counted as boots after a device's first were heard of,
\* however late the datagrams of an older boot arrive, and a reboot leaves the
\* loss of each boot alone ("We never treat a reboot as loss").
RebootsExact ==
  /\ reboots = Cardinality(known) - Cardinality(Heard)
  /\ \A k \in known : stream[k].lost <= Newest(k)

\* The loss a snapshot reports is a share of the datagrams it speaks of: a
\* stream with loss reports some, and never more than all of it (snapshot).
LossShareSane ==
  \A k \in known :
    stream[k].lost > 0 => /\ SnapshotSpan(stream[k]) > 0
                          /\ stream[k].lost < SnapshotSpan(stream[k])

\* A datagram that came late was not lost (stats.ts: "reordered datagram, not
\* loss"): the gap it left is not part of the loss.
ReorderingIsNotLoss == \A k \in known : stream[k].lost = Missing(k)

-----------------------------------------------------------------------------
(* The inductive invariant.                                                *)

\* Nothing is on the network or has arrived that was not sent yet.
AirSent ==
  \A m \in air : /\ m[2] <= boot[m[1]]
                 /\ m[2] = boot[m[1]] => m[3] < sent[m[1]]

ArrivedSent ==
  \A d \in Device, b \in 1..MaxBoot :
    /\ b > boot[d] => arrived[<<d, b>>] = {}
    /\ b = boot[d] => \A n \in arrived[<<d, b>>] : n < sent[d]

SentBefore == AirSent /\ ArrivedSent

\* The datagrams of a stream on the network are near each other and near the
\* newest that arrived: what comparing wrapping numbers needs.
NearInAir ==
  \A m \in air :
    /\ \A o \in air : m[1] = o[1] /\ m[2] = o[2] => m[3] - o[3] <= MaxDelay
    /\ LET k == <<m[1], m[2]>>
       IN  k \in known => Newest(k) - m[3] <= MaxDelay /\ m[3] - Newest(k) < Half

\* A stream is known when a datagram of it has arrived, and one is the newest.
KnownByArrival ==
  \A k \in Stream :
    /\ k \in known <=> arrived[k] # {}
    /\ k \in known => \E n \in arrived[k] : \A i \in arrived[k] : i <= n

TrackerIInv ==
  /\ TrackerTypeOK /\ SentBefore /\ NearInAir /\ KnownByArrival
  /\ SpanIsTrue /\ LossBounded

\* Each stream has a datagram that was counted as neither late nor twice.
OneCounted ==
  \A k \in known : stream[k].received > stream[k].outOfOrder + stream[k].duplicates

\* The boots of a device are those of its streams, and finitely many.
RebootsIInv ==
  /\ IsFiniteSet(known) /\ IsFiniteSet(Heard)
  /\ \A d \in Device, b \in 1..MaxBoot : b \in boots[d] <=> <<d, b>> \in known
  /\ OneCounted /\ RebootsExact
=============================================================================
