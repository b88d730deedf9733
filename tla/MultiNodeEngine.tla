--------------------------- MODULE MultiNodeEngine ---------------------------
(***************************************************************************)
(* The dashboard's live engine (apps/dashboard/src/multi-node-engine.ts)   *)
(* with what it owns per receiver: the sequence tracker, the InputBuffer   *)
(* that keeps one canonical CSI stream, and the ActivityClassifier that    *)
(* learns an empty-room baseline.                                          *)
(*                                                                         *)
(* A datagram carries one frame.  The network may lose, repeat and reorder *)
(* datagrams, across reboots too.  A frame is its boot, its stream key and *)
(* whether decodeAmplitude cuts the invalid first word.  Motion is reduced *)
(* to the band of adaptiveScore it falls in.                               *)
(***************************************************************************)
EXTENDS Naturals, Sequences, FiniteSets

CONSTANTS
  Node,        \* the receivers
  Stream,      \* the stream keys a receiver's frames can have
  None,        \* no boot, no stream, no key
  Needed,      \* requiredNodeCount
  Window,      \* windowFrames, and the window of a loaded model
  Required,    \* REQUIRED, the evaluations a baseline takes
  SeqModulus,  \* values of packetSeq
  MaxLossInv,  \* loss is too high above one packet in MaxLossInv
  StreamOf(_, _),  \* the stream key of a boot's frame, by its number
  CutOf(_, _),     \* its firstWordInvalid
  MaxBoot,     \* bound: boots of a receiver
  MaxSent,     \* bound: datagrams of a boot
  MaxGrams,    \* bound: datagrams that arrive
  MaxSwitch    \* bound: model changes and baseline resets

ASSUME EngineAssumption ==
  /\ Needed \in Nat \ {0} /\ Window \in Nat /\ Window >= 2 /\ Required \in Nat \ {0}
  /\ SeqModulus \in Nat /\ SeqModulus > 2 * MaxSent /\ MaxLossInv \in Nat \ {0}
  /\ None \notin Stream
  /\ \A b \in 1..MaxBoot, i \in 0..MaxSent : StreamOf(b, i) \in Stream
  /\ MaxBoot \in Nat \ {0} /\ MaxSent \in Nat /\ MaxGrams \in Nat /\ MaxSwitch \in Nat

VARIABLES
  air,      \* per receiver, how many datagrams it sent so far, boot by boot
  rt,       \* the runtimes of MultiNodeEngine, by receiver
  model,    \* a portable model is loaded
  bad,      \* invalidDatagrams > 0
  down,     \* an exception left accept or snapshot
  switches  \* model changes and resets so far

engineVars == <<air, rt, model, bad, down, switches>>

BootId == 1..MaxBoot
FrameAt(b, i) == [boot |-> b, no |-> i, stream |-> StreamOf(b, i), cut |-> CutOf(b, i)]
NoFrame == [boot |-> None]
Band == {"low", "mid", "high"}

-----------------------------------------------------------------------------
(* A receiver's runtime, and what one datagram does to it.                 *)

\* shaped: csiLength > 0, late: staleAfterMs or minFrameRateHz is missed,
\* seen: latestKey, taught: the frames behind the baseline and the votes.
NewRuntime ==
  [known |-> FALSE, boot |-> None, last |-> None, missing |-> 0, grams |-> 0,
   canon |-> None, window |-> <<>>, seen |-> NoFrame, samples |-> 0,
   votes |-> <<0, 0>>, active |-> FALSE, ready |-> FALSE,
   shaped |-> FALSE, late |-> TRUE, taught |-> {}]

\* Mutant: an explicit or reboot reset that keeps the learned baseline.
ResetWindowOnly(r) ==
  [r EXCEPT !.window = <<>>, !.canon = None, !.seen = NoFrame,
            !.ready = (r.samples >= Required)]

ResetRuntime(r) ==
  [r EXCEPT !.window = <<>>, !.canon = None, !.seen = NoFrame, !.samples = 0,
            !.votes = <<0, 0>>, !.active = FALSE, !.ready = FALSE,
            !.taught = {}]

\* A datagram of an unknown receiver makes a runtime; one of another boot
\* than the runtime's resets it.
Enter(r, boot) ==
  IF ~r.known THEN [r EXCEPT !.known = TRUE, !.boot = boot]
  ELSE IF r.boot # boot
    THEN [ResetRuntime(r) EXCEPT !.boot = boot, !.last = None, !.missing = 0]
    ELSE r

\* trackSequence: serial-number arithmetic on 32-bit packetSeq.
TrackSequence(r, seq) ==
  LET delta == (seq + SeqModulus - r.last) % SeqModulus
  IN  IF r.last = None THEN [r EXCEPT !.last = seq]
      ELSE IF delta = 0 \/ 2 * delta >= SeqModulus THEN r
      ELSE [r EXCEPT !.missing = @ + delta - 1, !.last = seq]

\* The last Window frames of the ring.
Recent(s) == IF Len(s) > Window THEN SubSeq(s, Len(s) - Window + 1, Len(s)) ELSE s

\* InputBuffer.accept: the first controlled frame (one with a pingSeq)
\* chooses the canonical stream, frames of any other are rejected.
Buffer(r, f, controlled, late) ==
  LET canon == IF r.canon = None /\ controlled THEN f.stream ELSE r.canon
      took  == canon = f.stream
      count == [r EXCEPT !.grams = @ + 1, !.canon = canon,
                         !.shaped = @ \/ canon # None]
  IN  IF ~took THEN count
      ELSE [count EXCEPT !.window = Recent(Append(@, f)),
                         !.late = late \/ Len(r.window) = 0]

\* windowFeatures and motionLevel need frames of one width.
OneWidth(r) == Cardinality({r.window[i].cut : i \in DOMAIN r.window}) <= 1
AmplitudesOf(r) == {<<f.boot, f.stream>> : f \in {r.window[i] : i \in DOMAIN r.window}}

\* The votes of evaluate: two in a row at least 0.65 turn activity on, four
\* at most 0.35 turn it off, values between leave both counts alone.
Vote(r, band) ==
  LET up   == IF band = "high" THEN r.votes[1] + 1 ELSE IF band = "low" THEN 0 ELSE r.votes[1]
      down0 == IF band = "low" THEN r.votes[2] + 1 ELSE IF band = "high" THEN 0 ELSE r.votes[2]
      on   == (up >= 2 \/ r.active) /\ down0 < 4
  IN  [r EXCEPT !.votes = <<IF up > 2 THEN 2 ELSE up, IF down0 > 4 THEN 4 ELSE down0>>,
                !.active = on, !.ready = TRUE, !.taught = @ \cup AmplitudesOf(r)]

\* ActivityClassifier.evaluate, without a fixed threshold.
Classify(r, band) ==
  IF Len(r.window) < 2
    THEN [r EXCEPT !.ready = r.samples >= Required]
  ELSE IF model /\ Len(r.window) >= Window
    THEN [r EXCEPT !.ready = TRUE]
  ELSE IF r.samples < Required
    THEN [r EXCEPT !.samples = @ + 1, !.ready = r.samples + 1 >= Required,
                   !.taught = @ \cup AmplitudesOf(r)]
  ELSE Vote(r, band)

Seen(r) == r.window = <<>> \/ r.window[Len(r.window)] = r.seen

\* Mutant: a snapshot that evaluates the window whether or not it is new.
EvaluateAlways(r, band) ==
  IF r.window = <<>> THEN r
  ELSE Classify([r EXCEPT !.seen = r.window[Len(r.window)]], band)

\* RealtimeEngine.snapshot evaluates only a window whose newest frame it has
\* not evaluated yet.
Evaluate(r, band) ==
  IF Seen(r) THEN r
  ELSE Classify([r EXCEPT !.seen = r.window[Len(r.window)]], band)

\* predict on frames of two widths throws, out of accept and of the timer.
Throws(r) == model /\ Len(r.window) >= Window /\ ~OneWidth(r) /\ ~Seen(r)

-----------------------------------------------------------------------------
(* Readiness.                                                              *)

\* lossPpm divides by the datagrams of every boot, the missing are of one.
TooLossy(r) == r.missing * MaxLossInv > r.grams + r.missing

Ready(r) ==
  r.known /\ r.window # <<>> /\ ~r.late /\ r.ready /\ ~TooLossy(r) /\ r.shaped

ReadyNodes == {n \in Node : Ready(rt[n])}
ReadyForCapture == Cardinality(ReadyNodes) >= Needed

-----------------------------------------------------------------------------
EngineInit ==
  /\ air = [n \in Node |-> <<0>>]
  /\ rt = [n \in Node |-> NewRuntime]
  /\ model = FALSE /\ bad = FALSE /\ down = FALSE /\ switches = 0

\* A receiver sends its next datagram.
Transmit(n) ==
  /\ air[n][Len(air[n])] < MaxSent
  /\ air' = [air EXCEPT ![n][Len(air[n])] = @ + 1]
  /\ UNCHANGED <<rt, model, bad, down, switches>>

Reboot(n) ==
  /\ Len(air[n]) < MaxBoot
  /\ air' = [air EXCEPT ![n] = Append(@, 0)]
  /\ UNCHANGED <<rt, model, bad, down, switches>>

\* MultiNodeEngine.accept: any datagram sent so far arrives, now or again.
AcceptDatagram(n) ==
  /\ rt[n].grams < MaxGrams
  /\ \E b \in DOMAIN air[n] : \E i \in 0..(air[n][b] - 1) :
     \E controlled \in BOOLEAN, late \in BOOLEAN, band \in Band :
       LET f == FrameAt(b, i)
           r == Buffer(TrackSequence(Enter(rt[n], b), i), f, controlled, late)
       IN  IF Throws(r)
             THEN /\ down' = TRUE
                  /\ rt' = [rt EXCEPT ![n] = r]
             ELSE /\ rt' = [rt EXCEPT ![n] = Evaluate(r, band)]
                  /\ UNCHANGED down
  /\ UNCHANGED <<air, model, bad, switches>>

RecordInvalid ==
  /\ ~bad /\ bad' = TRUE
  /\ UNCHANGED <<air, rt, model, down, switches>>

\* The publish timer takes a snapshot of every receiver.
Snapshot ==
  /\ \E band \in [Node -> Band] :
       rt' = [n \in Node |-> IF Throws(rt[n]) THEN rt[n] ELSE Evaluate(rt[n], band[n])]
  /\ down' = \E n \in Node : Throws(rt[n])
  /\ UNCHANGED <<air, model, bad, switches>>

\* staleAfterMs passes without an accepted frame of n.
Silence(n) ==
  /\ rt[n].known /\ ~rt[n].late
  /\ rt' = [rt EXCEPT ![n].late = TRUE]
  /\ UNCHANGED <<air, model, bad, down, switches>>

\* POST /api/baseline/reset, of one receiver or of all.
ResetBaseline(set) ==
  /\ switches < MaxSwitch /\ switches' = switches + 1
  /\ \A n \in set : rt[n].known
  /\ rt' = [n \in Node |-> IF n \in set THEN ResetRuntime(rt[n]) ELSE rt[n]]
  /\ UNCHANGED <<air, model, bad, down>>

\* setModel: the votes go, the baseline stays, the window is evaluated anew.
SetModel ==
  /\ switches < MaxSwitch /\ switches' = switches + 1
  /\ model' = ~model
  /\ rt' = [n \in Node |->
       [rt[n] EXCEPT !.votes = <<0, 0>>, !.active = FALSE, !.seen = NoFrame,
                     !.ready = rt[n].samples >= Required]]
  /\ UNCHANGED <<air, bad, down>>

EngineNext ==
  /\ ~down
  /\ \/ \E n \in Node : Transmit(n) \/ Reboot(n) \/ AcceptDatagram(n) \/ Silence(n)
     \/ RecordInvalid \/ Snapshot \/ SetModel
     \/ \E n \in Node : ResetBaseline({n})
     \/ ResetBaseline({n \in Node : rt[n].known})

EngineSpec == EngineInit /\ [][EngineNext]_engineVars

-----------------------------------------------------------------------------
(* Properties.                                                             *)

\* Whatever a receiver's verdict rests on, the frames of its window and those
\* that taught its baseline and its votes, is of one boot and one stream, and
\* one that is ready without a model has such a baseline, finished: a reboot, a
\* datagram overtaken by a reboot or a reset never leaves a baseline behind for
\* frames it was not learned from (accept, resetBaseline, resetWindow, reset).
ReadinessEarned ==
  \A n \in Node :
    /\ rt[n].taught \cup AmplitudesOf(rt[n]) \subseteq {<<rt[n].boot, rt[n].canon>>}
    /\ Ready(rt[n]) /\ ~model => rt[n].samples = Required /\ rt[n].taught # {}

\* A snapshot by itself teaches nothing: the baseline and the votes move only
\* with a datagram, or once after a change of model, however often the timer
\* publishes (latestKey in RealtimeEngine.snapshot).
PollsDoNotTeach ==
  [][\A n \in Node :
       rt'[n].grams = rt[n].grams /\ rt[n].seen # NoFrame =>
         /\ rt'[n].samples <= rt[n].samples
         /\ rt'[n].votes \in {rt[n].votes, <<0, 0>>}]_engineVars

\* The frames of a full window that a model is asked about share one width
\* (windowFeatures: "frames must share a non-zero width").
WindowSharesWidth == ~down

-----------------------------------------------------------------------------
(* The inductive invariant.                                                *)

Frame == {FrameAt(b, i) : b \in BootId, i \in 0..MaxSent}
Verdict == (BootId \cup {None}) \X (Stream \cup {None})

Runtime ==
  [known : BOOLEAN, boot : BootId \cup {None}, last : (0..MaxSent) \cup {None},
   missing : Nat, grams : Nat, canon : Stream \cup {None}, window : Seq(Frame),
   seen : Frame \cup {NoFrame}, samples : 0..Required, votes : (0..2) \X (0..4),
   active : BOOLEAN, ready : BOOLEAN, shaped : BOOLEAN, late : BOOLEAN,
   taught : SUBSET Verdict]

EngineTypeOK ==
  /\ air \in [Node -> Seq(0..MaxSent)] /\ \A n \in Node : Len(air[n]) \in 1..MaxBoot
  /\ rt \in [Node -> Runtime]
  /\ switches \in 0..MaxSwitch

\* What a runtime holds is of its boot and its canonical stream, and before it
\* has one, nothing.
OfOneStream(r) ==
  /\ \A i \in 1..Len(r.window) : r.window[i].boot = r.boot /\ r.window[i].stream = r.canon
  /\ r.taught \subseteq {<<r.boot, r.canon>>}
  /\ ~r.known \/ r.canon = None => r.canon = None /\ r.window = <<>> /\ r.taught = {}

\* Readiness rests on a finished baseline or on a model.
Earned(r, byModel) ==
  /\ r.samples > 0 => r.taught # {}
  /\ r.ready => byModel \/ r.samples >= Required

\* What was evaluated is the newest frame, or nothing was.
Current(r) == r.seen # NoFrame => Seen(r)

EngineIInv ==
  /\ EngineTypeOK
  /\ \A n \in Node : OfOneStream(rt[n]) /\ Earned(rt[n], model)
  /\ ~down => \A n \in Node : Current(rt[n])
=============================================================================
