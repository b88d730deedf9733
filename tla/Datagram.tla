------------------------------ MODULE Datagram ------------------------------
(***************************************************************************)
(* The CSI datagram from the receiver's builder to what a recording gives  *)
(* back: DatagramBuilder (firmware/components/protocol), the encode task   *)
(* that drives it, the parsers of the collector and of the dashboard, the  *)
(* protocol v2 frame, the two files of a recording and their readers.      *)
(*                                                                         *)
(* Bytes are scaled to words: the magic, the version, a count, a length, a *)
(* sequence number, a CSI sample and the CRC take one word each; the other *)
(* fields are copied like the sequence number and are left out.  A word is *)
(* a number or a CRC, which is ideal: it is all that it covers, so it      *)
(* matches nothing else.                                                   *)
(***************************************************************************)
EXTENDS Integers, Sequences, SequencesExt, Ranks

CONSTANTS MaxWords,    \* words of the scratch buffer (kMaxDatagramSize)
          CsiLens,     \* lengths of a frame's CSI
          MaxOffered,  \* bound: frames offered
          MaxV2,       \* bound: protocol v2 frames sent
          MaxTaken     \* bound: datagrams recorded

HeaderSize == 4
FixedSize == 2
CrcSize == 1
FixedSizeV2 == 4

ASSUME DatagramAssumption ==
  /\ CsiLens \subseteq Nat /\ MaxWords \in Nat /\ HeaderSize + CrcSize <= MaxWords
  /\ \A n \in CsiLens : HeaderSize + FixedSize + n + CrcSize <= MaxWords

VARIABLES
  scratch,   \* the encode task's buffer, what earlier datagrams left included
  offset,    \* words of it in use
  inBatch,   \* frameCount_
  batched,   \* history: the frames added since begin
  offered,   \* history: frames offered
  v2,        \* history: protocol v2 frames sent
  flight,    \* {} or the datagram on its way: its words, and what was sent
             \* in it, {} once it is damaged
  bin,       \* <name>.csi.bin
  lines,     \* <name>.jsonl
  taken      \* history: what arrived unharmed

builderVars == <<scratch, offset, inBatch, batched, offered>>
recordedVars == <<bin, lines, taken>>
datagramVars == <<builderVars, v2, flight, recordedVars>>

Word(n) == [num |-> n]
Num(w) == w.num
Crc(words) == [crc |-> words]
Magic == Word(9)
MagicV2 == Word(8)
Version == Word(1)
Version2 == Word(2)
Zero == Word(0)

Samples(f) == [i \in 1..f.csiLen |-> Word(f.seqNo)]

-----------------------------------------------------------------------------
(* The builder.                                                            *)

\* buf with the words written behind the first at.
Put(buf, at, words) ==
  [i \in DOMAIN buf |-> IF i \in (at + 1)..(at + Len(words))
                        THEN words[i - at] ELSE buf[i]]

Begun(buf) == Put(buf, 0, <<Magic, Version, Zero, Zero>>)

CanFit(at, f) == at + FixedSize + f.csiLen + CrcSize <= MaxWords

FrameWords(f) == <<Word(f.seqNo), Word(f.csiLen)>> \o Samples(f)

\* Mutant: the header goes out as begin wrote it.
FinalizeUnpatched(buf, at, n) ==
  SubSeq(buf, 1, at) \o <<Crc(SubSeq(buf, 1, at))>>

Finalize(buf, at, n) ==
  LET patched == Put(buf, 2, <<Word(n), Word(at - HeaderSize)>>)
      body == SubSeq(patched, 1, at)
  IN body \o <<Crc(body)>>

-----------------------------------------------------------------------------
(* The parsers: {} is a refusal, {frames} what was read.                   *)

\* Where frame i + 1 starts; a bounds error stays beyond the body.
FrameEnd(body, at) ==
  IF at + FixedSize > Len(body) THEN Len(body) + 1
  ELSE at + FixedSize + Num(body[at + 2])

FrameStarts(body, n) ==
  LET start[i \in 0..n] == IF i = 0 THEN HeaderSize ELSE FrameEnd(body, start[i - 1])
  IN start

HeaderFits(buf) ==
  /\ Len(buf) >= HeaderSize + CrcSize
  /\ buf[1] = Magic /\ buf[2] = Version
  /\ HeaderSize + Num(buf[4]) + CrcSize = Len(buf)

CrcMatches(buf) == Crc(Front(buf)) = Last(buf)

ReadFrame(body, at) == [seqNo |-> Num(body[at + 1]), csiLen |-> Num(body[at + 2])]

ParseDatagram(buf) ==
  LET body == Front(buf)
      n == Num(buf[3])
      start == FrameStarts(body, n)
  IN IF HeaderFits(buf) /\ CrcMatches(buf) /\ start[n] = Len(body)
     THEN {[i \in 1..n |-> ReadFrame(body, start[i - 1])]}
     ELSE {}

\* Protocol v2: one frame to a datagram.
EncodeV2(f) ==
  LET body == <<MagicV2, Version2, Word(f.seqNo), Word(f.csiLen)>> \o Samples(f)
  IN body \o <<Crc(body)>>

DecodeV2(buf) ==
  IF /\ Len(buf) >= FixedSizeV2 + CrcSize
     /\ buf[1] = MagicV2 /\ buf[2] = Version2
     /\ Len(buf) = FixedSizeV2 + Num(buf[4]) + CrcSize
     /\ CrcMatches(buf)
  THEN {<<[seqNo |-> Num(buf[3]), csiLen |-> Num(buf[4])]>>}
  ELSE {}

\* isProtocolV2: what does not decode is tried as v1.
IsV2(buf) == DecodeV2(buf) # {}

-----------------------------------------------------------------------------
(* The files and their readers.                                            *)

\* write, writeProtocolV2: the length and the bytes; one line of JSON.
Prefixed(buf) == <<Word(Len(buf))>> \o buf

\* readAmplitudeStreams: the file cut up by its length prefixes, up to the
\* first that does not fit; what is not a v1 datagram is skipped.
RecordEnd(file, at) ==
  IF at < Len(file) /\ Num(file[at + 1]) > 0 /\ at + 1 + Num(file[at + 1]) <= Len(file)
  THEN at + 1 + Num(file[at + 1]) ELSE at

RecordEnds(file) ==
  LET cut[i \in 0..Len(file)] == IF i = 0 THEN 0 ELSE RecordEnd(file, cut[i - 1])
  IN cut

TrainerReads(file) ==
  LET cut == RecordEnds(file)
      Read(i) == ParseDatagram(SubSeq(file, cut[i - 1] + 2, cut[i]))
      parsed == {i \in 1..Len(file) : cut[i - 1] < cut[i] /\ Read(i) # {}}
  IN [k \in 1..Cardinality(parsed) |-> CHOOSE d \in Read(Nth(parsed, k)) : TRUE]

IsV2Line(l) == l.protocolVersion = 2

\* alignedPacketsForRecording: the frames of the v2 lines.
DatasetReads(file) == SelectSeq(file, IsV2Line)

-----------------------------------------------------------------------------
DatagramInit ==
  /\ scratch = Begun([i \in 1..MaxWords |-> Zero]) /\ offset = HeaderSize
  /\ inBatch = 0 /\ batched = <<>> /\ offered = 0 /\ v2 = 0
  /\ flight = {} /\ bin = <<>> /\ lines = <<>> /\ taken = <<>>

\* A datagram on its way, and the truth about it.
Sent(version, frames) == [protocolVersion |-> version, frames |-> frames]
Launch(buf, d) == flight' = {[words |-> buf, sent |-> {d}]}

\* addFrame behind what buf, at and n say of the datagram.
Add(buf, at, n, f, before) ==
  /\ scratch' = Put(buf, at, FrameWords(f))
  /\ offset' = at + FixedSize + f.csiLen
  /\ inBatch' = n + 1
  /\ batched' = Append(before, f)

\* One turn of the encode task: a frame that does not fit any more closes the
\* datagram and opens the next.  An empty datagram has room for any frame.
OfferFrame ==
  \E n \in CsiLens :
    LET f == [seqNo |-> offered, csiLen |-> n]
    IN /\ offered < MaxOffered /\ offered' = offered + 1
       /\ \/ /\ CanFit(offset, f) /\ Add(scratch, offset, inBatch, f, batched)
             /\ UNCHANGED flight
          \/ /\ ~CanFit(offset, f) /\ inBatch > 0 /\ flight = {}
             /\ Launch(Finalize(scratch, offset, inBatch), Sent(1, batched))
             /\ Add(Begun(scratch), HeaderSize, 0, f, <<>>)
       /\ UNCHANGED <<v2, recordedVars>>

\* The flush after an idle interval.
FlushIdle ==
  /\ inBatch > 0 /\ flight = {}
  /\ Launch(Finalize(scratch, offset, inBatch), Sent(1, batched))
  /\ scratch' = Begun(scratch) /\ offset' = HeaderSize
  /\ inBatch' = 0 /\ batched' = <<>>
  /\ UNCHANGED <<offered, v2, recordedVars>>

SendV2 ==
  \E n \in CsiLens :
    LET f == [seqNo |-> v2, csiLen |-> n]
    IN /\ v2 < MaxV2 /\ flight = {} /\ v2' = v2 + 1
       /\ Launch(EncodeV2(f), Sent(2, <<f>>))
       /\ UNCHANGED <<builderVars, recordedVars>>

\* The network cuts a datagram short, adds to it, or changes a word of it.
Damaged(buf) ==
  {SubSeq(buf, 1, n) : n \in 0..(Len(buf) - 1)} \cup
  {Append(buf, w) : w \in {Zero, Last(buf)}} \cup
  {[buf EXCEPT ![i] = w] : i \in DOMAIN buf, w \in {Zero, Word(1), Word(2), Magic, MagicV2}}

Damage ==
  /\ \E d \in {a \in flight : a.sent # {}} :
       \E buf \in Damaged(d.words) \ {d.words} :
         flight' = {[words |-> buf, sent |-> {}]}
  /\ UNCHANGED <<builderVars, v2, recordedVars>>

LoseDatagram == flight # {} /\ flight' = {} /\ UNCHANGED <<builderVars, v2, recordedVars>>

Record(version, buf, read) ==
  /\ bin' = bin \o Prefixed(buf)
  /\ \E d \in read : lines' = Append(lines, Sent(version, d))

\* The dashboard's message handler; the datagram may arrive once more.
Receive ==
  \E d \in flight : \E again \in BOOLEAN :
    LET read == ParseDatagram(d.words)
    IN /\ Len(taken) < MaxTaken
       /\ flight' = IF again THEN flight ELSE {}
       /\ IF IsV2(d.words) THEN Record(2, d.words, DecodeV2(d.words))
          ELSE IF read # {} THEN Record(1, d.words, read)
          ELSE UNCHANGED <<bin, lines>>
       /\ taken' = IF d.sent = {} THEN taken ELSE taken \o <<CHOOSE t \in d.sent : TRUE>>
       /\ UNCHANGED <<builderVars, v2>>

DatagramNext ==
  OfferFrame \/ FlushIdle \/ SendV2 \/ Damage \/ LoseDatagram \/ Receive

DatagramSpec == DatagramInit /\ [][DatagramNext]_datagramVars

-----------------------------------------------------------------------------
TakenV1 ==
  LET v1 == {i \in DOMAIN taken : taken[i].protocolVersion = 1}
  IN [k \in 1..Cardinality(v1) |-> taken[Nth(v1, k)].frames]

\* What the trainer reads from the binary file is every v1 datagram that
\* arrived unharmed, frame for frame as the receiver captured them, and
\* nothing else; cut anywhere, the file gives a beginning of that.  What the
\* data set reads from the lines is every protocol v2 frame that did.  So the
\* builder, the parsers and the files agree on the format, through a full
\* buffer, a flush, a reused buffer, damage and duplicates.
RecordedIsSent ==
  /\ TrainerReads(bin) = TakenV1
  /\ \A n \in 0..Len(bin) : IsPrefix(TrainerReads(SubSeq(bin, 1, n)), TakenV1)
  /\ DatasetReads(lines) = SelectSeq(taken, IsV2Line)

-----------------------------------------------------------------------------
(* The inductive invariant.                                                *)

Number == [num : Nat]
AnyWord == Number \cup [crc : Seq(Number)]
CsiFrame == [seqNo : Nat, csiLen : CsiLens]
Truth == [protocolVersion : {1, 2}, frames : Seq(CsiFrame)]

DatagramTypeOK ==
  /\ scratch \in [1..MaxWords -> Number]
  /\ offset \in HeaderSize..(MaxWords - CrcSize)
  /\ batched \in Seq(CsiFrame) /\ inBatch = Len(batched)
  /\ offered \in Nat /\ v2 \in Nat
  /\ \A d \in flight : d.words \in Seq(AnyWord) /\ d.sent \subseteq Truth
  /\ bin \in Seq(AnyWord) /\ lines \in Seq(Truth) /\ taken \in Seq(Truth)

\* The first words of a buffer are a header and frames, one behind the other.
Holds(buf, at, frames) ==
  /\ buf[1] = Magic /\ buf[2] = Version
  /\ \E start \in [0..Len(frames) -> HeaderSize..at] :
       /\ start[0] = HeaderSize /\ start[Len(frames)] = at
       /\ \A i \in 1..Len(frames) :
            /\ start[i] = start[i - 1] + FixedSize + frames[i].csiLen
            /\ buf[start[i - 1] + 1] = Word(frames[i].seqNo)
            /\ buf[start[i - 1] + 2] = Word(frames[i].csiLen)

\* The buffer holds the batch, whatever an earlier datagram left in it.
BufferHolds == Holds(scratch, offset, batched)

\* What a parser makes of words, and what it should make of a datagram.
ReadsAs(words, version, read) ==
  IF version = 1 THEN DecodeV2(words) = {} /\ ParseDatagram(words) = read
  ELSE DecodeV2(words) = read /\ ParseDatagram(words) = {}

SealFits(words) ==
  /\ Len(words) >= HeaderSize + CrcSize
  /\ Len(words) = HeaderSize + Num(words[4]) + CrcSize
  /\ CrcMatches(words)

\* A datagram on its way is read as what was sent in it, or refused.
FlightIsRead ==
  \A d \in flight :
    \/ d.sent = {} /\ ReadsAs(d.words, 1, {})
    \/ \E t \in d.sent : /\ d.sent = {t} /\ SealFits(d.words)
                         /\ ReadsAs(d.words, t.protocolVersion, {t.frames})

\* The files hold what arrived unharmed, one record behind the other.
FilesHold ==
  /\ lines = taken
  /\ \E cut \in [0..Len(taken) -> 0..Len(bin)] :
       /\ cut[0] = 0 /\ cut[Len(taken)] = Len(bin)
       /\ \A i \in 1..Len(taken) :
            /\ cut[i - 1] + 1 < cut[i]
            /\ bin[cut[i - 1] + 1] = Word(cut[i] - cut[i - 1] - 1)
            /\ ParseDatagram(SubSeq(bin, cut[i - 1] + 2, cut[i]))
                 = IF taken[i].protocolVersion = 1 THEN {taken[i].frames} ELSE {}

DatagramIInv == DatagramTypeOK /\ BufferHolds /\ FlightIsRead /\ FilesHold
=============================================================================
