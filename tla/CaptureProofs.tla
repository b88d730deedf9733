----------------------------- MODULE CaptureProofs -----------------------------
(***************************************************************************)
(* Capturing, for every bound.  On the host: what the complete marks of a  *)
(* recording and of a session are worth, whichever process crashes.  On    *)
(* the receiver, however many hooks overlap: the frame queue has one       *)
(* consumer unless two callers met inside the streamer, which does not run *)
(* without capture; and no two datagrams carry the same packetSeq.         *)
(***************************************************************************)
EXTENDS CaptureLifecycle, CaptureSession, TLAPS

-----------------------------------------------------------------------------
(* A session of the experiment runner and its collector.                   *)

LEMMA SessionInitInv == SessionInit => SessionIInv
<1>. SUFFICES ASSUME SessionInit PROVE SessionIInv
  OBVIOUS
<1>1. SessionFlags
  BY Zenon DEF SessionInit, SessionFlags
<1>2. SessionTypeOK
  BY <1>1, SessionAssumption
  DEF SessionInit, SessionTypeOK, RunnerStates, CollectorStates
<1>3. OpenInOrder /\ FilesFollow /\ MarksEarned
  BY DEF SessionInit, OpenInOrder, FilesFollow, MarksEarned
<1>. QED BY <1>2, <1>3 DEF SessionIInv

LEMMA SessionFlagsStep ==
  ASSUME SessionIInv, [SessionNext]_sessionVars
  PROVE  SessionFlags'
<1>. USE DEF SessionFlags, fileVars, deviceVars, runnerVars, collectorVars,
             CollectorAt, CollectorGoes, Die
<1>1. SessionFlags
  BY DEF SessionIInv, SessionTypeOK
<1>2. CASE Spawn
  BY <1>1, <1>2, Zenon DEF Spawn
<1>3. CASE StopCollector
  BY <1>1, <1>3, Zenon DEF StopCollector
<1>4. CASE ChildExit
  BY <1>1, <1>4, Zenon DEF ChildExit
<1>5. CASE Finish
  BY <1>1, <1>5, Zenon DEF Finish
<1>6. CASE CtrlC
  BY <1>1, <1>6, Zenon DEF CtrlC
<1>7. CASE RunnerCrash
  BY <1>1, <1>7, Zenon DEF RunnerCrash
<1>8. CASE OpenRecording
  BY <1>1, <1>8, Zenon DEF OpenRecording
<1>9. CASE Bind
  BY <1>1, <1>9, Zenon DEF Bind
<1>10. CASE CaptureStarts
  BY <1>1, <1>10, Zenon DEF CaptureStarts
<1>11. CASE StartCapture
  BY <1>1, <1>11, Zenon DEF StartCapture
<1>12. CASE Killed
  BY <1>1, <1>12, Zenon DEF Killed
<1>13. CASE Shutdown
  BY <1>1, <1>13, Zenon DEF Shutdown
<1>14. CASE StopCapture
  BY <1>1, <1>14, Zenon DEF StopCapture
<1>15. CASE CloseSocket
  BY <1>1, <1>15, Zenon DEF CloseSocket
<1>16. CASE EndStreams
  BY <1>1, <1>16, Zenon DEF EndStreams
<1>17. CASE FlushMeta
  BY <1>1, <1>17, Zenon DEF FlushMeta
<1>18. CASE Exit
  BY <1>1, <1>18, Zenon DEF Exit
<1>19. CASE Crash
  BY <1>1, <1>19, Zenon DEF Crash
<1>20. CASE Receive
  BY <1>1, <1>20, Zenon DEF Receive
<1>21. CASE WriteBack
  BY <1>1, <1>21, Zenon DEF WriteBack
<1>22. CASE UNCHANGED sessionVars
  BY <1>1, <1>22, Zenon DEF sessionVars
<1>. QED
  BY <1>2, <1>3, <1>4, <1>5, <1>6, <1>7, <1>8, <1>9, <1>10, <1>11, <1>12,
     <1>13, <1>14, <1>15, <1>16, <1>17, <1>18, <1>19, <1>20, <1>21, <1>22
  DEF SessionNext, Runner, Collector

LEMMA SessionTypeStep ==
  ASSUME SessionIInv, [SessionNext]_sessionVars
  PROVE  SessionTypeOK'
<1>. USE SessionAssumption
     DEF SessionTypeOK, fileVars, deviceVars, runnerVars, collectorVars,
         RunnerStates, CollectorStates, CollectorAt, CollectorGoes, Die
<1>1. SessionTypeOK /\ SessionFlags'
  BY SessionFlagsStep DEF SessionIInv
<1>2. CASE Spawn
  BY <1>1, <1>2 DEF Spawn
<1>3. CASE StopCollector
  BY <1>1, <1>3 DEF StopCollector
<1>4. CASE ChildExit
  BY <1>1, <1>4 DEF ChildExit
<1>5. CASE Finish
  BY <1>1, <1>5 DEF Finish
<1>6. CASE CtrlC
  BY <1>1, <1>6 DEF CtrlC
<1>7. CASE RunnerCrash
  BY <1>1, <1>7 DEF RunnerCrash
<1>8. CASE OpenRecording
  BY <1>1, <1>8 DEF OpenRecording
<1>9. CASE Bind
  BY <1>1, <1>9 DEF Bind
<1>10. CASE CaptureStarts
  BY <1>1, <1>10 DEF CaptureStarts
<1>11. CASE StartCapture
  BY <1>1, <1>11 DEF StartCapture
<1>12. CASE Killed
  BY <1>1, <1>12 DEF Killed
<1>13. CASE Shutdown
  BY <1>1, <1>13 DEF Shutdown
<1>14. CASE StopCapture
  BY <1>1, <1>14 DEF StopCapture
<1>15. CASE CloseSocket
  BY <1>1, <1>15 DEF CloseSocket
<1>16. CASE EndStreams
  BY <1>1, <1>16 DEF EndStreams
<1>17. CASE FlushMeta
  BY <1>1, <1>17 DEF FlushMeta
<1>18. CASE Exit
  BY <1>1, <1>18 DEF Exit
<1>19. CASE Crash
  BY <1>1, <1>19 DEF Crash
<1>20. CASE Receive
  BY <1>1, <1>20 DEF Receive
<1>21. CASE WriteBack
  BY <1>1, <1>21 DEF WriteBack
<1>22. CASE UNCHANGED sessionVars
  BY <1>1, <1>22 DEF sessionVars
<1>. QED
  BY <1>2, <1>3, <1>4, <1>5, <1>6, <1>7, <1>8, <1>9, <1>10, <1>11, <1>12,
     <1>13, <1>14, <1>15, <1>16, <1>17, <1>18, <1>19, <1>20, <1>21, <1>22
  DEF SessionNext, Runner, Collector

LEMMA SessionStep ==
  ASSUME SessionIInv, [SessionNext]_sessionVars
  PROVE  (OpenInOrder /\ FilesFollow /\ MarksEarned)'
<1>. USE DEF OpenInOrder, FilesFollow, MarksEarned, fileVars, deviceVars,
             runnerVars, collectorVars, CollectorAt, CollectorGoes, Die
<1>1. /\ OpenInOrder /\ FilesFollow /\ MarksEarned
      /\ valid \in Nat /\ bin \in Nat /\ jsonl \in Nat /\ metaFrames \in Nat
  BY DEF SessionIInv, SessionTypeOK
<1>2. CASE Spawn
  BY <1>1, <1>2 DEF Spawn
<1>3. CASE StopCollector
  BY <1>1, <1>3 DEF StopCollector
<1>4. CASE ChildExit
  BY <1>1, <1>4 DEF ChildExit
<1>5. CASE CtrlC
  BY <1>1, <1>5 DEF CtrlC
<1>6. CASE RunnerCrash
  BY <1>1, <1>6 DEF RunnerCrash
<1>7. CASE Finish
  BY <1>1, <1>7 DEF Finish, Counts
<1>8. CASE OpenRecording
  BY <1>1, <1>8 DEF OpenRecording
<1>9. CASE Bind
  <2>1. CASE socket' = TRUE /\ CollectorGoes("startCapture") /\ UNCHANGED <<exitCode, open>>
    <3>1. /\ collector = "bind" /\ collector' = "startCapture" /\ open' = open
          /\ UNCHANGED <<runner, stopping, exitCode, session, valid, bin, jsonl,
                         meta, metaFrames, threw>>
      BY <1>9, <2>1 DEF Bind
    <3>2. open
      BY <1>1, <1>9, <3>1 DEF Bind
    <3>. QED BY <1>1, <3>1, <3>2
  <2>2. CASE Die("one")
    BY <1>1, <1>9, <2>2 DEF Bind
  <2>. QED BY <1>9, <2>1, <2>2 DEF Bind
<1>10. CASE CaptureStarts
  BY <1>1, <1>10 DEF CaptureStarts
<1>11. CASE StartCapture
  BY <1>1, <1>11 DEF StartCapture
<1>12. CASE Killed
  BY <1>1, <1>12 DEF Killed
<1>13. CASE Shutdown
  BY <1>1, <1>13 DEF Shutdown
<1>14. CASE StopCapture
  BY <1>1, <1>14 DEF StopCapture
<1>15. CASE CloseSocket
  BY <1>1, <1>15 DEF CloseSocket
<1>16. CASE EndStreams
  BY <1>1, <1>16 DEF EndStreams
<1>17. CASE FlushMeta
  BY <1>1, <1>17 DEF FlushMeta
<1>18. CASE Exit
  BY <1>1, <1>18 DEF Exit
<1>19. CASE Receive
  <2>1. ~threw'
    BY <1>1, <1>19 DEF Receive
  <2>2. /\ valid' = valid + 1 /\ meta # "complete" /\ collector # "flush" /\ exitCode # "zero"
        /\ UNCHANGED <<runner, collector, stopping, exitCode, socket, open, bin,
                       jsonl, meta, metaFrames, session>>
    BY <1>1, <1>19 DEF Receive
  <2>. QED BY <1>1, <2>1, <2>2
<1>20. CASE WriteBack
  BY <1>1, <1>20 DEF WriteBack
<1>21. CASE Crash
  BY <1>1, <1>21 DEF Crash
<1>22. CASE UNCHANGED sessionVars
  BY <1>1, <1>22 DEF sessionVars
<1>. QED
  BY <1>2, <1>3, <1>4, <1>5, <1>6, <1>7, <1>8, <1>9, <1>10, <1>11, <1>12,
     <1>13, <1>14, <1>15, <1>16, <1>17, <1>18, <1>19, <1>20, <1>21, <1>22
  DEF SessionNext, Runner, Collector

\* The inductive invariant of a session: what each of the two processes and the
\* recording's files must agree on at every await, crash and signal (the
\* collector's cli.ts, startExperiment).
THEOREM SessionInductive == SessionSpec => []SessionIInv
<1>1. SessionIInv /\ [SessionNext]_sessionVars => SessionIInv'
  BY SessionTypeStep, SessionStep DEF SessionIInv
<1>. QED BY <1>1, SessionInitInv, PTL DEF SessionSpec

\* A recording marked complete is whole and closed, and no datagram ever meets
\* a closed one (the collector's cli.ts, RecordingWriter).
THEOREM RecordingMark == SessionSpec => []RecordingWhole
<1>1. SessionIInv => RecordingWhole
  BY DEF SessionIInv, MarksEarned, OpenInOrder, RecordingWhole
<1>. QED BY <1>1, SessionInductive, PTL

\* A session marked complete has a complete recording with frames, and the
\* exit code the runner goes by does not lie (startExperiment, the collector).
THEOREM SessionMark == SessionSpec => []SessionTrustworthy
<1>1. SessionIInv => SessionTrustworthy
  BY DEF SessionIInv, MarksEarned, SessionTrustworthy
<1>. QED BY <1>1, SessionInductive, PTL

-----------------------------------------------------------------------------
(* The receiver's tasks: types and rings.                                  *)

LEMMA CaptureInit == Init => TypeOK /\ RingsKnown
<1>. SUFFICES ASSUME Init PROVE TypeOK /\ RingsKnown
  OBVIOUS
<1>1. FlagsOK
  BY Zenon DEF Init, FlagsOK
<1>2. TypeOK
  BY <1>1, CaptureAssumption DEF Init, TypeOK, Gen, None
<1>3. RingsKnown
  BY DEF Init, RingsKnown, NetAlive, None, At
<1>. QED BY <1>2, <1>3

\* What a queue gives and keeps.
LEMMA SequenceParts ==
  ASSUME NEW S, NEW s \in Seq(S), s # <<>>
  PROVE  /\ Head(s) \in S /\ Tail(s) \in Seq(S)
         /\ Head(s) = s[1] /\ Len(Tail(s)) = Len(s) - 1 /\ Len(s) \in Nat \ {0}
         /\ \A i \in 1..(Len(s) - 1) : Tail(s)[i] = s[i + 1]
OBVIOUS

LEMMA CaptureFlagsStep ==
  ASSUME TypeOK, [Next]_vars
  PROVE  FlagsOK'
<1>. USE DEF FlagsOK, callVars, captureVars, targetVars, encVars, netVars, startVars
<1>1. FlagsOK
  BY DEF TypeOK
<1>2. ASSUME NEW c \in Caller, CallStart(c) PROVE FlagsOK'
  BY <1>1, <1>2 DEF CallStart
<1>3. ASSUME NEW c \in Caller, NEW kind \in {"stop", "maintenance"}, CallStop(c, kind) PROVE FlagsOK'
  BY <1>1, <1>3 DEF CallStop
<1>4. ASSUME NEW c \in Caller, StreamerOpen(c) PROVE FlagsOK'
  BY <1>1, <1>4 DEF StreamerOpen
<1>5. ASSUME NEW c \in Caller, StreamerRun(c) PROVE FlagsOK'
  BY <1>1, <1>5 DEF StreamerRun
<1>6. ASSUME NEW c \in Caller, CsiStart(c) PROVE FlagsOK'
  BY <1>1, <1>6 DEF CsiStart
<1>7. ASSUME NEW c \in Caller, PingStart(c) PROVE FlagsOK'
  BY <1>1, <1>7 DEF PingStart
<1>8. ASSUME NEW c \in Caller, PingStop(c) PROVE FlagsOK'
  BY <1>1, <1>8 DEF PingStop
<1>9. ASSUME NEW c \in Caller, CsiStop(c) PROVE FlagsOK'
  BY <1>1, <1>9 DEF CsiStop
<1>10. ASSUME NEW c \in Caller, Notice(c) PROVE FlagsOK'
  BY <1>1, <1>10 DEF Notice
<1>11. ASSUME NEW c \in Caller, Halt(c) PROVE FlagsOK'
  BY <1>1, <1>11 DEF Halt
<1>12. ASSUME NEW c \in Caller, Close(c) PROVE FlagsOK'
  BY <1>1, <1>12 DEF Close
<1>13. ASSUME NEW g \in Gen, EncBegin(g) PROVE FlagsOK'
  BY <1>1, <1>13 DEF EncBegin
<1>14. ASSUME NEW g \in Gen, EncPush(g) PROVE FlagsOK'
  BY <1>1, <1>14 DEF EncPush
<1>15. ASSUME NEW g \in Gen, EncEnd(g) PROVE FlagsOK'
  BY <1>1, <1>15 DEF EncEnd
<1>16. ASSUME NEW g \in Gen, NetBegin(g) PROVE FlagsOK'
  BY <1>1, <1>16 DEF NetBegin
<1>17. ASSUME NEW g \in Gen, NetLoop(g) PROVE FlagsOK'
  BY <1>1, <1>17 DEF NetLoop
<1>18. ASSUME NEW g \in Gen, NetPop(g) PROVE FlagsOK'
  BY <1>1, <1>18 DEF NetPop
<1>19. ASSUME NEW g \in Gen, NetResolve(g) PROVE FlagsOK'
  BY <1>1, <1>19 DEF NetResolve
<1>20. ASSUME NEW g \in Gen, NetSend(g) PROVE FlagsOK'
  BY <1>1, <1>20 DEF NetSend
<1>21. CASE UNCHANGED vars
  BY <1>1, <1>21 DEF vars
<1>. QED
  BY <1>2, <1>3, <1>4, <1>5, <1>6, <1>7, <1>8, <1>9, <1>10, <1>11, <1>12,
     <1>13, <1>14, <1>15, <1>16, <1>17, <1>18, <1>19, <1>20, <1>21
  DEF Next, Call, Hook, Encoder, Network

LEMMA CaptureTypeStep ==
  ASSUME TypeOK, RingsKnown, [Next]_vars
  PROVE  TypeOK'
<1>. USE DEF None, At, Go, Done,
             callVars, captureVars, targetVars, encVars, netVars, startVars
<1>1. TypeOK /\ FlagsOK'
  BY CaptureFlagsStep
\* The types by themselves, for the steps that compute.
<1>0. /\ starts \in 0..MaxStarts /\ ring = starts /\ sock \in 0..MaxStarts
      /\ packetSeq \in Nat /\ wire \in Seq(Nat)
      /\ \A h \in Gen : queue[h] \in Seq(Nat) /\ encSeq[h] \in Nat /\ netBatch[h] \in Nat
      /\ MaxStarts \in Nat /\ Gen = 1..MaxStarts
  BY CaptureAssumption DEF TypeOK, RingsKnown, Gen
<1>2. ASSUME NEW c \in Caller, CallStart(c) PROVE TypeOK'
  BY <1>1, <1>2 DEF CallStart, TypeOK
<1>3. ASSUME NEW c \in Caller, NEW kind \in {"stop", "maintenance"}, CallStop(c, kind) PROVE TypeOK'
  BY <1>1, <1>3 DEF CallStop, TypeOK
<1>4. ASSUME NEW c \in Caller, StreamerOpen(c) PROVE TypeOK'
  <2>0. DOMAIN mine = Caller /\ mine \in [Caller -> 0..MaxStarts]
    BY DEF TypeOK
  <2>1. /\ starts' \in 0..MaxStarts /\ sock' \in 0..MaxStarts /\ ring' \in 0..MaxStarts
        /\ mine' \in [Caller -> 0..MaxStarts]
        /\ UNCHANGED <<packetSeq, enc, net, encRing, netRing, encSeq, netBatch,
                       queue, wire>>
        /\ \/ pc' = [pc EXCEPT ![c] = "csi"] /\ op' = op
           \/ pc' = [pc EXCEPT ![c] = "resolve"] /\ op' = op
           \/ pc' = [pc EXCEPT ![c] = "idle"] /\ op' = [op EXCEPT ![c] = "none"]
    <3>1. CASE running
      BY <1>0, <1>4, <2>0, <3>1 DEF StreamerOpen
    <3>2. CASE ~running /\ starts < MaxStarts /\ starts' = starts + 1
      <4>1. starts + 1 \in 0..MaxStarts /\ 0 \in 0..MaxStarts
        BY <1>0, <3>2
      <4>. QED BY <1>0, <1>4, <2>0, <3>2, <4>1 DEF StreamerOpen
    <3>3. CASE ~running /\ Done(c) /\ UNCHANGED <<mine, starts, sock, ring, raced>>
      BY <1>0, <1>4, <2>0, <3>3 DEF StreamerOpen
    <3>. QED BY <1>4, <3>1, <3>2, <3>3 DEF StreamerOpen
  <2>. QED BY <1>1, <2>1 DEF TypeOK
<1>5. ASSUME NEW c \in Caller, StreamerRun(c) PROVE TypeOK'
  <2>1. /\ mine' \in [Caller -> 0..MaxStarts]
        /\ enc' \in [Gen -> {"none", "refused", "created", "runs", "ended"}]
        /\ net' \in [Gen -> {"none", "refused", "created", "loop", "polls", "target",
                            "sends", "ended"}]
        /\ pc' \in [Caller -> {"idle", "streamer", "resolve", "csi", "ping",
                               "unping", "uncsi", "notice", "halt", "delay"}]
        /\ UNCHANGED <<op, starts, sock, ring, packetSeq, encRing, netRing, encSeq,
                       netBatch, queue, wire>>
    <3>1. PICK e \in {"created", "refused"}, n \in {"created", "refused"} :
            /\ enc' = [enc EXCEPT ![mine[c]] = e] /\ net' = [net EXCEPT ![mine[c]] = n]
            /\ mine' = [mine EXCEPT ![c] = 0] /\ pc' = [pc EXCEPT ![c] = "csi"]
            /\ UNCHANGED <<op, starts, sock, ring, packetSeq, encRing, netRing, encSeq,
                           netBatch, queue, wire>>
      BY <1>5 DEF StreamerRun
    <3>2. 0 \in 0..MaxStarts
      BY <1>0
    <3>. QED BY <1>1, <3>1, <3>2 DEF TypeOK
  <2>. QED BY <1>1, <2>1 DEF TypeOK
<1>6. ASSUME NEW c \in Caller, CsiStart(c) PROVE TypeOK'
  BY <1>1, <1>6 DEF CsiStart, TypeOK
<1>7. ASSUME NEW c \in Caller, PingStart(c) PROVE TypeOK'
  BY <1>1, <1>7 DEF PingStart, TypeOK
<1>8. ASSUME NEW c \in Caller, PingStop(c) PROVE TypeOK'
  BY <1>1, <1>8 DEF PingStop, TypeOK
<1>9. ASSUME NEW c \in Caller, CsiStop(c) PROVE TypeOK'
  BY <1>1, <1>9 DEF CsiStop, TypeOK
<1>10. ASSUME NEW c \in Caller, Notice(c) PROVE TypeOK'
  <2>1. /\ wire' \in Seq(Nat) /\ packetSeq' \in Nat
        /\ pc' = [pc EXCEPT ![c] = "halt"]
        /\ UNCHANGED <<op, starts, sock, ring, enc, net, encRing, netRing, encSeq,
                       netBatch, queue, mine>>
    <3>1. CASE sock # 0 /\ resolved
      <4>1. Append(wire, packetSeq) \in Seq(Nat) /\ packetSeq + 1 \in Nat
        BY <1>0
      <4>. QED BY <1>10, <3>1, <4>1, Zenon DEF Notice
    <3>2. CASE ~(sock # 0 /\ resolved)
      BY <1>0, <1>10, <3>2 DEF Notice
    <3>. QED BY <3>1, <3>2
  <2>. QED BY <1>1, <2>1 DEF TypeOK
<1>11. ASSUME NEW c \in Caller, Halt(c) PROVE TypeOK'
  BY <1>1, <1>11 DEF Halt, TypeOK
<1>12. ASSUME NEW c \in Caller, Close(c) PROVE TypeOK'
  <2>1. /\ sock' \in 0..MaxStarts /\ pc' = [pc EXCEPT ![c] = "idle"]
        /\ op' = [op EXCEPT ![c] = "none"]
        /\ UNCHANGED <<mine, starts, ring, packetSeq, enc, net, encRing, netRing, encSeq,
                       netBatch, queue, wire>>
    BY <1>0, <1>12 DEF Close
  <2>. QED BY <1>1, <2>1 DEF TypeOK
<1>13. ASSUME NEW g \in Gen, EncBegin(g) PROVE TypeOK'
  <2>1. packetSeq' = packetSeq + 1
        /\ enc' = [enc EXCEPT ![g] = "runs"]
        /\ encRing' = [encRing EXCEPT ![g] = ring]
        /\ encSeq' = [encSeq EXCEPT ![g] = packetSeq]
        /\ UNCHANGED <<op, pc, starts, sock, ring, net, netRing, netBatch, queue,
                       wire, mine>>
    BY <1>13 DEF EncBegin
  <2>2. /\ packetSeq' \in Nat /\ encSeq' \in [Gen -> Nat]
        /\ encRing' \in [Gen -> 0..MaxStarts]
        /\ enc' \in [Gen -> {"none", "refused", "created", "runs", "ended"}]
    BY <1>0, <2>1 DEF TypeOK
  <2>. QED BY <1>1, <2>1, <2>2, Zenon DEF TypeOK
<1>14. ASSUME NEW g \in Gen, EncPush(g) PROVE TypeOK'
  <2>1. encRing[g] \in Gen
    BY <1>0, <1>14 DEF EncPush, RingsKnown, TypeOK
  <2>2. Append(queue[encRing[g]], encSeq[g]) \in Seq(Nat)
    BY <1>0, <2>1
  <2>3. queue' \in [Gen -> Seq(Nat)]
    <3>1. queue' = [queue EXCEPT ![encRing[g]] = Append(queue[encRing[g]], encSeq[g])]
      BY <1>14 DEF EncPush
    <3>. QED BY <2>2, <3>1, Zenon DEF TypeOK
  <2>4. packetSeq' = packetSeq + 1 /\ encSeq' = [encSeq EXCEPT ![g] = packetSeq]
        /\ UNCHANGED <<op, pc, starts, sock, ring, enc, encRing, net, netRing,
                       netBatch, wire, mine>>
    BY <1>14 DEF EncPush
  <2>5. packetSeq' \in Nat /\ encSeq' \in [Gen -> Nat]
    BY <1>0, <2>4 DEF TypeOK
  <2>. QED BY <1>1, <2>3, <2>4, <2>5, Zenon DEF TypeOK
<1>15. ASSUME NEW g \in Gen, EncEnd(g) PROVE TypeOK'
  <2>1. /\ enc' \in [Gen -> {"none", "refused", "created", "runs", "ended"}]
        /\ encRing' \in [Gen -> 0..MaxStarts] /\ encSeq' \in [Gen -> Nat]
        /\ UNCHANGED <<op, pc, mine, starts, sock, ring, packetSeq, net, netRing,
                       netBatch, queue, wire>>
    BY <1>0, <1>1, <1>15 DEF EncEnd, TypeOK
  <2>. QED BY <1>1, <2>1 DEF TypeOK
<1>16. ASSUME NEW g \in Gen, NetBegin(g) PROVE TypeOK'
  BY <1>1, <1>16 DEF NetBegin, TypeOK
<1>17. ASSUME NEW g \in Gen, NetLoop(g) PROVE TypeOK'
  <2>1. /\ net' \in [Gen -> {"none", "refused", "created", "loop", "polls", "target",
                            "sends", "ended"}]
        /\ netRing' \in [Gen -> 0..MaxStarts]
        /\ UNCHANGED <<op, pc, mine, starts, sock, ring, packetSeq, enc, encRing,
                       encSeq, netBatch, queue, wire>>
    <3>1. 0 \in 0..MaxStarts
      BY <1>0
    <3>. QED BY <1>1, <1>17, <3>1 DEF NetLoop, TypeOK
  <2>. QED BY <1>1, <2>1 DEF TypeOK
<1>18. ASSUME NEW g \in Gen, NetPop(g) PROVE TypeOK'
  <2>. DEFINE polled == queue[netRing[g]]
  <2>0. netRing[g] \in Gen
    <3>1. netRing[g] # 0 /\ netRing[g] \in 0..MaxStarts
      BY <1>18 DEF NetPop, RingsKnown, NetAlive, TypeOK
    <3>. QED BY <1>0, <3>1
  <2>1. polled \in Seq(Nat)
    BY <1>0, <2>0
  <2>2. CASE polled = <<>>
    BY <1>1, <1>18, <2>2 DEF NetPop, TypeOK
  <2>3. CASE polled # <<>>
    <3>1. Head(polled) \in Nat /\ Tail(polled) \in Seq(Nat)
      BY <2>1, <2>3, SequenceParts
    <3>2. /\ netBatch' = [netBatch EXCEPT ![g] = Head(polled)]
          /\ queue' = [queue EXCEPT ![netRing[g]] = Tail(polled)]
          /\ net' = [net EXCEPT ![g] = IF resolved THEN "sends" ELSE "target"]
          /\ UNCHANGED <<op, pc, starts, sock, ring, packetSeq, enc, encRing,
                         encSeq, netRing, wire, mine>>
      BY <1>18, <2>3 DEF NetPop
    <3>3. netBatch' \in [Gen -> Nat]
      BY <3>1, <3>2, Zenon DEF TypeOK
    <3>4. queue' \in [Gen -> Seq(Nat)]
      BY <3>1, <3>2, Zenon DEF TypeOK
    <3>5. net' \in [Gen -> {"none", "refused", "created", "loop", "polls", "target",
                            "sends", "ended"}]
      BY <3>2 DEF TypeOK
    <3>. QED BY <1>1, <3>2, <3>3, <3>4, <3>5 DEF TypeOK
  <2>. QED BY <2>2, <2>3
<1>19. ASSUME NEW g \in Gen, NetResolve(g) PROVE TypeOK'
  <2>1. /\ net' \in [Gen -> {"none", "refused", "created", "loop", "polls", "target",
                            "sends", "ended"}]
        /\ netBatch' \in [Gen -> Nat]
        /\ UNCHANGED <<op, pc, mine, starts, sock, ring, packetSeq, enc, encRing,
                       encSeq, netRing, queue, wire>>
    <3>1. /\ net' \in {[net EXCEPT ![g] = "sends"], [net EXCEPT ![g] = "loop"]}
          /\ netBatch' \in {netBatch, [netBatch EXCEPT ![g] = 0]}
          /\ UNCHANGED <<op, pc, mine, starts, sock, ring, packetSeq, enc, encRing,
                         encSeq, netRing, queue, wire>>
      BY <1>19 DEF NetResolve
    <3>2. 0 \in Nat
      OBVIOUS
    <3>. QED BY <1>1, <3>1, <3>2 DEF TypeOK
  <2>. QED BY <1>1, <2>1 DEF TypeOK
<1>20. ASSUME NEW g \in Gen, NetSend(g) PROVE TypeOK'
  <2>1. /\ wire' \in Seq(Nat) /\ net' = [net EXCEPT ![g] = "loop"]
        /\ netBatch' = [netBatch EXCEPT ![g] = 0]
        /\ UNCHANGED <<op, pc, starts, sock, ring, packetSeq, enc, encRing, encSeq,
                       netRing, queue, mine>>
    BY <1>0, <1>20 DEF NetSend
  <2>. QED BY <1>1, <2>1 DEF TypeOK
<1>21. CASE UNCHANGED vars
  BY <1>1, <1>21 DEF vars, TypeOK
<1>. QED
  BY <1>2, <1>3, <1>4, <1>5, <1>6, <1>7, <1>8, <1>9, <1>10, <1>11, <1>12,
     <1>13, <1>14, <1>15, <1>16, <1>17, <1>18, <1>19, <1>20, <1>21
  DEF Next, Call, Hook, Encoder, Network

LEMMA RingsStep ==
  ASSUME TypeOK, RingsKnown, [Next]_vars
  PROVE  RingsKnown'
<1>. USE DEF RingsKnown, NetAlive, None, At, Go, Done,
             callVars, captureVars, targetVars, encVars, netVars, startVars
<1>1. /\ ring = starts /\ starts \in Nat
      /\ DOMAIN pc = Caller /\ DOMAIN mine = Caller /\ DOMAIN enc = Gen /\ DOMAIN net = Gen
      /\ DOMAIN encRing = Gen /\ DOMAIN netRing = Gen
  BY CaptureAssumption DEF TypeOK
<1>0. ASSUME NEW c \in Caller, pc[c] = "resolve" PROVE ring # 0
  BY <1>0
<1>2. ASSUME NEW c \in Caller, CallStart(c) PROVE RingsKnown'
  BY <1>1, <1>2 DEF CallStart
<1>3. ASSUME NEW c \in Caller, NEW kind \in {"stop", "maintenance"}, CallStop(c, kind) PROVE RingsKnown'
  BY <1>1, <1>3 DEF CallStop
<1>4. ASSUME NEW c \in Caller, StreamerOpen(c) PROVE RingsKnown'
  <2>1. /\ ring' = starts' /\ (ring # 0 => ring' # 0)
        /\ UNCHANGED <<enc, net, encRing, netRing>>
        /\ \A d \in Caller : pc'[d] = "resolve" => mine'[d] # 0 /\ ring' # 0
    <3>1. CASE starts' = starts + 1 /\ ring' = starts + 1
      <4>1. ring' # 0
        BY <1>1, <3>1
      <4>2. \A d \in Caller \ {c} : pc'[d] = pc[d] /\ mine'[d] = mine[d]
        BY <1>1, <1>4 DEF StreamerOpen
      <4>3. pc'[c] = "resolve" => mine'[c] = starts + 1
        BY <1>1, <1>4 DEF StreamerOpen
      <4>. QED BY <1>1, <1>4, <3>1, <4>1, <4>2, <4>3 DEF StreamerOpen
    <3>2. CASE UNCHANGED <<starts, ring>>
      <4>0. starts' # starts + 1
        BY <1>1, <3>2
      <4>1. pc'[c] \in {"csi", "idle"} /\ mine' = mine
        BY <1>1, <1>4, <4>0 DEF StreamerOpen
      <4>2. UNCHANGED <<enc, net, encRing, netRing>>
            /\ \A d \in Caller \ {c} : pc'[d] = pc[d]
        BY <1>1, <1>4 DEF StreamerOpen
      <4>. QED BY <1>1, <3>2, <4>1, <4>2
    <3>. QED BY <1>4, <3>1, <3>2 DEF StreamerOpen
  <2>. QED BY <1>1, <2>1
<1>5. ASSUME NEW c \in Caller, StreamerRun(c) PROVE RingsKnown'
  <2>1. /\ UNCHANGED <<ring, starts, encRing, netRing>> /\ ring # 0
        /\ \A g \in Gen : /\ enc'[g] # enc[g] => enc'[g] \in {"created", "refused"}
                          /\ net'[g] # net[g] => net'[g] \in {"created", "refused"}
        /\ \A d \in Caller : pc'[d] = "resolve" => pc[d] = "resolve" /\ mine'[d] = mine[d]
    BY <1>0, <1>1, <1>5 DEF StreamerRun
  <2>. QED BY <1>1, <2>1
<1>6. ASSUME NEW c \in Caller, CsiStart(c) PROVE RingsKnown'
  <2>1. /\ UNCHANGED <<mine, ring, starts, enc, net, encRing, netRing>>
        /\ \A d \in Caller : pc'[d] = "resolve" => pc[d] = "resolve"
    BY <1>1, <1>6 DEF CsiStart
  <2>. QED BY <1>1, <2>1
<1>7. ASSUME NEW c \in Caller, PingStart(c) PROVE RingsKnown'
  BY <1>1, <1>7 DEF PingStart
<1>8. ASSUME NEW c \in Caller, PingStop(c) PROVE RingsKnown'
  BY <1>1, <1>8 DEF PingStop
<1>9. ASSUME NEW c \in Caller, CsiStop(c) PROVE RingsKnown'
  BY <1>1, <1>9 DEF CsiStop
<1>10. ASSUME NEW c \in Caller, Notice(c) PROVE RingsKnown'
  BY <1>1, <1>10 DEF Notice
<1>11. ASSUME NEW c \in Caller, Halt(c) PROVE RingsKnown'
  <2>1. /\ UNCHANGED <<mine, ring, starts, enc, net, encRing, netRing>>
        /\ \A d \in Caller : pc'[d] = "resolve" => pc[d] = "resolve"
    BY <1>1, <1>11 DEF Halt
  <2>. QED BY <1>1, <2>1
<1>12. ASSUME NEW c \in Caller, Close(c) PROVE RingsKnown'
  BY <1>1, <1>12 DEF Close
<1>13. ASSUME NEW g \in Gen, EncBegin(g) PROVE RingsKnown'
  <2>1. /\ UNCHANGED <<pc, mine, ring, starts, net, netRing>>
        /\ \A h \in Gen : h # g => enc'[h] = enc[h] /\ encRing'[h] = encRing[h]
        /\ enc'[g] = "runs" /\ encRing'[g] = ring /\ enc[g] = "created"
    BY <1>1, <1>13 DEF EncBegin
  <2>. QED BY <1>1, <2>1
<1>14. ASSUME NEW g \in Gen, EncPush(g) PROVE RingsKnown'
  BY <1>1, <1>14 DEF EncPush
<1>15. ASSUME NEW g \in Gen, EncEnd(g) PROVE RingsKnown'
  BY <1>1, <1>15 DEF EncEnd
<1>16. ASSUME NEW g \in Gen, NetBegin(g) PROVE RingsKnown'
  <2>1. /\ UNCHANGED <<pc, mine, ring, starts, enc, encRing>>
        /\ \A h \in Gen : h # g => net'[h] = net[h] /\ netRing'[h] = netRing[h]
        /\ net'[g] = "loop" /\ netRing'[g] = ring /\ net[g] = "created"
    BY <1>1, <1>16 DEF NetBegin
  <2>. QED BY <1>1, <2>1
<1>17. ASSUME NEW g \in Gen, NetLoop(g) PROVE RingsKnown'
  BY <1>1, <1>17 DEF NetLoop
<1>18. ASSUME NEW g \in Gen, NetPop(g) PROVE RingsKnown'
  <2>1. /\ UNCHANGED <<pc, mine, ring, starts, enc, encRing, netRing>>
        /\ \A h \in Gen : h # g => net'[h] = net[h]
        /\ net'[g] # "created" /\ net[g] \notin {"none", "refused", "created", "ended"}
    BY <1>1, <1>18 DEF NetPop
  <2>. QED BY <1>1, <2>1
<1>19. ASSUME NEW g \in Gen, NetResolve(g) PROVE RingsKnown'
  <2>1. /\ UNCHANGED <<pc, mine, ring, starts, enc, encRing, netRing>>
        /\ \A h \in Gen : h # g => net'[h] = net[h]
        /\ net'[g] # "created" /\ net[g] \notin {"none", "refused", "created", "ended"}
    BY <1>1, <1>19 DEF NetResolve
  <2>. QED BY <1>1, <2>1
<1>20. ASSUME NEW g \in Gen, NetSend(g) PROVE RingsKnown'
  BY <1>1, <1>20 DEF NetSend
<1>21. CASE UNCHANGED vars
  BY <1>1, <1>21 DEF vars
<1>. QED
  BY <1>2, <1>3, <1>4, <1>5, <1>6, <1>7, <1>8, <1>9, <1>10, <1>11, <1>12,
     <1>13, <1>14, <1>15, <1>16, <1>17, <1>18, <1>19, <1>20, <1>21
  DEF Next, Call, Hook, Encoder, Network

-----------------------------------------------------------------------------
(* The streamer's callers.                                                 *)

LEMMA RunningStep ==
  ASSUME TypeOK, RunningForCapture, [Next]_vars
  PROVE  RunningForCapture'
<1>. USE DEF At, Go, Done, callVars, captureVars, targetVars, encVars, netVars,
             startVars
<1>1. /\ RunningForCapture /\ DOMAIN pc = Caller
      /\ active \in BOOLEAN /\ running \in BOOLEAN
  BY DEF TypeOK, FlagsOK
\* The callers on their way to stop stay there, or the flag goes down.
<1>2. ASSUME running' => running, active => active',
             \A d \in Caller : pc[d] \in {"csi", "notice", "halt"} =>
               pc'[d] \in {"csi", "notice", "halt"}
      PROVE  RunningForCapture'
  BY <1>1, <1>2 DEF RunningForCapture
<1>3. ASSUME NEW c \in Caller, \/ CallStart(c) \/ CallStop(c, "stop")
               \/ CallStop(c, "maintenance") \/ StreamerOpen(c) \/ PingStart(c)
               \/ PingStop(c) \/ Notice(c)
      PROVE  RunningForCapture'
  <2>1. running' = running /\ active' = active
    BY <1>3 DEF CallStart, CallStop, StreamerOpen, PingStart, PingStop, Notice
  <2>2. /\ \A d \in Caller \ {c} : pc'[d] = pc[d]
        /\ pc[c] \in {"csi", "notice", "halt"} => pc'[c] = "halt"
    BY <1>1, <1>3 DEF CallStart, CallStop, StreamerOpen, PingStart, PingStop, Notice
  <2>. QED BY <1>2, <2>1, <2>2
<1>4. ASSUME NEW c \in Caller, StreamerRun(c) PROVE RunningForCapture'
  <2>1. pc'[c] = "csi"
    BY <1>1, <1>4 DEF StreamerRun
  <2>. QED BY <2>1 DEF RunningForCapture
<1>5. ASSUME NEW c \in Caller, CsiStart(c) PROVE RunningForCapture'
  <2>1. CASE active' = TRUE
    BY <2>1 DEF RunningForCapture
  <2>2. CASE Go(c, "halt")
    <3>1. pc'[c] = "halt"
      BY <1>1, <2>2
    <3>. QED BY <3>1 DEF RunningForCapture
  <2>. QED BY <1>5, <2>1, <2>2 DEF CsiStart
<1>6. ASSUME NEW c \in Caller, CsiStop(c) PROVE RunningForCapture'
  <2>1. pc'[c] \in {"notice", "halt"}
    BY <1>1, <1>6 DEF CsiStop
  <2>. QED BY <2>1 DEF RunningForCapture
<1>7. ASSUME NEW c \in Caller, Halt(c) PROVE RunningForCapture'
  <2>1. ~running'
    BY <1>1, <1>7 DEF Halt
  <2>. QED BY <2>1 DEF RunningForCapture
<1>8. ASSUME NEW c \in Caller, Close(c) PROVE RunningForCapture'
  <2>1. /\ running' = running /\ active' = active
        /\ pc[c] = "delay" /\ \A d \in Caller \ {c} : pc'[d] = pc[d]
    BY <1>1, <1>8 DEF Close
  <2>. QED BY <1>2, <2>1
<1>9. CASE UNCHANGED <<pc, active, running>>
  BY <1>2, <1>9
<1>10. ASSUME NEW g \in Gen, Encoder(g) \/ Network(g)
       PROVE  UNCHANGED <<pc, active, running>>
  BY <1>10 DEF Encoder, Network, EncBegin, EncPush, EncEnd, NetBegin, NetLoop, NetPop, NetResolve, NetSend
<1>11. CASE UNCHANGED vars
  BY <1>9, <1>11 DEF vars
<1>. QED
  BY <1>3, <1>4, <1>5, <1>6, <1>7, <1>8, <1>9, <1>10, <1>11 DEF Next, Call, Hook

LEMMA NotRacedStep ==
  ASSUME CaptureIInv, NotRaced, [Next]_vars, ~raced'
  PROVE  NotRaced'
<1>. DEFINE Alive(g) == enc[g] \in {"created", "runs"}
            Closing == \E c \in Caller : pc[c] = "delay"
            Opening == \E c \in Caller : pc[c] = "resolve"
            Runs == running => /\ starts \in Gen /\ sock = starts
                               /\ enc[starts] \in {"refused", "created", "runs"}
\* The invariant, member by member.
<1>1. /\ \A c, d \in Caller : pc[c] \in {"resolve", "delay"} /\ pc[d] \in {"resolve", "delay"} => c = d
      /\ \A c \in Caller : pc[c] \in {"resolve", "delay"} => ~running
      /\ \A c \in Caller : pc[c] = "resolve" => mine[c] = starts
      /\ \A g \in Gen : Alive(g) => g = starts /\ (enc[g] = "runs" => encRing[g] = ring)
      /\ Runs
      /\ ~running /\ ~Closing => \A g \in Gen : ~Alive(g)
      /\ Opening => sock = starts
  BY DEF NotRaced, OneInside, Inside, EncoderCurrent, SocketCurrent, EncAlive, At
<1>2. ASSUME
        /\ \A c, d \in Caller : pc'[c] \in {"resolve", "delay"} /\ pc'[d] \in {"resolve", "delay"} => c = d
        /\ \A c \in Caller : pc'[c] \in {"resolve", "delay"} => ~running'
        /\ \A c \in Caller : pc'[c] = "resolve" => mine'[c] = starts'
        /\ \A g \in Gen : Alive(g)' => g = starts' /\ (enc'[g] = "runs" => encRing'[g] = ring')
        /\ Runs'
        /\ ~running' /\ ~Closing' => \A g \in Gen : ~Alive(g)'
        /\ Opening' => sock' = starts'
      PROVE NotRaced'
  BY <1>2 DEF NotRaced, OneInside, Inside, EncoderCurrent, SocketCurrent, EncAlive, At
<1>3. /\ DOMAIN pc = Caller /\ DOMAIN enc = Gen /\ DOMAIN encRing = Gen /\ ring = starts
      /\ starts \in 0..MaxStarts /\ MaxStarts \in Nat /\ Gen = 1..MaxStarts
      /\ DOMAIN mine = Caller /\ running \in BOOLEAN /\ raced \in BOOLEAN
      /\ \A c \in Caller : pc[c] = "resolve" => mine[c] # 0
  BY CaptureAssumption DEF CaptureIInv, TypeOK, FlagsOK, RingsKnown, Gen, At, None
<1>. USE DEF At, Go, Done, None, Inside,
             callVars, captureVars, targetVars, encVars, netVars, startVars
\* Steps outside the streamer, or through it while it runs.
<1>5. ASSUME UNCHANGED <<enc, encRing, ring, starts, sock, running, mine>>,
             \A d \in Caller : pc'[d] # pc[d] => {pc[d], pc'[d]} \cap {"resolve", "delay"} = {}
      PROVE  NotRaced'
  <2>1. (Closing <=> Closing') /\ (Opening <=> Opening')
    BY <1>5
  <2>2. \A d \in Caller : /\ pc'[d] \in {"resolve", "delay"} => pc[d] = pc'[d]
    BY <1>5
  <2>. QED BY <1>1, <1>2, <1>5, <2>1, <2>2
<1>6. ASSUME NEW c \in Caller, CallStart(c) \/ CsiStart(c) \/ PingStart(c)
               \/ PingStop(c) \/ CsiStop(c) \/ Notice(c)
               \/ CallStop(c, "stop") \/ CallStop(c, "maintenance")
      PROVE  NotRaced'
  <2>1. /\ UNCHANGED <<enc, encRing, ring, starts, sock, running, mine>>
        /\ \A d \in Caller \ {c} : pc'[d] = pc[d]
        /\ pc[c] \notin {"delay", "resolve"} /\ pc'[c] \notin {"delay", "resolve"}
    BY <1>3, <1>6 DEF CallStart, CsiStart, PingStart, PingStop, CsiStop, Notice, CallStop
  <2>. QED BY <1>5, <2>1
<1>7. ASSUME NEW c \in Caller, StreamerOpen(c)
      PROVE  NotRaced'
  <2>0. UNCHANGED <<enc, encRing, running>> /\ pc[c] = "streamer"
    BY <1>7 DEF StreamerOpen
  <2>1. CASE running /\ Go(c, "csi") /\ UNCHANGED <<op, mine, starts, sock, ring, address, raced>>
    BY <1>3, <1>5, <2>0, <2>1
  <2>2. CASE /\ ~running /\ starts' = starts + 1 /\ ring' = starts + 1
             /\ raced' = (raced \/ \E d \in Caller : Inside(d))
             /\ \/ /\ sock' = starts + 1 /\ mine' = [mine EXCEPT ![c] = starts + 1]
                   /\ Go(c, "resolve")
                \/ sock' = None /\ Done(c) /\ UNCHANGED mine
    <3>1. \A d \in Caller : pc[d] \notin {"resolve", "delay"}
      BY <2>2
    <3>2. \A g \in Gen : ~Alive(g)
      BY <1>1, <2>2, <3>1
    <3>3. /\ \A d \in Caller \ {c} : pc'[d] = pc[d]
          /\ \/ pc'[c] = "resolve" /\ mine'[c] = starts' /\ sock' = starts'
             \/ pc'[c] = "idle"
      BY <1>3, <2>2
    <3>. QED BY <1>2, <2>0, <2>2, <3>1, <3>2, <3>3
  <2>3. CASE ~running /\ Done(c) /\ UNCHANGED <<mine, starts, sock, ring, raced>>
    BY <1>3, <1>5, <2>0, <2>3
  <2>. QED BY <1>7, <2>1, <2>2, <2>3 DEF StreamerOpen
<1>8. ASSUME NEW c \in Caller, StreamerRun(c)
      PROVE  NotRaced'
  <2>1. /\ running' /\ UNCHANGED <<starts, sock, ring, encRing>> /\ pc[c] = "resolve"
        /\ \E e \in {"created", "refused"} : enc' = [enc EXCEPT ![mine[c]] = e]
        /\ pc' = [pc EXCEPT ![c] = "csi"]
    BY <1>8 DEF StreamerRun
  <2>2. ~running /\ ~Closing /\ sock = starts /\ starts \in Gen /\ mine[c] = starts
    BY <1>1, <1>3, <2>1
  <2>3. \A d \in Caller : pc'[d] \notin {"resolve", "delay"}
    BY <1>1, <1>3, <2>1
  <2>4. \A g \in Gen : ~Alive(g)
    BY <1>1, <2>2
  <2>5. \A g \in Gen : Alive(g)' => g = starts /\ enc'[g] # "runs"
    BY <1>3, <2>1, <2>2, <2>4
  <2>6. enc'[starts] \in {"refused", "created"}
    BY <1>3, <2>1, <2>2
  <2>. QED BY <1>2, <2>1, <2>2, <2>3, <2>5, <2>6
<1>9. ASSUME NEW c \in Caller, Halt(c)
      PROVE  NotRaced'
  <2>1. CASE running
    <3>1. /\ UNCHANGED <<enc, encRing, ring, starts, sock, mine>> /\ ~running'
          /\ pc'[c] = "delay" /\ \A d \in Caller \ {c} : pc'[d] = pc[d]
      BY <1>3, <1>9, <2>1 DEF Halt
    <3>2. \A d \in Caller : pc[d] \notin {"resolve", "delay"}
      BY <1>1, <2>1
    <3>. QED BY <1>1, <1>2, <3>1, <3>2
  <2>2. CASE ~running
    BY <1>3, <1>5, <1>9, <2>2 DEF Halt
  <2>. QED BY <2>1, <2>2
<1>10. ASSUME NEW c \in Caller, Close(c)
       PROVE  NotRaced'
  <2>1. /\ UNCHANGED <<enc, encRing, ring, starts, running, mine>> /\ pc[c] = "delay"
        /\ pc'[c] = "idle" /\ \A d \in Caller \ {c} : pc'[d] = pc[d]
    BY <1>3, <1>10 DEF Close
  <2>2. ~running /\ \A g \in Gen : ~Alive(g)
    BY <1>1, <1>10, <2>1 DEF Close, EncAlive
  <2>3. \A d \in Caller : pc'[d] \notin {"resolve", "delay"}
    BY <1>1, <2>1
  <2>. QED BY <1>2, <2>1, <2>2, <2>3
<1>11. ASSUME NEW g \in Gen, EncBegin(g)
       PROVE  NotRaced'
  <2>1. /\ UNCHANGED <<pc, ring, starts, sock, running, mine>>
        /\ enc[g] = "created" /\ enc' = [enc EXCEPT ![g] = "runs"]
        /\ encRing' = [encRing EXCEPT ![g] = ring]
    BY <1>11 DEF EncBegin
  <2>. QED BY <1>1, <1>2, <1>3, <2>1
<1>12. ASSUME NEW g \in Gen, EncEnd(g)
       PROVE  NotRaced'
  <2>1. /\ UNCHANGED <<pc, ring, starts, sock, running, mine>> /\ ~running
        /\ enc'[g] = "ended"
        /\ \A h \in Gen \ {g} : enc'[h] = enc[h] /\ encRing'[h] = encRing[h]
    BY <1>3, <1>12 DEF EncEnd
  <2>. QED BY <1>1, <1>2, <1>3, <2>1
<1>13. ASSUME NEW g \in Gen, EncPush(g) \/ Network(g)
       PROVE  UNCHANGED <<pc, enc, encRing, ring, starts, sock, running, mine>>
  BY <1>13 DEF EncPush, Network, NetBegin, NetLoop, NetPop, NetResolve, NetSend
<1>14. CASE UNCHANGED <<pc, enc, encRing, ring, starts, sock, running, mine>>
  BY <1>5, <1>14
<1>15. CASE UNCHANGED vars
  BY <1>14, <1>15 DEF vars
<1>. QED
  BY <1>6, <1>7, <1>8, <1>9, <1>10, <1>11, <1>12, <1>13, <1>14, <1>15
  DEF Next, Call, Hook, Encoder

\* What has raced stays so.
LEMMA RacedStays ==
  ASSUME [Next]_vars, raced
  PROVE  raced'
<1>. USE DEF callVars, captureVars, targetVars, encVars, netVars, startVars
<1>1. ASSUME NEW c \in Caller, StreamerOpen(c) PROVE raced'
  BY <1>1 DEF StreamerOpen
<1>2. ASSUME NEW c \in Caller, \/ Call(c) \/ StreamerRun(c) \/ CsiStart(c)
               \/ PingStart(c) \/ PingStop(c) \/ CsiStop(c) \/ Notice(c)
               \/ Halt(c) \/ Close(c)
      PROVE raced'
  BY <1>2 DEF Call, CallStart, CallStop, StreamerRun, CsiStart, PingStart,
              PingStop, CsiStop, Notice, Halt, Close
<1>3. ASSUME NEW g \in Gen, Encoder(g) \/ Network(g) PROVE raced'
  BY <1>3 DEF Encoder, Network, EncBegin, EncPush, EncEnd, NetBegin, NetLoop, NetPop, NetResolve, NetSend
<1>. QED BY <1>1, <1>2, <1>3 DEF Next, Hook, vars

\* The inductive invariant of the capture hooks, called by any number of tasks
\* at any time: a streamer that runs without capture has a caller on its way to
\* stop it, and until two callers have met inside the streamer, the flag, the
\* socket and the newest encode task go together (captureStart, captureStop,
\* NetworkStreamer::start and stop).
THEOREM CaptureInductive == Spec => []CaptureIInv
<1>1. Init => CaptureIInv
  <2>. SUFFICES ASSUME Init PROVE CaptureIInv
    OBVIOUS
  <2>1. RunningForCapture /\ NotRaced
    BY DEF Init, RunningForCapture, NotRaced, OneInside, Inside, EncoderCurrent,
           SocketCurrent, EncAlive, At
  <2>. QED BY <2>1, CaptureInit DEF CaptureIInv
<1>2. CaptureIInv /\ [Next]_vars => CaptureIInv'
  <2>. SUFFICES ASSUME CaptureIInv, [Next]_vars PROVE CaptureIInv'
    OBVIOUS
  <2>1. (TypeOK /\ RingsKnown /\ RunningForCapture)'
    BY CaptureTypeStep, RingsStep, RunningStep DEF CaptureIInv
  <2>2. CASE raced
    BY <2>1, <2>2, RacedStays DEF CaptureIInv
  <2>3. CASE NotRaced
    BY <2>1, <2>3, NotRacedStep DEF CaptureIInv
  <2>. QED BY <2>2, <2>3 DEF CaptureIInv
<1>. QED BY <1>1, <1>2, PTL DEF Spec

\* The frame queue never has two consumers (FrameRing) unless a start met
\* another caller between the test of running_ and its setting, or in the 100 ms
\* of a stop; the run capture_two_encoders shows that it then may.
THEOREM FrameQueueHasOneConsumer == Spec => []OneEncoderUnlessRaced
<1>1. CaptureIInv => OneEncoderUnlessRaced
  BY DEF CaptureIInv, NotRaced, EncoderCurrent, OneEncoder, OneEncoderUnlessRaced
<1>. QED BY <1>1, CaptureInductive, PTL

\* When no hook is in progress, a streamer that runs does so for an active
\* capture, and, unless two callers met inside it, with an open socket and the
\* encode task of its last start, if that was created (captureStart,
\* captureStop).
THEOREM CaptureIsStreaming == Spec => []ActiveMeansStreaming
<1>1. CaptureIInv => ActiveMeansStreaming
  <2>. SUFFICES ASSUME CaptureIInv, Quiet, running PROVE
          /\ active
          /\ raced \/ /\ sock # None
                      /\ \/ enc[starts] = "refused"
                         \/ enc[starts] = "created"
                         \/ enc[starts] = "runs" /\ encRing[starts] = ring
    BY DEF ActiveMeansStreaming
  <2>1. active
    BY DEF CaptureIInv, RunningForCapture, Quiet, At
  <2>2. ASSUME NotRaced
        PROVE  /\ sock # None
               /\ \/ enc[starts] = "refused"
                  \/ enc[starts] = "created"
                  \/ enc[starts] = "runs" /\ encRing[starts] = ring
    <3>1. /\ starts \in Gen /\ sock = starts
          /\ enc[starts] \in {"refused", "created", "runs"}
      BY <2>2 DEF NotRaced, EncoderCurrent, SocketCurrent
    <3>2. enc[starts] = "runs" => encRing[starts] = ring
      BY <2>2, <3>1 DEF NotRaced, EncoderCurrent, EncAlive
    <3>3. sock # None
      BY <3>1, CaptureAssumption DEF Gen, None
    <3>. QED BY <3>1, <3>2, <3>3
  <2>. QED BY <2>1, <2>2 DEF CaptureIInv
<1>. QED BY <1>1, CaptureInductive, PTL

-----------------------------------------------------------------------------
(* Sequence numbers.                                                       *)

LEMMA AppendDistinct ==
  ASSUME NEW s \in Seq(Nat), NEW x \in Nat
  PROVE  /\ Items(Append(s, x)) = Items(s) \cup {x}
         /\ Distinct(s) /\ x \notin Items(s) => Distinct(Append(s, x))
<1>1. /\ Len(Append(s, x)) = Len(s) + 1 /\ Len(s) \in Nat
      /\ Append(s, x)[Len(s) + 1] = x
      /\ \A i \in 1..Len(s) : Append(s, x)[i] = s[i]
  OBVIOUS
<1>2. \A i : i \in 1..(Len(s) + 1) <=> i \in 1..Len(s) \/ i = Len(s) + 1
  BY <1>1
<1>3. \A y : y \in Items(Append(s, x)) <=> y \in Items(s) \/ y = x
  BY <1>1, <1>2 DEF Items
<1>4. ASSUME Distinct(s), x \notin Items(s)
      PROVE  Distinct(Append(s, x))
  BY <1>1, <1>2, <1>4 DEF Items, Distinct
<1>. QED BY <1>3, <1>4

LEMMA TailDistinct ==
  ASSUME NEW s \in Seq(Nat), s # <<>>
  PROVE  /\ Head(s) \in Items(s) /\ Items(Tail(s)) \subseteq Items(s)
         /\ Distinct(s) => Distinct(Tail(s)) /\ Head(s) \notin Items(Tail(s))
<1>1. /\ Head(s) = s[1] /\ Len(Tail(s)) = Len(s) - 1 /\ Len(s) \in Nat \ {0}
      /\ \A i \in 1..(Len(s) - 1) : Tail(s)[i] = s[i + 1]
  BY SequenceParts
<1>2. \A i \in 1..(Len(s) - 1) : i + 1 \in 1..Len(s) /\ i + 1 # 1
  BY <1>1
<1>3. 1 \in 1..Len(s)
  BY <1>1
<1>4. Head(s) \in Items(s) /\ Items(Tail(s)) \subseteq Items(s)
  BY <1>1, <1>2, <1>3 DEF Items
<1>5. ASSUME Distinct(s)
      PROVE  Distinct(Tail(s)) /\ Head(s) \notin Items(Tail(s))
  <2>1. Distinct(Tail(s))
    <3>. SUFFICES ASSUME NEW i \in 1..(Len(s) - 1), NEW j \in 1..(Len(s) - 1),
                         Tail(s)[i] = Tail(s)[j]
                  PROVE  i = j
      BY <1>1 DEF Distinct
    <3>1. i + 1 = j + 1
      BY <1>1, <1>2, <1>5 DEF Distinct
    <3>. QED BY <3>1
  <2>2. Head(s) \notin Items(Tail(s))
    BY <1>1, <1>2, <1>3, <1>5 DEF Items, Distinct
  <2>. QED BY <2>1, <2>2
<1>. QED BY <1>4, <1>5

\* The places by name, so that only their being different matters.
InRing(g) == <<"queue", g>>
Built(g) == <<"built", g>>
Taken(g) == <<"taken", g>>

LEMMA Places ==
  ASSUME NEW p \in Place
  PROVE  p = OnWire \/ \E g \in Gen : p = InRing(g) \/ p = Built(g) \/ p = Taken(g)
BY DEF Place, InRing, Built, Taken

LEMMA ArePlaces ==
  /\ OnWire \in Place
  /\ \A g \in Gen : /\ InRing(g) \in Place /\ Built(g) \in Place /\ Taken(g) \in Place
                    /\ OnWire # InRing(g) /\ OnWire # Built(g) /\ OnWire # Taken(g)
  /\ \A g, h \in Gen : /\ InRing(g) # Built(h) /\ InRing(g) # Taken(h) /\ Built(g) # Taken(h)
                       /\ InRing(g) = InRing(h) => g = h
                       /\ Built(g) = Built(h) => g = h
                       /\ Taken(g) = Taken(h) => g = h
BY DEF Place, OnWire, InRing, Built, Taken

\* What each place holds.
Holdings ==
  /\ \A n : n \in Held(OnWire) <=> n \in Items(wire)
  /\ \A g \in Gen : \A n :
       /\ n \in Held(InRing(g)) <=> n \in Items(queue[g])
       /\ n \in Held(Built(g)) <=> enc[g] = "runs" /\ n = encSeq[g]
       /\ n \in Held(Taken(g)) <=> net[g] \in {"target", "sends"} /\ n = netBatch[g]

LEMMA WhatIsHeld == Holdings
BY DEF Holdings, Held, OnWire, InRing, Built, Taken

\* After a step that takes the number n out of its place, m may be at p: it was
\* there, it is n in its new place, or it is the next number drawn.
Fits(p, m, n, from, to, new) ==
  \/ m \in Held(p) /\ (p = from => m # n)
  \/ p = to /\ m = n /\ n \in Held(from)
  \/ p = new /\ m = packetSeq /\ packetSeq' = packetSeq + 1

AllFit(n, from, to, new) ==
  /\ \A m \in Items(wire') : Fits(OnWire, m, n, from, to, new)
  /\ \A g \in Gen :
       /\ \A m \in Items(queue'[g]) : Fits(InRing(g), m, n, from, to, new)
       /\ enc'[g] = "runs" => Fits(Built(g), encSeq'[g], n, from, to, new)
       /\ net'[g] \in {"target", "sends"}
            => Fits(Taken(g), netBatch'[g], n, from, to, new)

LEMMA Moved ==
  ASSUME SeqsDrawn, OnePlace, packetSeq \in Nat,
         packetSeq' \in {packetSeq, packetSeq + 1},
         NEW n, NEW from \in Place, NEW to \in Place, NEW new \in Place,
         AllFit(n, from, to, new)
  PROVE  (SeqsDrawn /\ OnePlace)'
<1>1. ASSUME NEW p \in Place, NEW m, m \in Held(p)'
      PROVE  Fits(p, m, n, from, to, new)
  <2>1. Holdings'
    BY WhatIsHeld, PTL
  <2>2. CASE p = OnWire
    BY <1>1, <2>1, <2>2 DEF AllFit, Holdings
  <2>3. ASSUME NEW g \in Gen, p = InRing(g) PROVE Fits(p, m, n, from, to, new)
    BY <1>1, <2>1, <2>3 DEF AllFit, Holdings
  <2>4. ASSUME NEW g \in Gen, p = Built(g) PROVE Fits(p, m, n, from, to, new)
    BY <1>1, <2>1, <2>4 DEF AllFit, Holdings
  <2>5. ASSUME NEW g \in Gen, p = Taken(g) PROVE Fits(p, m, n, from, to, new)
    BY <1>1, <2>1, <2>5 DEF AllFit, Holdings
  <2>. QED BY <2>2, <2>3, <2>4, <2>5, Places
<1>2. SeqsDrawn'
  BY <1>1 DEF SeqsDrawn, Fits
<1>3. OnePlace'
  <2>. SUFFICES ASSUME NEW p \in Place, NEW q \in Place, NEW m,
                       m \in Held(p)', m \in Held(q)'
                PROVE  p = q
    BY DEF OnePlace
  <2>1. \A r \in Place : \A k \in Held(r) : k # packetSeq
    BY DEF SeqsDrawn
  <2>2. Fits(p, m, n, from, to, new) /\ Fits(q, m, n, from, to, new)
    BY <1>1
  <2>. QED BY <2>1, <2>2 DEF OnePlace, Fits
<1>. QED BY <1>2, <1>3

LEMMA SeqsStep ==
  ASSUME SeqsIInv, [Next]_vars
  PROVE  (SeqsDrawn /\ OnePlace /\ RingsDistinct /\ SeqsUnique)'
<1>. DEFINE Goal == (SeqsDrawn /\ OnePlace /\ RingsDistinct /\ SeqsUnique)'
<1>1. SeqsDrawn /\ OnePlace /\ RingsDistinct /\ Distinct(wire)
  BY DEF SeqsIInv, SeqsUnique, Distinct
<1>2. /\ packetSeq \in Nat /\ wire \in Seq(Nat)
      /\ \A g \in Gen : queue[g] \in Seq(Nat) /\ encSeq[g] \in Nat /\ netBatch[g] \in Nat
      /\ DOMAIN queue = Gen /\ DOMAIN enc = Gen /\ DOMAIN encSeq = Gen
      /\ DOMAIN net = Gen /\ DOMAIN netBatch = Gen
  BY DEF SeqsIInv, TypeOK
\* What is in a place now: a number below packetSeq, and nowhere else.
<1>3. /\ \A n \in Items(wire) : n \in Held(OnWire) /\ n # packetSeq
      /\ \A g \in Gen :
           /\ \A n \in Items(queue[g]) : n \in Held(InRing(g)) /\ n # packetSeq
           /\ enc[g] = "runs" => encSeq[g] \in Held(Built(g)) /\ encSeq[g] # packetSeq
           /\ net[g] \in {"target", "sends"}
                => netBatch[g] \in Held(Taken(g)) /\ netBatch[g] # packetSeq
  <2>1. \A p \in Place : \A n \in Held(p) : n # packetSeq
    BY <1>1, <1>2 DEF SeqsDrawn
  <2>. QED BY <2>1, WhatIsHeld, ArePlaces DEF Holdings
<1>4. ASSUME RingsDistinct', Distinct(wire')
      PROVE  RingsDistinct' /\ SeqsUnique'
  BY <1>4 DEF SeqsUnique, Distinct
<1>. USE DEF callVars, captureVars, targetVars, encVars, netVars, startVars
\* A step that draws no number and moves none.
<1>5. ASSUME UNCHANGED <<packetSeq, wire, queue>>,
             \A g \in Gen : enc'[g] = "runs" => enc[g] = "runs" /\ encSeq'[g] = encSeq[g],
             \A g \in Gen : net'[g] \in {"target", "sends"} =>
                              net[g] \in {"target", "sends"} /\ netBatch'[g] = netBatch[g]
      PROVE  Goal
  <2>1. AllFit(packetSeq, OnWire, OnWire, OnWire)
    BY <1>3, <1>5, ArePlaces DEF AllFit, Fits
  <2>2. (SeqsDrawn /\ OnePlace)'
    BY <1>1, <1>2, <1>5, <2>1, ArePlaces, Moved
  <2>. QED BY <1>1, <1>4, <1>5, <2>2 DEF RingsDistinct
<1>6. ASSUME NEW c \in Caller, Notice(c) PROVE Goal
  <2>1. CASE UNCHANGED <<wire, packetSeq>>
    BY <1>5, <1>6, <2>1 DEF Notice
  <2>2. CASE wire' = Append(wire, packetSeq) /\ packetSeq' = packetSeq + 1
    <3>1. UNCHANGED <<queue, enc, encSeq, net, netBatch>>
      BY <1>6 DEF Notice
    <3>2. Items(wire') = Items(wire) \cup {packetSeq} /\ Distinct(wire')
      BY <1>1, <1>2, <1>3, <2>2, AppendDistinct
    <3>3. AllFit(packetSeq, OnWire, OnWire, OnWire)
      BY <1>3, <2>2, <3>1, <3>2, ArePlaces DEF AllFit, Fits
    <3>4. (SeqsDrawn /\ OnePlace)'
      BY <1>1, <1>2, <2>2, <3>3, ArePlaces, Moved
    <3>. QED BY <1>1, <1>4, <3>1, <3>2, <3>4 DEF RingsDistinct
  <2>. QED BY <1>6, <2>1, <2>2 DEF Notice
<1>7. ASSUME NEW g \in Gen, EncBegin(g) PROVE Goal
  <2>1. /\ UNCHANGED <<wire, queue, net, netBatch>> /\ packetSeq' = packetSeq + 1
        /\ encSeq'[g] = packetSeq
        /\ \A h \in Gen \ {g} : enc'[h] = enc[h] /\ encSeq'[h] = encSeq[h]
    BY <1>2, <1>7 DEF EncBegin
  <2>2. AllFit(packetSeq, OnWire, OnWire, Built(g))
    BY <1>3, <2>1, ArePlaces DEF AllFit, Fits
  <2>3. (SeqsDrawn /\ OnePlace)'
    BY <1>1, <1>2, <2>1, <2>2, ArePlaces, Moved
  <2>. QED BY <1>1, <1>4, <2>1, <2>3 DEF RingsDistinct
<1>8. ASSUME NEW g \in Gen, EncPush(g) PROVE Goal
  <2>. DEFINE r == encRing[g]
  <2>1. r \in Gen /\ enc[g] = "runs"
    <3>1. r # 0 /\ r \in 0..MaxStarts /\ enc[g] = "runs"
      BY <1>8 DEF EncPush, SeqsIInv, RingsKnown, TypeOK, None
    <3>. QED BY <3>1, CaptureAssumption DEF Gen
  <2>2. /\ UNCHANGED <<wire, enc, net, netBatch>> /\ packetSeq' = packetSeq + 1
        /\ queue' = [queue EXCEPT ![r] = Append(queue[r], encSeq[g])]
        /\ encSeq' = [encSeq EXCEPT ![g] = packetSeq]
    BY <1>8 DEF EncPush
  <2>. HIDE DEF r
  <2>3. /\ queue'[r] = Append(queue[r], encSeq[g])
        /\ \A h \in Gen \ {r} : queue'[h] = queue[h]
        /\ encSeq'[g] = packetSeq /\ \A h \in Gen \ {g} : encSeq'[h] = encSeq[h]
    BY <1>2, <2>1, <2>2
  <2>4. encSeq[g] \notin Items(queue[r])
    <3>1. encSeq[g] \in Held(Built(g)) /\ Built(g) # InRing(r)
      BY <1>3, <2>1, ArePlaces
    <3>2. encSeq[g] \in Items(queue[r]) => encSeq[g] \in Held(InRing(r))
      BY <1>3, <2>1
    <3>. QED BY <1>1, <2>1, <3>1, <3>2, ArePlaces DEF OnePlace
  <2>5. Items(queue'[r]) = Items(queue[r]) \cup {encSeq[g]} /\ Distinct(queue'[r])
    BY <1>1, <1>2, <2>1, <2>3, <2>4, AppendDistinct DEF RingsDistinct
  <2>6. AllFit(encSeq[g], Built(g), InRing(r), Built(g))
    BY <1>3, <2>1, <2>2, <2>3, <2>5, ArePlaces DEF AllFit, Fits
  <2>7. (SeqsDrawn /\ OnePlace)'
    BY <1>1, <1>2, <2>1, <2>2, <2>6, ArePlaces, Moved
  <2>. QED BY <1>1, <1>4, <2>2, <2>3, <2>5, <2>7 DEF RingsDistinct
<1>9. ASSUME NEW g \in Gen, NetPop(g) PROVE Goal
  <2>. DEFINE r == netRing[g]
  <2>0. r \in Gen /\ net[g] = "polls"
    <3>1. r # 0 /\ r \in 0..MaxStarts /\ net[g] = "polls"
      BY <1>9 DEF NetPop, SeqsIInv, RingsKnown, NetAlive, TypeOK, None
    <3>. QED BY <3>1, CaptureAssumption DEF Gen
  <2>1. CASE queue[r] = <<>>
    <3>1. /\ UNCHANGED <<packetSeq, wire, queue, enc, encSeq, netBatch>>
          /\ net' = [net EXCEPT ![g] = "loop"]
      BY <1>9, <2>1 DEF NetPop
    <3>. QED BY <1>2, <1>5, <3>1
  <2>2. CASE queue[r] # <<>>
    <3>. DEFINE n == Head(queue[r])
    <3>1. /\ UNCHANGED <<packetSeq, wire, enc, encSeq>>
          /\ netBatch' = [netBatch EXCEPT ![g] = n]
          /\ queue' = [queue EXCEPT ![r] = Tail(queue[r])]
          /\ \A h \in Gen \ {g} : net'[h] = net[h]
      BY <1>2, <1>9, <2>2 DEF NetPop
    <3>2. /\ n \in Items(queue[r]) /\ Items(Tail(queue[r])) \subseteq Items(queue[r])
          /\ Distinct(Tail(queue[r])) /\ n \notin Items(Tail(queue[r]))
      BY <1>1, <1>2, <2>0, <2>2, TailDistinct DEF RingsDistinct
    <3>. HIDE DEF r, n
    <3>3. /\ queue'[r] = Tail(queue[r]) /\ \A h \in Gen \ {r} : queue'[h] = queue[h]
          /\ netBatch'[g] = n /\ \A h \in Gen \ {g} : netBatch'[h] = netBatch[h]
      BY <1>2, <2>0, <3>1
    <3>4. AllFit(n, InRing(r), Taken(g), OnWire)
      BY <1>3, <2>0, <3>1, <3>2, <3>3, ArePlaces DEF AllFit, Fits
    <3>5. (SeqsDrawn /\ OnePlace)'
      BY <1>1, <1>2, <2>0, <3>1, <3>4, ArePlaces, Moved
    <3>6. RingsDistinct'
      BY <1>1, <2>0, <3>2, <3>3 DEF RingsDistinct
    <3>. QED BY <1>1, <1>4, <3>1, <3>5, <3>6
  <2>. QED BY <2>1, <2>2
<1>10. ASSUME NEW g \in Gen, NetSend(g) PROVE Goal
  <2>1. /\ UNCHANGED <<packetSeq, queue, enc, encSeq>>
        /\ net[g] = "sends" /\ net' = [net EXCEPT ![g] = "loop"]
        /\ \A h \in Gen \ {g} : netBatch'[h] = netBatch[h]
        /\ wire' = wire \/ wire' = Append(wire, netBatch[g])
    BY <1>2, <1>10 DEF NetSend
  <2>2. CASE wire' = wire
    BY <1>2, <1>5, <2>1, <2>2
  <2>3. CASE wire' = Append(wire, netBatch[g])
    <3>1. netBatch[g] \in Held(Taken(g))
      BY <1>3, <2>1
    <3>2. netBatch[g] \notin Items(wire)
      BY <1>1, <1>3, <3>1, ArePlaces DEF OnePlace
    <3>3. Items(wire') = Items(wire) \cup {netBatch[g]} /\ Distinct(wire')
      BY <1>1, <1>2, <2>3, <3>2, AppendDistinct
    <3>4. net'[g] = "loop" /\ \A h \in Gen \ {g} : net'[h] = net[h]
      BY <1>2, <2>1
    <3>5. AllFit(netBatch[g], Taken(g), OnWire, OnWire)
      BY <1>3, <2>1, <3>1, <3>3, <3>4, ArePlaces DEF AllFit, Fits
    <3>6. (SeqsDrawn /\ OnePlace)'
      BY <1>1, <1>2, <2>1, <3>5, ArePlaces, Moved
    <3>. QED BY <1>1, <1>4, <2>1, <3>3, <3>6 DEF RingsDistinct
  <2>. QED BY <2>1, <2>2, <2>3
\* The other steps give no number a place.
<1>11. ASSUME NEW c \in Caller, StreamerRun(c) PROVE Goal
  <2>1. /\ UNCHANGED <<packetSeq, wire, queue, encSeq, netBatch>>
        /\ \E e, n \in {"created", "refused"} :
             /\ enc' = [enc EXCEPT ![mine[c]] = e]
             /\ net' = [net EXCEPT ![mine[c]] = n]
    BY <1>11 DEF StreamerRun
  <2>. QED BY <1>2, <1>5, <2>1
<1>12. ASSUME NEW g \in Gen, EncEnd(g) PROVE Goal
  <2>1. /\ UNCHANGED <<packetSeq, wire, queue, net, netBatch>>
        /\ enc' = [enc EXCEPT ![g] = "ended"]
        /\ \A h \in Gen \ {g} : encSeq'[h] = encSeq[h]
    BY <1>2, <1>12 DEF EncEnd
  <2>. QED BY <1>2, <1>5, <2>1
<1>13. ASSUME NEW g \in Gen, NetBegin(g) \/ NetLoop(g) \/ NetResolve(g) PROVE Goal
  <2>1. /\ UNCHANGED <<packetSeq, wire, queue, enc, encSeq>>
        /\ \A h \in Gen : net'[h] \in {"target", "sends"} =>
                            net[h] \in {"target", "sends"} /\ netBatch'[h] = netBatch[h]
    BY <1>2, <1>13 DEF NetBegin, NetLoop, NetResolve
  <2>. QED BY <1>5, <2>1
<1>14. ASSUME NEW c \in Caller,
              \/ Call(c) \/ StreamerOpen(c) \/ CsiStart(c) \/ PingStart(c)
              \/ PingStop(c) \/ CsiStop(c) \/ Halt(c) \/ Close(c)
       PROVE  UNCHANGED <<packetSeq, wire, queue, enc, encSeq, net, netBatch>>
  BY <1>14 DEF Call, CallStart, CallStop, StreamerOpen, CsiStart, PingStart,
               PingStop, CsiStop, Halt, Close
<1>15. CASE UNCHANGED <<packetSeq, wire, queue, enc, encSeq, net, netBatch>>
  BY <1>5, <1>15
<1>16. CASE UNCHANGED vars
  BY <1>15, <1>16 DEF vars
<1>. QED
  BY <1>6, <1>7, <1>8, <1>9, <1>10, <1>11, <1>12, <1>13, <1>14, <1>15, <1>16
  DEF Next, Hook, Encoder, Network

\* However hooks and tasks overlap, no two datagrams of a boot carry the same
\* packetSeq (NetworkStreamer's encode task, sendMaintenanceNotice).
THEOREM PacketSeqsUnique == Spec => []SeqsUnique
<1>1. Init => SeqsIInv
  <2>. SUFFICES ASSUME Init PROVE SeqsIInv
    OBVIOUS
  <2>1. \A p \in Place : Held(p) = {}
    <3>. SUFFICES ASSUME NEW p \in Place PROVE Held(p) = {}
      OBVIOUS
    <3>1. Items(wire) = {} /\ \A g \in Gen : Items(queue[g]) = {}
      BY DEF Init, Items
    <3>2. \A g \in Gen : enc[g] # "runs" /\ net[g] \notin {"target", "sends"}
      BY DEF Init
    <3>. QED BY <3>1, <3>2, WhatIsHeld, Places DEF Holdings
  <2>2. SeqsDrawn /\ OnePlace
    BY <2>1 DEF SeqsDrawn, OnePlace
  <2>3. RingsDistinct /\ SeqsUnique
    BY DEF Init, RingsDistinct, SeqsUnique, Distinct
  <2>. QED BY <2>2, <2>3, CaptureInit DEF SeqsIInv
<1>2. SeqsIInv /\ [Next]_vars => SeqsIInv'
  BY CaptureTypeStep, RingsStep, SeqsStep DEF SeqsIInv
<1>3. SeqsIInv => SeqsUnique
  BY DEF SeqsIInv
<1>. QED BY <1>1, <1>2, <1>3, PTL DEF Spec
=============================================================================
