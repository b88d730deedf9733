--------------------------- MODULE CaptureSession ---------------------------
(***************************************************************************)
(* One experiment: the runner (tools/experiments) starts a collector       *)
(* process (tools/collector), which starts the receiver's capture over     *)
(* HTTP, records what arrives and, on a signal, stops the capture, closes  *)
(* the recording and exits; the runner then finalises the session file.    *)
(* Ctrl-C reaches both processes; either may crash.                        *)
(*                                                                         *)
(* Abstracted: datagrams are counted, and all carry frames; the files are  *)
(* what readers tell apart: the datagrams on disk and the complete marks.  *)
(* npx, between the two processes, passes signals and exit codes on.       *)
(***************************************************************************)
EXTENDS Naturals

CONSTANTS MaxDatagrams,   \* bound on the datagrams received
          MaxSignals      \* bound on the operator's Ctrl-C

ASSUME SessionAssumption == MaxDatagrams \in Nat /\ MaxSignals \in Nat

VARIABLES
  runner,                \* progress of startExperiment
  stopped,               \* the runner has stopped the collector
  signals,               \* Ctrl-C so far
  collector, pending,    \* progress of the collector; a signal on its way
  stopping,              \* the collector's shutdown has begun
  exitCode,
  device,                \* the receiver captures
  socket,                \* the collector's socket is open
  open,                  \* the recording's streams are open
  valid,                 \* datagrams the tracker counted
  bin, jsonl,            \* datagrams in the two files, on disk
  meta, metaFrames,      \* the recording's mark, and the frames it reports
  session,               \* the session file's mark
  started,               \* history: the collector made the receiver capture
  threw                  \* history: a datagram met a closed recording

sessionVars == <<runner, stopped, signals, collector, pending, stopping, exitCode,
          device, socket, open, valid, bin, jsonl, meta, metaFrames, session,
          started, threw>>

RunnerStates == {"setup", "waits", "counts", "done", "failed", "crashed"}
CollectorStates == {"none", "open", "bind", "startCapture", "records",
                    "stopCapture", "closeSocket", "endStreams", "flush",
                    "exits", "gone"}

SessionFlags ==
  /\ stopped \in BOOLEAN /\ pending \in BOOLEAN /\ stopping \in BOOLEAN
  /\ device \in BOOLEAN /\ socket \in BOOLEAN /\ open \in BOOLEAN
  /\ started \in BOOLEAN /\ threw \in BOOLEAN

SessionTypeOK ==
  /\ SessionFlags
  /\ runner \in RunnerStates /\ collector \in CollectorStates
  /\ signals \in 0..MaxSignals
  /\ exitCode \in {"none", "zero", "one", "killed"}
  /\ valid \in 0..MaxDatagrams
  /\ bin \in 0..MaxDatagrams /\ jsonl \in 0..MaxDatagrams
  /\ meta \in {"none", "incomplete", "torn", "complete"}
  /\ metaFrames \in 0..MaxDatagrams
  /\ session \in {"none", "incomplete", "torn", "complete"}

SessionInit ==
  /\ runner = "setup" /\ collector = "none"
  /\ stopped = FALSE /\ pending = FALSE /\ stopping = FALSE
  /\ signals = 0 /\ exitCode = "none"
  /\ device \in BOOLEAN /\ socket = FALSE /\ open = FALSE
  /\ valid = 0 /\ bin = 0 /\ jsonl = 0
  /\ meta = "none" /\ metaFrames = 0 /\ session = "none"
  /\ started = FALSE /\ threw = FALSE

fileVars == <<bin, jsonl, meta, metaFrames>>
deviceVars == <<device, started>>
runnerVars == <<runner, stopped, signals, session>>
collectorVars == <<collector, stopping, exitCode, socket, open, valid, threw>>

-----------------------------------------------------------------------------
(* The runner.                                                             *)

\* The session file is on disk, incomplete, before the collector is spawned.
Spawn ==
  /\ runner = "setup"
  /\ session' = "incomplete"
  /\ runner' = "waits" /\ collector' = "open"
  /\ UNCHANGED <<stopped, signals, pending, stopping, exitCode, socket, open,
                 valid, threw, deviceVars, fileVars>>

\* stop(): once, by the timer or a signal.
StopCollector ==
  /\ runner = "waits" /\ ~stopped
  /\ stopped' = TRUE
  /\ pending' = (pending \/ collector # "gone")
  /\ UNCHANGED <<runner, signals, session, collectorVars, deviceVars,
                 fileVars>>

ChildExit ==
  /\ runner = "waits" /\ collector = "gone"
  /\ runner' = "counts"
  /\ UNCHANGED <<stopped, signals, session, pending, collectorVars,
                 deviceVars, fileVars>>

\* readCollectorCounts: no counts from a file that does not parse.
Counts == IF meta = "torn" THEN 0 ELSE metaFrames

\* Mutant: the exit code alone decides.
FinishWithoutFrames ==
  /\ runner = "counts"
  /\ IF exitCode = "zero"
     THEN session' = "complete" /\ runner' = "done"
     ELSE session' = "incomplete" /\ runner' = "failed"
  /\ UNCHANGED <<stopped, signals, pending, collectorVars, deviceVars,
                 fileVars>>

Finish ==
  /\ runner = "counts"
  /\ IF exitCode = "zero" /\ Counts > 0
     THEN session' = "complete" /\ runner' = "done"
     ELSE session' = "incomplete" /\ runner' = "failed"
  /\ UNCHANGED <<stopped, signals, pending, collectorVars, deviceVars,
                 fileVars>>

\* Ctrl-C reaches the process group.  The runner handles it while it waits,
\* and otherwise it, too, is at the signal's mercy.
CtrlC ==
  /\ signals < MaxSignals
  /\ runner \in {"waits", "counts"}
  /\ signals' = signals + 1
  /\ IF runner = "waits" THEN stopped' = TRUE /\ UNCHANGED runner
                         ELSE runner' = "crashed" /\ UNCHANGED stopped
  /\ pending' = (pending \/ collector # "gone")
  /\ UNCHANGED <<session, collectorVars, deviceVars, fileVars>>

RunnerCrash ==
  /\ runner \in {"waits", "counts"}
  /\ runner' = "crashed"
  /\ session' \in IF runner = "counts" THEN {session, "torn"} ELSE {session}
  /\ UNCHANGED <<stopped, signals, pending, collectorVars, deviceVars,
                 fileVars>>

-----------------------------------------------------------------------------
(* The collector.                                                          *)

CollectorAt(label) == collector = label
CollectorGoes(label) == collector' = label
Die(code) == /\ collector' = "gone" /\ exitCode' = code
             /\ socket' = FALSE /\ open' = FALSE

\* RecordingWriter::open: both streams, and a mark that says incomplete.
OpenRecording ==
  /\ CollectorAt("open")
  /\ open' = TRUE
  /\ meta' = "incomplete"
  /\ CollectorGoes("bind")
  /\ UNCHANGED <<runnerVars, pending, stopping, exitCode, socket, valid,
                 threw, deviceVars, bin, jsonl, metaFrames>>

Bind ==
  /\ CollectorAt("bind")
  /\ \/ socket' = TRUE /\ CollectorGoes("startCapture") /\ UNCHANGED <<exitCode, open>>
     \/ Die("one")
  /\ UNCHANGED <<runnerVars, pending, stopping, valid, threw, deviceVars,
                 fileVars>>

\* The receiver acts on deviceApi.startCapture.
CaptureStarts ==
  /\ CollectorAt("startCapture")
  /\ device' = TRUE /\ started' = TRUE
  /\ UNCHANGED <<runnerVars, pending, collectorVars, fileVars>>

\* Its answer, whether the receiver acted or refused, or the error when none
\* came, which is fatal; a refusal is only a warning.  The signal handlers are
\* installed after it.
StartCapture ==
  /\ CollectorAt("startCapture")
  /\ \/ CollectorGoes("records") /\ UNCHANGED <<exitCode, socket, open>>
     \/ Die("one")
  /\ UNCHANGED <<runnerVars, pending, stopping, valid, threw, deviceVars,
                 fileVars>>

\* Before the handlers are installed a signal kills the collector.
Killed ==
  /\ pending /\ collector \in {"open", "bind", "startCapture"}
  /\ pending' = FALSE
  /\ Die("killed")
  /\ UNCHANGED <<runnerVars, stopping, valid, threw, deviceVars, fileVars>>

\* The signal handler: the first signal starts the shutdown.
Shutdown ==
  /\ pending
  /\ collector \in {"records", "stopCapture", "closeSocket", "endStreams",
                    "flush", "exits"}
  /\ pending' = FALSE
  /\ stopping' = TRUE
  /\ IF stopping THEN UNCHANGED collector ELSE CollectorGoes("stopCapture")
  /\ UNCHANGED <<runnerVars, exitCode, socket, open, valid, threw, deviceVars,
                 fileVars>>

\* Mutant: the stop request never times out.
StopCaptureNoTimeout ==
  /\ CollectorAt("stopCapture") /\ device
  /\ device' = FALSE
  /\ CollectorGoes("closeSocket")
  /\ UNCHANGED <<runnerVars, pending, stopping, exitCode, socket, open, valid,
                 threw, started, fileVars>>

\* deviceApi.stopCapture: an error is logged and the shutdown goes on.
StopCapture ==
  /\ CollectorAt("stopCapture")
  /\ device' \in {device, FALSE}
  /\ CollectorGoes("closeSocket")
  /\ UNCHANGED <<runnerVars, pending, stopping, exitCode, socket, open, valid,
                 threw, started, fileVars>>

CloseSocket ==
  /\ CollectorAt("closeSocket")
  /\ socket' = FALSE
  /\ CollectorGoes("endStreams")
  /\ UNCHANGED <<runnerVars, pending, stopping, exitCode, open, valid, threw,
                 deviceVars, fileVars>>

\* Mutant: the streams are not awaited before the mark.
MarkFirst ==
  /\ CollectorAt("endStreams")
  /\ open' = FALSE
  /\ CollectorGoes("flush")
  /\ UNCHANGED <<runnerVars, pending, stopping, exitCode, socket, valid,
                 threw, deviceVars, fileVars>>

\* RecordingWriter::close: both streams reach the disk, or the error is fatal.
EndStreams ==
  /\ CollectorAt("endStreams")
  /\ \/ /\ bin' = valid /\ jsonl' = valid
        /\ open' = FALSE
        /\ CollectorGoes("flush")
        /\ UNCHANGED <<exitCode, socket>>
     \/ /\ Die("one")
        /\ UNCHANGED <<bin, jsonl>>
  /\ UNCHANGED <<runnerVars, pending, stopping, valid, threw, deviceVars,
                 meta, metaFrames>>

FlushMeta ==
  /\ CollectorAt("flush")
  /\ meta' = "complete" /\ metaFrames' = valid
  /\ CollectorGoes("exits")
  /\ UNCHANGED <<runnerVars, pending, stopping, exitCode, socket, open, valid,
                 threw, deviceVars, bin, jsonl>>

Exit ==
  /\ CollectorAt("exits")
  /\ Die("zero")
  /\ UNCHANGED <<runnerVars, pending, stopping, valid, threw, deviceVars,
                 fileVars>>

\* onMessage: counted, and written to both streams.
Receive ==
  /\ socket /\ valid < MaxDatagrams
  /\ valid' = valid + 1
  /\ threw' = (threw \/ ~open)
  /\ UNCHANGED <<runnerVars, pending, collector, stopping, exitCode, socket,
                 open, deviceVars, fileVars>>

\* The two streams reach the disk independently of each other.
WriteBack ==
  /\ open
  /\ \/ bin < valid /\ bin' = bin + 1 /\ UNCHANGED jsonl
     \/ jsonl < valid /\ jsonl' = jsonl + 1 /\ UNCHANGED bin
  /\ UNCHANGED <<runnerVars, pending, collectorVars, deviceVars, meta,
                 metaFrames>>

\* A crash, which may cut the writing of the metadata short.
Crash ==
  /\ collector \notin {"none", "gone"}
  /\ Die("killed")
  /\ meta' \in IF collector \in {"open", "flush"} THEN {meta, "torn"} ELSE {meta}
  /\ UNCHANGED <<runnerVars, pending, stopping, valid, threw, deviceVars,
                 bin, jsonl, metaFrames>>

Runner == Spawn \/ ChildExit \/ Finish
Collector == \/ OpenRecording \/ Bind \/ StartCapture \/ Shutdown \/ StopCapture
             \/ CloseSocket \/ EndStreams \/ FlushMeta \/ Exit

SessionNext ==
  \/ Runner \/ StopCollector \/ CtrlC \/ RunnerCrash
  \/ CaptureStarts \/ Collector \/ Killed \/ Receive \/ WriteBack \/ Crash

SessionSpec == SessionInit /\ [][SessionNext]_sessionVars

\* Both event loops run, the timer fires, and a pending signal is delivered.
SessionFairness ==
  /\ WF_sessionVars(Runner) /\ WF_sessionVars(StopCollector)
  /\ WF_sessionVars(Collector) /\ WF_sessionVars(Killed)

SessionFairSpec == SessionSpec /\ SessionFairness

-----------------------------------------------------------------------------
(* Properties.                                                             *)

\* A recording marked complete holds, in both files, every datagram the
\* statistics speak of, and nothing arrives for it any more, whatever crashed
\* meanwhile (cli.ts: "A crash leaves complete=false so the data is flagged");
\* and no datagram ever met a recording that was closed: write would throw
\* in the socket's handler and end the process.
RecordingWhole ==
  /\ ~threw
  /\ meta = "complete" => /\ bin = valid /\ jsonl = valid /\ metaFrames = valid
                          /\ ~socket /\ ~open

\* A session marked complete belongs to a recording marked complete, with
\* frames (docs/experiment-protocol.md: "remains false until the collector
\* exits cleanly and records at least one frame"); and an exit code of zero,
\* which the runner goes by, means that the recording was closed, however
\* many signals arrived during the shutdown.
SessionTrustworthy ==
  /\ session = "complete" => meta = "complete" /\ bin > 0
  /\ exitCode = "zero" => meta = "complete"

\* Once the collector is told to stop, the session is finalised, unless the
\* runner itself is killed.
SessionEnds == stopped ~> runner \in {"done", "failed", "crashed"}

\* A complete recording brackets its capture session: the receiver the
\* collector started has been stopped (cli.ts: "a recording brackets exactly
\* one capture session").
BracketsCapture == meta = "complete" /\ started => ~device

\* A stop without a crash closes the recording (cli.ts: "Ctrl-C closes the
\* recording cleanly (complete=true)").
CtrlCClosesCleanly ==
  [][pending /\ ~pending' /\ collector' = "gone" => meta' = "complete"]_sessionVars

-----------------------------------------------------------------------------
(* The inductive invariant.                                                *)

\* What is open, by the collector's progress.
OpenInOrder ==
  /\ open <=> collector \in {"bind", "startCapture", "records", "stopCapture",
                             "closeSocket", "endStreams"}
  /\ socket => open /\ collector \in {"startCapture", "records", "stopCapture",
                                      "closeSocket"}
  /\ collector \in {"stopCapture", "closeSocket", "endStreams", "flush", "exits"}
       => stopping
  /\ runner = "setup" => collector = "none"

\* What is on disk, and when all of it is.
FilesFollow ==
  /\ bin <= valid /\ jsonl <= valid
  /\ collector = "flush" => bin = valid /\ jsonl = valid

\* What each mark is worth.
MarksEarned ==
  /\ ~threw
  /\ meta = "complete" => /\ collector \in {"exits", "gone"}
                          /\ bin = valid /\ jsonl = valid /\ metaFrames = valid
  /\ collector = "exits" => meta = "complete"
  /\ exitCode = "zero" => collector = "gone" /\ meta = "complete"
  /\ session = "complete" => collector = "gone" /\ meta = "complete" /\ bin > 0

SessionIInv == SessionTypeOK /\ OpenInOrder /\ FilesFollow /\ MarksEarned
=============================================================================
