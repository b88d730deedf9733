# esp-rf-sense in TLA+

TLA+ modules of the rf-sense system, the TLC configurations that model-check
them on small instances, and theorems about them whose proofs TLAPS checks.
Paths are relative to the repository; line numbers are those of the commit the
models were written from.

## 1. The system

rf-sense turns ESP32 receivers into Wi-Fi channel-state (CSI) sensors. Receivers
stream CSI over UDP; tools on the LAN collect, record, deploy and experiment; a
dashboard fuses four receivers into presence and position estimates; a Python
package analyses recordings offline and live.

### 1.1 Receiver firmware (`firmware/`)

| Component | State | Operations | Interacts with |
|---|---|---|---|
| Frame queue (`frame_pipeline`) | slot pool, head, tail, drop counter, counting semaphore | push from the CSI callback, pop/release by the encode task, drain | CSI callback, encode task, OTA maintenance |
| Streamer (`network_stream`) | running flag, socket, batch ring, packet sequence, resolved target | start, stop, encode task, network task, maintenance notice | frame queue, capture hooks, OTA |
| Capture (`csi_capture`, `ping_source`, hooks in `main/app_main.cpp`) | active flags, frame sequence, ping session | start, stop, CSI callback | control API, supervisor, OTA |
| OTA (`ota_manager`: `OtaManager`, `BootGuard`) | state, single-flight flag, offered manifest, NVS counters, otadata | check, apply, begin, confirm, roll back | supervisor, control API, bootloader |
| Manifest policy (`OtaManifest`, `OtaManifestJson`) | none (pure) | parse, validate | OTA, OTA server |
| Configuration (`config_store`, `provisioning`) | cached configuration, NVS blob | load, save, clear, encode/decode, validate | control API, provisioning portal |
| Wi-Fi (`wifi_manager`) | connected flag, attempt count, backoff | connect, event handlers, wait | supervisor, OTA health |
| Control API (`control_api`) | none of its own | HTTP handlers | every component |
| Device log (`device_logs`) | ring of 96 lines, next sequence number | append, read since | control API |
| Protocol (`protocol`) | builder buffer and frame count | begin, canFit, addFrame, finalize, parse | streamer, collector |
| Identify LED, mDNS, health counters, build info | display or bookkeeping only | - | - |

The hard behaviours are concurrency on two cores (the CSI callback, five tasks
and the HTTP server share queues, flags and sockets), resets and power loss at
any instruction of an update, bounded queues that overflow by design, and
operations that stop, drain and restart each other.

### 1.2 LAN tools (`tools/`)

| Component | State | Operations | Interacts with |
|---|---|---|---|
| Collector (`collector`) | UDP socket, per-device stream tracker, recording segment | datagram, snapshot, rotate, shutdown | receivers (UDP), recordings on disk |
| Stream tracker (`collector/src/stats.ts`) | per-device baselines and loss counters | record, snapshot | collector |
| Experiment runner (`experiments`) | run phases | prepare, record, restore | device HTTP API, collector |
| OTA server (`ota-server`), deployment (`.github/workflows/deploy-ota.yml`) | firmware directory, manifest | upload, switch the manifest, validate, serve | receivers |
| USB console (`usb-mcp`) | ring of serial output, cursors, waiters | append, read, wait, trim, reconnect | serial port, clients |
| CLI, launcher, hardware scripts, flashing | none of their own | one-shot commands, several at a time | device HTTP API, USB |

### 1.3 Dashboard (`apps/dashboard/`)

| Component | State | Operations | Interacts with |
|---|---|---|---|
| Joint packet aligner (`joint-packet-aligner.ts`) | pending observations per transmitter packet | add, expire, finalise, bound | receivers' packets, position engine |
| Live position runtime (`live-xy-runtime.ts`) | aligner, engine, position timeline | accept datagram | web server |
| Multi-node engine (`multi-node-engine.ts`, `node-engine.ts`, `engine.ts`) | slots, per-node sequence tracking, feature windows, activity | accept, snapshot, fuse | web server |
| Activity classifier (`activity.ts`) | empty-room baseline, votes | evaluate, reset | node engines |
| Recorder (`dashboard-recorder.ts`) | open segment, streams, counters | start, write, stop, flush metadata | web server, disk |
| Web server (`multi-node-web-server.ts`) | SSE clients, active model, training state | HTTP handlers, publish | every part of the dashboard |
| Calibration (`bar-calibration-algorithm.ts`, `room-setup-state.ts`) | capture sessions, gates | transition, quality, recapture | browser |
| Training (`dashboard-model-trainer.ts`, `prototype-training.ts`, `continuous-xy-*.ts`) | none (pure) | fit, score | web server |
| Single-link server (`web-server.ts`) | polled device state, log lines read, SSE clients | poll, control, publish | device HTTP API, browser |
| Browser code (`public/`) | latest snapshot, held zone, slots, copies of the recording, room set-up, wizard | event streams, fetches, clicks | both web servers |

### 1.4 Offline analysis (`tools/analysis/`)

The Python package decodes recordings, computes features, trains and evaluates
models, and follows a growing recording live (`live.py`: a bounded buffer per
device, an interactive trainer, a follower and an inference loop sharing it).

### 1.5 How the parts interact

- **CSI callback → encode task → network task.** The Wi-Fi task calls `onCsi`,
  which copies the frame into a slot pool (frame queue); the encode task packs
  frames into datagrams and pushes them into a batch ring; the network task
  sends them. Each hand-over is a ring plus a counting semaphore, and the two
  are never changed together.
- **HTTP server, supervisor, updating task → hooks.** All three call the capture
  hooks and the OTA manager directly; there is no command queue between them.
  What they share is protected by single flags (`busy_`, `running_`) that are
  tested and set in different places.
- **OTA manager → flash → bootloader → BootGuard.** These communicate only
  through what survives a reset: slot contents, otadata, NVS counters.
- **Receiver → collector → runner.** UDP datagrams one way, HTTP requests the
  other; runner and collector are two processes joined by signals, exit codes
  and the recording's metadata file.
- **Server → pages.** Snapshots and statuses go out over an event stream that
  breaks and reconnects; fetches and replies to clicks arrive in between. Each
  script of a page keeps its own copy.
- **Tools → receivers.** Flasher, launcher, CLI and scripts write the same saved
  configuration; it takes effect at a restart that is carried out later.
- **Receivers → dashboard.** Every datagram is one synchronous call into the
  aligner and the engine; the recorder and the web server work between awaits of
  the same event loop.

### 1.6 What makes each part correct

| Component | Correct means |
|---|---|
| OTA manager, BootGuard | there is always a proven image to boot and to fall back to; an operation excludes the others and always ends; the counters balance |
| Frame queue, batch ring | nothing is lost uncounted, duplicated or reordered; a wake-up and an item always pair up; what is queued moves on |
| Capture, streamer | one encode task, one meaning of "active" in all parts, no `packetSeq` used twice, stopped means stopped |
| Stream tracker | loss is neither invented nor missed, a reboot is no loss |
| Collector, runner | what is marked complete is complete; a session told to stop ends |
| Aligner, live position | only observations that belong together are fused; every fused packet is used |
| Recorder | a complete recording is whole and described by its own metadata |
| Configuration, provisioning | RAM, flash and what is in effect agree after any sequence of saves, resets and power cuts |
| USB console, device log | a reader with a cursor sees every line once or is told what it missed |
| Multi-node engine, activity | a node's sequence, readiness and baseline are those of its current boot; polling teaches nothing; the order of the nodes decides nothing |
| Datagram format, recording files | what is read back is what was captured, and nothing else |
| Model activation | what the server says is active is what runs |
| Browser code | a page comes to show what the server does; a letter means one receiver; a step that is counted was recorded |
| Deployment | the manifest names an image that is there |

The hard behaviours, at the lines where they bite, are the hazards of
`PROJECT.json`.

## 2. Plan

Everything of the plan exists. The order is that of importance: what can leave a
receiver dead, then what can spoil data, then what can mislead a user.

| Order | Module | Models | Abstract specification |
|---|---|---|---|
| 1 | `OtaLifecycle` | update, verification, rollback under resets | `RollbackGuarantee` |
| 2 | `FrameQueue` | CSI callback, encode task, drain | `LossyFifo` |
| 3 | `BatchStream` | encode task, batch ring, network task | `DropOldestQueue` |
| 4 | `CaptureLifecycle` | hooks, capture, ping source, streamer start/stop | - |
| 5 | `StreamTracker` | the collector's accounting over a bad network | - |
| 6 | `CaptureSession` | runner, collector, recording, signals | - |
| 7 | `Datagram` | builder, parsers, recording files, readers | a sequence of what was sent |
| 8 | `JointXY` | aligner and live position runtime | - |
| 9 | `MultiNodeEngine`, `PositionFusion` | reboots, sequences, windows, baseline, readiness; fusion | - |
| 10 | `DashboardRecorder` | asynchronous start and stop | - |
| 11 | `DashboardServer` | training, loading and activating models; readiness | - |
| 12 | `LivePage`, `ReceiverSlots`, `PageViews`, `Guidance`, `CalibrationWizard` | what a dashboard page shows and does | - |
| 13 | `DeviceMonitor` | single-link dashboard, polling and device log | - |
| 14 | `ReceiverSetup`, `OtaPublish`, `UsbConsole` | the tools beside the receivers | - |

The `MC...` modules compose independent parts by a variable `part`: a behaviour is
of one of them, so that one TLC run covers a whole side of the system and its
state space is the sum, not the product, of the parts'. Each part's `Init`,
next-state relation and fairness are those of its own module.

Each module has named assumptions about its constants, one action per operation and
properties that are conjunctions of named parts. No module declares a RECURSIVE
operator: the readers of a datagram and of a file, which the code writes as loops, are
recursive functions, and what a filter keeps is counted by ranks (`Ranks`). Proved: an
inductive invariant of every module of the plan except `PageViews`, of which the run
checks liveness; every safety invariant and action property the passing runs check; and
three refinements (section 6).

## 3. The modules and the code

Common conventions. A task, request or process has a program counter (`pc`,
`enc`, `net`, `runner`, `call`, ...), and an action is what it does between two
points at which another can intervene: an access to shared memory for tasks on
two cores, an await for JavaScript. Ghost variables (named as such in the modules)
never guard a step. Definitions headed "Mutant" are plausible bugs; no
specification uses them, they exist so that each property can be seen to fail.

### Receiver

**OtaLifecycle** (`OtaManager.cpp`, `BootGuard.cpp`, the supervisor and the OTA
handlers). Flash is `image`, `entry` and `newest`, with the bootloader's own
rules taken from how the firmware relies on them
(`CONFIG_BOOTLOADER_APP_ROLLBACK_ENABLE`); NVS is `failedBoots` and the three OTA
counters. `Bootloader` and `BootGuardBegin` are a boot; `VerifyTick`, `Confirm`,
`RollbackNow`, `MarkFails` are `confirmPostOtaHealth`; `StartCheck`,
`CheckFails`, `CheckSucceeds` are `check()`, one action per outcome; `StartApply`
to `Restart` are `apply()`, cut where flash or a counter changes, with
`ApplyFails` in each failing return. `Confirm` marks the image valid and
`ClearBoots` clears the boot counter after it, two writes a power cut can part.
A receiver without a configuration leaves `BootGuardBegin` for the set-up portal
and verifies nothing: an image on trial stays undecided until the next restart,
when the bootloader rolls it back. `Reset` may happen at every step and
clears RAM. `NoteBusy` is the refused caller's `setMessage(state_, ...)`: the read
and the store are two steps. Versions abstract images; an image that is
erased, half written or has the wrong digest is `Partial`.

**FrameQueue** (`FrameRing.h`, `FrameQueue.cpp`, `onCsi`, `encodeTask`,
`otaMaintenance`). Every access to head, tail, a slot or the semaphore is an
action, with counters modulo `Modulus`. A slot being copied holds `Torn`. `Claim`,
`Publish`, `Signal` are `pushFromCapture`; `Take`, `Peek`, `EncodeFrame`, `LoadTail`,
`StoreTail` are the encode task's `popReady` and `release`; `Drain*` are `drain`
from the updating task.

**BatchStream** (`NetworkStreamer.cpp`: `BatchRing`, `encodeTask`,
`networkTask`). A critical section of `push` or `pop` is one action; the token is
taken before and given after it, in actions of their own. `DnsChange` is the
environment. A datagram is its `packetSeq`.

**CaptureLifecycle** (`app_main.cpp` hooks, `CsiCapture.cpp`, `PingSource.cpp`,
`NetworkStreamer::start/stop/notifyMaintenance`). Each caller runs a hook as a sequence
of actions, one per call into a component; each start creates a generation of tasks, a
socket and a ring, and any of them can fail: a start without a socket gives up, but what
`xTaskCreate` returns is ignored, so `StreamerRun` raises the flag and either task may
be `"refused"`. Callers overlap freely. The ghost `raced` notes that a start went in
while another caller was between the test of `running_` and its setting, or in the 100
ms of a stop. A stop waits these 100 ms without joining; the encode task polls every 20
ms and is taken to be gone by then, the network task may be inside a name resolution and
is not.

### From the network to disk

**Datagram** (`Protocol.cpp`, the collector's and the dashboard's `protocol.ts`,
`protocol-v2.ts`, the recorders' writes and the trainers' readers). Bytes are
scaled to words, each a number or a CRC; the CRC is ideal: it is what it covers, and
matches nothing else. `OfferFrame` and
`FlushIdle` are a turn of the encode task over one scratch buffer that is never
cleared; `Damage`, `Lose` and the repetition in `Receive` are the network;
`ParseDatagram` is the parsers' order of checks, with the loop over the frames as
`FrameStarts`. `TrainerReads`, over the cuts `RecordEnds` finds in the file, and
`DatasetReads` are the readers of `.bin` and `.jsonl`.

**StreamTracker** (`stats.ts`). `Deliver` is `record` for a valid datagram,
`DeliverCorrupt` for an invalid one; `Transmit`, `Reboot`, `Lose` are the
receivers and the network. A datagram is identified by device, boot and true
number; the tracker sees the number modulo `Modulus`.

**CaptureSession** (`tools/experiments` runner, `tools/collector`: `cli.ts`,
`collector.ts`, `recording.ts`). Runner and collector are two processes; a signal
is sent and delivered in two steps. `Shutdown`, `StopCapture`, `CloseSocket`,
`EndStreams`, `FlushMeta`, `Exit` are the awaits of the shutdown. `Crash` and
`RunnerCrash` may come at any step, and a crash inside the metadata write leaves
it torn. `WriteBack` moves buffered datagrams to disk.

**DashboardRecorder** (`dashboard-recorder.ts` and its callers). A request is a
coroutine: `Start`, `Open`, `MetaDir`, `WriteMeta` are the pieces of `start` between
awaits, `Stop`, `Ended`, `MetaDir`, `WriteMeta` those of `stop`. `Write` is `write` and
`writeProtocolV2`. Stops come from requests, the timer and the shutdown. `MkdirFails`,
`EndFails` and `FlushFails` are the disk errors that refuse a request and leave the
process up; `Crash` may tear metadata being written. Starts and stops overlap as the
code lets them; the ghosts `mixed` and `crossed` note which recordings that happened to,
`failed` whose stop met a disk error, `lost` what misses a datagram.

### From datagrams to a position

**JointXY** (`joint-packet-aligner.ts`, `live-xy-runtime.ts`). One call is one
step. `Observe` is `acceptDatagram` → `add`, with `expire`,
`dropPacketsContaining`, the gap count, `finalize`, `enforceBound` and
`drainFinalized` in it, in the code's order; `Accept` is what the runtime does with a
returned packet.

**MultiNodeEngine** (`multi-node-engine.ts`, `engine.ts`, `input-buffer.ts`,
`ring-buffer.ts`, `activity.ts`, `features.ts`). `AcceptDatagram` is one call of
`accept`: `Enter` (a new boot resets the runtime), `TrackSequence`, `Buffer` (one
canonical stream) and `Evaluate` (a window is evaluated when its newest frame is new).
`Snapshot` is the publish timer, `ResetBaseline` and `SetModel` are requests,
`Silence` the passing of `staleAfterMs`. Motion is reduced to the band of
`adaptiveScore` it falls in. **PositionFusion** is `fusePositionEstimates`: votes
per zone, the sort, the number of contributors and the agreement, on integer weights: a
vote of weight w is w ballots, so that a sum of weights is a number of ballots.

**DashboardServer** (`multi-node-web-server.ts`). The requests that train, load
and activate a model, and the one that starts a recording, with every await a step
of its own. `disk` is what each path holds, `status` what `GET /api/model` says,
`engine` and `xyRuntime` are what runs. `ActivateXY` may be refused by
`LiveXYRuntime`'s constructor after the engine's model was unloaded, as it is when the
mappings have no addresses, and any number of trainings may write to one
file; the ghost `doubt` says which of the two, if either, the last activation met.

### What a page shows

**LivePage** (`dashboard-stream.js`, `publish`, `openEventStream`): snapshots over a
stream that breaks, the check of the sequence, and `guardCoarseTransition` as `Guard`. A
snapshot is known by the run of the server and its number in it; the page compares the
numbers alone. **ReceiverSlots** (`allocateSlots`, `assignSlots`, `receiverMappings`,
`renderReceiverGeometry`): which receiver each surface means by a letter. **PageViews**:
the two scripts' copies of the recording, set by fetch, events and replies in any order.
**Guidance** (`nextDashboardAction`, `renderSetupHealthChecklist`, `whyNoDotMessage`,
`deriveRoomSetupGate`, the form's inline gates): pure functions of the set-up (a room
may be named and not yet `placed` by coordinates), the snapshot and the model, over all
orders in which these change. **CalibrationWizard** (`fleet.js`): passes of recorded
steps, training, the validation walk, with other pages on the same server. A start
(`ServeStart`) is refused while a recording is active, while the receivers are not ready
or when it throws, and one that throws late has started the recording and answers with
an error all the same; its answer is on its way in `refusals` while the status is on the
stream. The ghost `disturbed` notes that other recordings met the step being captured.
**DeviceMonitor** (`web-server.ts`, `boot.js`, `DeviceLogs.cpp`): poll, control, the log
ring with its cursor, the page's boot and its stream.

### The tools beside the receivers

**UsbConsole** (`serial.mjs`, `buffer.mjs`): `OpenDevice` up to its first await and
`Opened` after it; `Arrive` and `Trim` are the buffer, `StartRead`/`FinishRead` a client
that waits. `Decode` is `toString('utf8')` on each answer: bytes that are no UTF-8
(`Noise`), and either half of a character of two bytes (`Lead`) that the answer's end
cuts, come out as the mark U+FFFD. **ReceiverSetup**: the flasher, the launcher
(`rf.mjs`), the CLI's `configure` and `configure-four-receivers.mjs` as processes on the
same receivers, each a sequence of requests, any of which can fail or be abandoned; the
receiver has a saved configuration, the one it booted with, and a restart that is due.
**OtaPublish** (`deploy-ota.yml`, `tools/ota-server`): upload, stage, switch, the
server's two-step validation, a receiver's download.

## 4. The runs

All runs need two workers and less than five minutes each. TLC's bounds are
constants of the modules named `Max...`; each is a conjunct of a guard.

| Run | Bounds | Why they are enough |
|---|---|---|
| `ota_lifecycle` | 3 versions, 2 attempts, threshold 3, 2 samples, 1 HTTP task besides the supervisor | a trial over a proven update needs three versions; two attempts collide or follow each other; one sample may be healthy and the next not; the third boot is the threshold |
| `device_pipeline` | frames: 4 slots, counters modulo 8, 9 frames, 1 drain; batches: 2 slots, 2 frames a datagram, 2 flush ticks, back-off 2, 5 datagrams | the pool overflows, the counters wrap, and a drain meets every point of push, pop and release; the batch ring fills twice over, a datagram can be full or partial |
| `capture` | receiver: 1 caller, 2 starts, 3 datagrams; host: 3 datagrams, 3 Ctrl-C | tasks of the first start are alive during the second; a datagram before, during and after the shutdown begins, and a signal for each phase |
| `packet_stream` | sender: 2 callers, 2 starts, 2 datagrams; tracker: 1 receiver, 2 boots, 7 datagrams each, modulus 6, 4 deliveries, delay 2; datagrams: 11 words (two frames), samples of 0 or 1, 3 frames, 1 v2 frame, 2 recorded | two hooks overlap at every pair of their steps, a start within a stop's delay, a missing socket or task in either start; each boot's numbers wrap, steps of two make loss, a delay of two is the largest below half the space, and four deliveries have room for a gap, the wrap, a late datagram and a reboot; the buffer is full after two frames and the third is written over them, and every word of a datagram is damaged |
| `live_position` | joint: 3 receivers (2 suffice), 3 packets across a wrap at 8, 2 boots, 2 channels, time-out 2, 1 pending, 4 datagrams; engine: 1 receiver, 2 boots, 2 streams, window and baseline of 2, 3 datagrams a boot, 6 deliveries, 2 resets or changes of model; fusion: 4 receivers, 2 zones, weights to 3 | a full table, an expiry, a reboot in a pending packet; a window and a baseline that a late datagram of either boot can spoil; ties of two against two |
| `recorder` | 2 requests, 2 recordings, 2 datagrams | two starts, two stops or one of each overlap at every await, with a disk error in either; recordings follow one another |
| `dashboard` | page: 3 zones in a row, hold of 2 of 3 ticks, the last run 3 snapshots and each before it two fewer, 1 break, 1 restart; slots: 3 receivers for 2; views: 2 recordings, 1 cut; monitor: 2 lines kept, 1 read at a time, 1 outage, 1 click, 1 cut | a jump, a neighbour and a second jump within the hold; a restarted server passes the number drawn from the run before; more receivers than slots; an end lost with the stream; a line that is overwritten |
| `workstation` | console: 2 ports for 1 device, 2 overlapping calls, 2 of 5 bytes kept, one character of two bytes (2, 3) and a byte that is no UTF-8 (4); set-up: 2 receivers, 2 hosts, 2 tools, 2 runs, 1 power cut or reset; publishing: 3 releases, 4 deployments, 2 server starts; server: 2 requests, 1 path, 3 models; guidance: 4 zones; wizard: 3 steps, 7 starts, 2 interventions from outside or refused starts, 3 clicks of a walk | the limit is reached, the buffer trims in a read and in a character; two tools on one receiver; an older version is deployed between two others; two requests, on one file, overlap at each await; two passes of three steps, a walk of two zones and a recapture, with starts refused or half done on the way |
| `ota_boot_loop` | 2 versions, 1 attempt, threshold 3 | ordinary reboots before the only update |
| `capture_two_encoders` | 2 callers, 2 starts, 3 datagrams | two tests of `running_` before either sets it |
| `joint_xy_degraded` | 4 receivers (3 suffice), 3 packets, time 3, 2 pending, 5 datagrams | three of four, then a time-out |
| `manifest_always_backed` | as in `workstation` | a version is deployed twice |

What each passing run shows:

- `ota_lifecycle`: after a reset at any step the slot the bootloader chooses holds a
  complete, verified image (`AlwaysBootable`), and an image on trial has a proven one
  beside it (`FallbackKept`); at most one operation is between taking and releasing the
  lock, and the flag says so (`SingleFlight`); the lifecycle implements
  `RollbackGuarantee`: an update is a newer candidate that replaces the proven version
  or disappears (`ImplementsGuarantee`). Once resets cease a trial that the supervisor
  watches is decided (`TrialDecided`) and the lock released (`LockReleased`).
- `device_pipeline`: every queued frame has exactly one wake-up, and after a drain
  never a wake-up without a frame (`TokensMatchFrames`); until a drain the ring is a
  `LossyFifo` (`ImplementsLossyFifo`) and what is queued is encoded
  (`FrameReachesEncoder`). The batch ring is a `DropOldestQueue`
  (`ImplementsDropOldest`), which every datagram leaves (`BatchLeaves`); a partial
  datagram is pushed although frames keep trickling in (`PartialIsFlushed`).
- `capture`: when hooks follow each other, stopped tasks end, those of one start beside
  those of the next (`TasksEnd`). On the host a complete recording holds what its
  statistics say, whatever crashed (`RecordingWhole`); session marks and exit codes can
  be trusted (`SessionTrustworthy`); a session told to stop ends (`SessionEnds`).
- `packet_stream`: whatever hooks overlap, and whatever socket or task could not be
  created, once no hook is in progress the streamer never runs without capture, and,
  unless two callers have met inside it, it has an open socket and its encode task, if
  created, is on the current ring (`ActiveMeansStreaming`). No `packetSeq` is sent
  twice, not even by two encode tasks (`SeqsUnique`). The tracker's counters describe a
  true stretch of the boot (`SpanIsTrue`), loss is never underestimated and
  overestimated only by late datagrams (`LossBounded`). What the trainers read back is
  frame for frame what was captured, from a file cut anywhere a beginning of it
  (`RecordedIsSent`).
- `live_position`: a feature window holds only packets whose observations came within
  the time-out of each other (`JointMeansTogether`), no packet mixes two boots of a
  receiver that the aligner has seen reboot (`OneBootPerReceiver`), and no unseen number
  escapes the gap count (`NoGapUnnoticed`). A receiver's window, baseline and votes are
  of one boot and one stream, and ready means a finished baseline (`ReadinessEarned`),
  which polling does not teach (`PollsDoNotTeach`). The fused zone does not depend on
  which receiver is listed first (`FusionOrderFree`).
- `recorder`: whatever requests overlap and whatever disk error they meet, a recording
  marked complete has ended, is described by its own metadata and misses no datagram,
  unless a start was let through while another start or a stop was on its way for it
  (`CompleteIsWhole`). Once a start has returned, a stop gives the recording its final
  metadata for good, unless it is refused for a disk error or crossed by a start
  (`StopIsFinal`).
- `dashboard`: a held zone was the server's within the hold time (`HeldZoneIsRecent`).
  The page comes to draw what a run of the server has published, or something newer of
  that run; after a restart from the moment the run's numbers pass those drawn before
  (`PageCatchesUp`). A card keeps its receiver (`CardKeepsReceiver`), every script
  learns of a recording that goes on (`RecordingIsSeen`), and the single-link page comes
  to show the device's state (`TelemetryCatchesUp`).
- `workstation`: a console client gets every byte, as text or as the mark for what is no
  text, or is told of what it missed (`NoSilentGap`); a tool's success means a
  configuration that takes effect (`ConfiguredTakesEffect`); the manifest and an offer
  name an image that is there (`ManifestIsBacked`). `GET /api/model` names what runs,
  over failed and overlapping requests; after an activation that threw half way nothing
  runs in the engine, and after a file was written over, another zone model
  (`StatusTellsWhatRuns`). The accounts of what to do next agree (`GuidanceAgrees`). A
  counted step was recorded, over starts refused and starts that fail half way, unless
  other recordings met that very step (`CapturedIsRecorded`).

Many of these speak under a premise that names what the code does not guard. Section 7
says what happens beyond it, and the run or property that shows it.

| Property | Premise |
|---|---|
| `ManifestIsBacked` | no version is deployed again |
| `ConfiguredTakesEffect` | no tool has saved the receiver's configuration and left it without a restart: there the launcher and the CLI report success on what is saved and not in effect |
| `NoSilentGap` | the port was opened once; and of a character that an answer's end cuts, the two marks in its place count as its bytes |
| `CapturedIsRecorded` | the step was not met by other recordings: one under way or its end on the stream when the step was captured, another page, a stream reopened |
| `StatusTellsWhatRuns` | for the engine's model: the last activation did not throw half way, nor read a file another training had written over |
| `CompleteIsWhole`, `StopIsFinal` | no start was let through while another start or a stop was on its way for the recording; for the second also no disk error in the stop |
| second half of `ActiveMeansStreaming` | no two callers met inside the streamer |
| `PageCatchesUp` | after a restart, the new run's number has passed the one drawn |
| `TrialDecided` | the trial is the supervisor's to decide: a receiver without a configuration is in the portal instead |
| `GuidanceAgrees` | the accounts that know only names and those that also look at coordinates are compared for a set-up that has both |
| `ImplementsLossyFifo` | the pool's size divides the range of the counters, and no drain has begun |

Stated in the modules and true in TLC under the same bounds, but carried by no run: the
type invariants (`TypeOK`, `QueueTypeOK`, `TrackerTypeOK`, `SessionTypeOK` and the
others), the inductive invariants of section 6, and `WritesOnlySpare`,
`AttemptsAccounted`, `TokensMatchBatches`, `EveryBatchAccounted`, `SentInOrder`,
`FreshestKept`, `OneEncoderUnlessRaced`, `NoLostWakeup`, `SlotsAgree`, `RebootsExact`,
`ClosedStays`, `LinesInOrder`: all proved.

`CHECK_DEADLOCK FALSE` appears where a behaviour ends because its bounds are used
up or a process has exited. The model of `ota_lifecycle` can always be reset, so
it is checked for deadlock.

Symmetry is used for the receiver slots of `JointXY`, the callers of `packet_stream` and
`capture_two_encoders`, and the receivers, hosts and tools of `workstation`, which the
code treats alike, and never with liveness.

## 5. Fairness

Weak fairness is asked of the steps the platform guarantees, never of clients,
networks, signals or crashes.

- *OtaLifecycle*: FreeRTOS runs every ready task, and each step of `check` and
  `apply` ends because the HTTP client and TLS have time-outs; the supervisor's
  loop is a delay loop; a device that is off is switched on. `TrialDecided` and
  `LockReleased` assume that resets cease at some time, as a device that is reset
  for ever decides nothing. A Wi-Fi connection is not assumed: a trial without it
  is decided by rolling back.
- *FrameQueue*: the callback runs to its end in the Wi-Fi task and the encode task
  loops while the streamer runs. Frames need not come.
- *BatchStream*: both tasks loop. Frames need not come, but then the encode
  task's polls time out; they may also come for ever, and `PartialIsFlushed` asks that
  a partial datagram is pushed either way.
- *CaptureLifecycle*: a hook that was called runs to its end and created tasks are
  scheduled. No one needs to call.
- *CaptureSession*: the two event loops run, a sent signal is delivered, the
  request's time-out fires.
- *DashboardRecorder*: a request in progress goes on, as `mkdir`, the streams and
  `writeFile` return, with an error or without.
- *LivePage, PageViews, DeviceMonitor*: the browser delivers the events that
  arrive, an EventSource opens its stream again, the publish and poll timers fire,
  files close, the requests at load are answered. Clicks, breaks and outages need
  not happen, and are bounded: `PageCatchesUp`, `RecordingIsSeen` and
  `TelemetryCatchesUp` are about what follows the last of them.

The other modules only have safety properties: they are called, or run by people,
and do nothing on their own.

## 6. The proofs

Eight modules hold theorems. Each extends the modules it is about, and its theorems
hold for every value of their constants that satisfies the named assumptions, and
so for any number of tasks, requests, receivers, frames, versions and files. A
run's invariant was always too weak to be inductive; the strengthening is at the
end of its module under "The inductive invariant", was checked by TLC under the
bounds of section 4 first, and is proved by three facts: it holds initially,
every action keeps it (a step for each), and it implies what the run checks.

| Proof module | About | Assumptions beyond sane ranges |
|---|---|---|
| `OtaLifecycleProofs` | `OtaLifecycle` | - |
| `DevicePipelineProofs` | `FrameQueue`, `BatchStream`, `Datagram` | `Depth > 1`; `InStep`, for one theorem; a frame of any length fits an empty datagram |
| `CaptureProofs` | `CaptureLifecycle`, `CaptureSession` | - |
| `StreamTrackerProofs` | `StreamTracker` | delay below half the sequence space |
| `LivePositionProofs` | `JointXY`, `MultiNodeEngine`, `PositionFusion` | a run's packets and a boot's datagrams fit half the sequence space |
| `DashboardProofs` | `LivePage`, `ReceiverSlots`, `Guidance`, `DashboardServer`, `CalibrationWizard`, `DashboardRecorder`, `DeviceMonitor` | - |
| `WorkstationProofs` | `OtaPublish`, `ReceiverSetup`, `UsbConsole` | model values that mean "none" name no host, tool or port |
| `WrappingNumbers` | numbers modulo n, gaps in a set of numbers, the order of a finite set: what several proofs need | - |

**OtaLifecycleProofs.** `AlwaysBootable` alone is not inductive: the step that switches
the boot slot preserves it only because the spare slot was verified, and that only
because nobody else writes it. The invariant `IInv` adds: `FlashInv` (the newest otadata
entry is proven, or on trial over a proven older version, or given up for a proven one),
`RunningInv` (what runs is what the bootloader chose, until an apply switches slots),
`RamInv` (RAM is empty unless the application is up; an offer is newer than what runs)
and `ApplyInv` (an apply past `begin` runs on a proven slot, and past `verify` the spare
slot holds what was offered). From `IInv` follow `TypeCorrect`, `NeverBricked`,
`TrialHasFallback`, `WriterIsHarmless` (the slot being written is neither running, nor
booted next, nor a fallback) and `AttemptsAndLock`. `RollbackPromise` shows that initial
states map to initial states of `RollbackGuarantee` and that each step maps to an offer,
a commit, a discard or a stutter.

**DevicePipelineProofs, frames.** `WakeUpsMatch` rests on a balance of tokens, queued
frames and what each task still owes. That it survives a drain from another task needs
`RoomKept` and `StoresBacked`: whatever tail a consumer has read and is about to store,
the slot being written stays free under it, and the wake-ups left over afterwards have
their frames. `QueueRefinement` maps the ring between tail and head to the sequence of
`LossyFifo`, until a drain begins. It assumes `InStep`, that the pool's size divides the
range of the counters. That is so of the 256 slots in PSRAM, not of the 24 of the
classic build (`CsiFrame.h:17`, `:21`), whose refinement ends when the counters first
wrap; section 7 has the counterexample.

**DevicePipelineProofs, batches.** The invariant says where the head is (`HeadFollows`),
that the places of the ring hold the newest batches in order (`FreshestKept`), that
tokens and batches match, and that what is sent or in hand is older than what waits
(`OlderThanRing`). The arithmetic of wrapping indices is in five lemmas (`WrapOnce` to
`PlaceShifts`), the effect of a push and a pop on the ring in two (`EnqueueRing`,
`PopRing`). `Tokens`, `Freshest`, `Ordered` and `Accounted` follow, and `Refinement`
shows that the ring with its mutex, semaphore and two tasks implements
`DropOldestQueue`. The assumption `Depth > 1` is needed: with a depth of one a push can
drop the batch whose token the network task already took.

**DevicePipelineProofs, datagrams.** `RecordedIsSent` compares a file with history; the
invariant says how both came about. `BufferHolds`: the scratch buffer begins with a
header and the frames of the batch, one behind the other, whatever an earlier datagram
left beyond them. `FlightIsRead`: a datagram on its way is read as what was sent in it,
or, once damaged, refused, by whichever parser is asked: what was sealed by a length and
a CRC and then cut, extended or changed no longer fits one of the two. `FilesHold`: the
binary file is one record behind the other, each read as the datagram that arrived, and
the lines are what arrived. `WhatIsRecordedWasSent` follows for the file and for each
beginning of it, for any size of the buffer and any number and length of frames. The
loops of the readers are the hard part, as induction over data is out of reach. A loop
is a recursive function; the places the invariant gives for its cuts obey the same
equation, and two functions that do are equal (`StartsAre`, `EndsAre`), because a set of
numbers that has 0 and with each number the next has them all (`SetInduction`, over a
set where the library's theorem takes an operator). The records the reader keeps are
matched with the datagrams that arrived by rank (`NthIs`, `NthGrows`).

**CaptureProofs.** Callers overlap as they like. `CaptureInductive` is the invariant in
two parts. The first holds always: each task that has begun has a ring (`RingsKnown`),
and a streamer that runs without capture has a caller on its way to stop it
(`RunningForCapture`). The second, `NotRaced`, holds until two callers have met inside
the streamer: at most one is there, the only live encode task is that of the last start
and outlives the flag only until its stop closes the socket (`EncoderCurrent`), and the
socket is that of the last start (`SocketCurrent`). `FrameQueueHasOneConsumer`
(`OneEncoderUnlessRaced`) and `CaptureIsStreaming` (`ActiveMeansStreaming`) follow for
any number of callers, starts, and sockets and tasks that cannot be created.
`capture_two_encoders` shows the first false when two callers do meet.
`PacketSeqsUnique` has no exception: a number is at one place (`OnePlace`), in a
datagram being built, in a ring, in a network task's hands or on the wire, and each is
below the counter. For the host, `MarksEarned` says what has happened by the time each
mark is written; `RecordingMark` and `SessionMark` follow for crashes and signals at any
await.

**StreamTrackerProofs.** `SpanIsTrue` is inductive only together with what the network
may still deliver: datagrams in flight are within `MaxDelay` of each other and of the
newest that arrived (`NearInAir`), which makes the comparison of wrapping numbers right
(`DeltaIs`). The step that advances the span counts the gap as a set
(`WrappingNumbers`). `RebootsAreExact` counts streams and devices: the boots of a device
are those of its streams (`RebootsIInv`), so a datagram of an unheard boot adds a stream
and, unless its device is new, a reboot. That no boot lost more than its newest number
follows from `SpanIsTrue`.

**LivePositionProofs.** `JointIsTogether` follows from what each pending packet
satisfies: its observations came within the time-out of its first (`Together`), because
`expire` runs before every `add`. `PacketsOfOneBoot` is an invariant of its own.
`GapsAreCounted` needs `lastSequence` to be the residue of the newest number seen. For
the engine, `OfOneStream` ties window, baseline and votes to one boot and stream,
`Earned` readiness to samples or a model, and `Current` says that what was evaluated is
the newest frame unless an exception left a call half way; `PollsTeachNothing` is an
action property that follows from the last. For the fusion the invariant is only that
the zone shown is `Fuse` of the estimates; the rest is about `Fuse`. A zone that is
accepted has more than half of all ballots, so it leads alone, and the order of the
first votes, which a stable sort falls back to, decides only among zones of which none
is accepted. Moving the estimates to other places by any permutation maps ballots one to
one (`MovedCounts`), so the same zone wins (`FusesTheSame`); `OrderDoesNotDecide` is the
case of an exchange.

**DashboardProofs.** *Page*: what is shown is the zone accepted last, within the hold
time. *Guidance*: recordings are of zones that exist, and readiness comes with a
snapshot; the rest is a case analysis over every number of zones. *Slots*: no slot is
given to two receivers (`GivenOnce`) and what is drawn is drawn where it was given
(`CardIsGiven`); `CardsKeepReceivers` follows for any number of receivers and slots.
That `NthOr` finds the i-th of a finite set at all is proved by counting: ranks are an
injection into as many positions, so they reach each (`NthIs`). *Server*: a request
between two awaits knows that what it saved is still on the disk, or that another
training has written over it (`SavedIsOwn`), which the activation then carries into
`doubt`; `StatusIsTrue` follows for any number of requests, files and models.
*Calibration*: the step the page waits for, unless disturbed, is at exactly one place:
in the request, with the recorder, on the stream, or refused (`OnePlace`); so the end
that counts it is its own. *Recorder*: starts and stops overlap freely, and each part of
`RecorderIInv` says what still holds of a recording nothing crosses: a start carried out
alone owns the labels (`StartingAlone`), the active recording is open and being stopped
by nobody (`ActiveIsOpen`), one that is being stopped has ended with the status that
counts it (`EndingIsEnded`), and metadata on their way are of the recording they were
made for (`FlushIsOwn`). `RecordingsAreWhole` follows, for disk errors at any await.
`MetadataAreFinal` is the safety half of `StopIsFinal`, and holds of crossed recordings
too: one that is closed, with no metadata on their way, stays as it is (`ClosedStays`).
*Log of a single device*: lines are ordered by boot and number, and are in this order in
the server's list (`KeptInOrder`) and on the stream (`FeedInOrder`), of which the page
shows nothing the server does not have (`PageBehind`); `LogStaysInOrder` follows for any
size of the device's ring and of a poll.

**WorkstationProofs.** *Publishing*: unless a version is deployed again, no deployment
under way touches an image that was ever named (`LiveIsWhole`). *Setting up*: what a
tool has found out of its receiver still holds unless another tool rewrote it in between
(`Knows`), and a receiver that runs something else than what is saved has a restart due
or somebody who has yet to ask for one (`RunsSaved`). *Console*: the buffer of a port
that was opened once holds consecutive bytes that end with the last one written, and the
reader's cursor is just behind the last byte it got (`InOrder`). `GapsAreTold` follows
for any buffer size and for any bytes that are no UTF-8 or begin a character: what is
decoded differs from the bytes only where `InPlace` allows a mark. So does
`WaitersAreWoken`, which no run checks.

Only model-checked is liveness (`TrialDecided`, `LockReleased`, `FrameReachesEncoder`,
`BatchLeaves`, `PartialIsFlushed`, `TasksEnd`, `SessionEnds`, `StopIsFinal`,
`PageCatchesUp`, `RecordingIsSeen`, `TelemetryCatchesUp`): fairness and ENABLED are
beyond the prover.

## 7. Where the code departs from its comments and documents

Four disagreements have a run that shows them.

- `ota_boot_loop` — `consecutiveFailedBoots` is incremented on every boot
  (`BootGuard.cpp:43`) and cleared only when an image on trial is confirmed, so
  ordinary reboots of a proven image count too, and the next healthy update is
  rolled back as a boot loop on its first boot. `docs/ota-recovery.md:37` describes
  the counter as catching "an image that resets repeatedly".
- `capture_two_encoders` — `NetworkStreamer::start` tests `running_` at line 132 and
  sets it at 152, after a name resolution. Two overlapping starts, or a start within
  the 100 ms of a stop, leave two consumers of a single-consumer ring.
- `joint_xy_degraded` — `add` calls `expire` and ignores what it returns, so a packet
  seen by three receivers that times out never reaches the position runtime, which
  calls nothing but `add`.
- `manifest_always_backed` — the deployment job copies the image with `scp` onto its
  final name. Deploying again the version the manifest names ("Idempotent if the version
  was deployed before", `deploy-ota.yml:106`) truncates the image under a live manifest,
  although "the device never sees a manifest that points at a file that isn't fully in
  place yet" (`deploy-ota.yml:5`).

The others are stated as properties in the modules, with the line they quote, and
fail in TLC when they are added to a configuration of the module. No run carries
them.

| Property (module) | What happens |
|---|---|
| `IdleStateReported` (`OtaLifecycle`) | A refused caller reads `state_` and stores it back without the lock (`OtaManager.cpp:193`). When the operation it collided with ends in between, the device reports "applying" or "checking" with nothing in flight. |
| `RefusedWhileCapturing` (`OtaLifecycle`) | `apply()` and `POST /ota/apply` never ask whether capture is active; the maintenance hook stops it. `docs/ota-deployment.md:40` says such an update is refused. |
| `CaptureOnlyWhenProven` (`OtaLifecycle`) | The control API is up before the supervisor has verified an image, and its capture handlers do not ask. `docs/ota-deployment.md:87` has capture resume only after the image is healthy. |
| `DrainIsFinal` (`FrameQueue`) | The drain runs in the updating task while the encode task is still running (`FrameQueue.h:35`: "Consumer-side only"). One can move the tail back over frames the other has discarded, and these are encoded after all. |
| `ImplementsLossyFifo` with `Capacity = 3`, `Modulus = 8`, `MaxDrains = 0` (`FrameQueue`) | A slot is the counter modulo the pool size. The 24 slots of the classic ESP32 build (`CsiFrame.h:17`) do not divide 2^32; when the counters wrap the slot sequence jumps and queued frames are overwritten. The run uses a pool that divides the modulus, as the 256 slots of the other build do. |
| `StartedMeansTasks` (`CaptureLifecycle`) | `start` sets `running_` and ignores what the two `xTaskCreate` return (`NetworkStreamer.cpp:152-156`). When a stack cannot be allocated, capture is reported active and nothing is encoded, or nothing sent, and every later start returns at once; `NetworkStreamer.h:22` has it start "the UDP socket plus the encode and network tasks". |
| `SendsOnOwnSocket` (`CaptureLifecycle`) | `stop` does not join the tasks; a network task inside `getaddrinfo` outlives it and sends its batch through the socket that a later start opened. |
| `RetriesUntilResolved` (`CaptureLifecycle`) | `start` zeroes the address but `targetResolved_` keeps the previous start's value: the network task does not retry and sends to the zeroed address. |
| `LossShareSane` (`StreamTracker`) | `snapshot` subtracts wrapping numbers without reducing the result (`stats.ts:122`): after a wrap the span is negative and the loss share 0. |
| `ReorderingIsNotLoss` (`StreamTracker`) | A datagram that is overtaken is counted as lost in the gap; when it arrives only `outOfOrder` grows. |
| `BracketsCapture` (`CaptureSession`) | A stop request that fails is logged and the recording closed as complete while the receiver goes on capturing. |
| `CtrlCClosesCleanly` (`CaptureSession`) | The signal handlers are installed after the recording is open and the start request answered; a Ctrl-C before that leaves it incomplete. |
| `FinalizedOnce` (`JointXY`) | A packet's key is forgotten when it is finalised, so duplicates of its observations make a second packet. |
| `OneRecordingOpen` (`DashboardRecorder`) | `start` tests that nothing is active (`dashboard-recorder.ts:128`, "recording already active"), awaits `mkdir`, then becomes active (line 144). Two starts both pass; the second one's streams replace the first's, which are never ended. `CompleteIsWhole` without its exception fails by the same gap, and by a start let through while a stop awaits its streams, which is left without any. |
| `WindowSharesWidth` (`MultiNodeEngine`, with a `CutOf` that is not constant) | Whether the invalid first word is cut is decided per frame; a window of two widths makes `windowFeatures` throw (`features.ts:38`), out of the datagram handler or the publish timer. |
| `CaptureIsReady` (`DashboardServer`) | Readiness is tested before the request's body is awaited (`multi-node-web-server.ts:333`) and not again. |
| `StatusIsExact` (`DashboardServer`) | `LiveXYRuntime`'s constructor refuses mappings without address or port, as the command line leaves them by default (`four-node-cli.ts:60`), after the engine's model is already unloaded: the status goes on naming it. And a zone model is read back from its path after it was written: of two trainings to one path, one activates the other's model under its own description. |
| `NewSnapshotIsDrawn` (`LivePage`) | The page takes only greater sequence numbers, and a restarted server counts from one: the page is frozen until the new server has published more than the old one. |
| `GeometryTellsTruth` (`ReceiverSlots`) | The map's geometry layer takes the n-th receiver of the snapshot for slot n, the cards a receiver's first slot: after a receiver with a lower id appears, the layer's letters mean other receivers than the cards'. |
| `EndIsSeen` (`PageViews`) | `four-node-dashboard-core.js` subscribes once its fetch is back; an end between the answer and the subscription is lost, and the end is broadcast once. |
| `WhyNoDotIsTrue` (`Guidance`) | "The room is currently clear" is said before it is known whether a dot is drawn; a joint prediction draws one without changing the state. |
| `FormAgrees` (`Guidance`) | The form lets the user train with two zones recorded, the next action asks for them all. |
| `PassedMeansWalked` (`CalibrationWizard`) | The walk compares a zone when the next one is asked for, so the last is never compared. |
| `CapturedIsOwn` (`CalibrationWizard`) | Any status that a recording ended counts the step, also another page's, and the one a reopened stream begins with. |
| `LinesArrive` (`DeviceMonitor`) | A restarted device numbers its log from one, and the server drops what is not beyond the last number it saw (`web-server.ts:141`). |
| `DeviceLimit`, `NoSilentGapEver` (`UsbConsole`) | The limit and the port are tested before two awaits: overlapping calls exceed the limit, or open a port twice, and the second's buffer starts at offset 0 under cursors into the first. |
| `CharactersArrive` (`UsbConsole`) | Each answer is decoded on its own (`buffer.mjs:58`, `toString('utf8')`): a read that ends inside a character gives U+FFFD at its end and the next one at its beginning, with `truncated` false both times. |
| `SavedMeansRunning` (`ReceiverSetup`) | The launcher returns as soon as the saved host and port match (`rf.mjs:155`). After a tool that saved them and was stopped before it asked for the restart, the receiver goes on streaming to the old collector and the launcher reports nothing. |

`live_position` has a constant `CutOf`, so that its windows have one width.

## 8. What is not modelled

- *Numerical code* (features, models, training, calibration scores, offline
  analysis): computations on real numbers, outside TLC's reach. Where their
  outcome steers control it is a free choice (a band of motion, a verdict). The
  live analysis server is left out with them.
- *Pure validation and conversion* (manifest policy, configuration codec, request
  bodies, flags, plans): no state; an input is acceptable or not.
- *Drawing, wording, logging, static files, LED, mDNS, gauges, build scripts*: no
  state another part depends on.
- *Wi-Fi back-off*: only whether the station is connected matters to others.
- *Inside the modelled parts*: errors of NVS writes (the counters are taken as
  written), `rollbackCount` and `bootCount`, which are only reported, the second data
  stream of a dashboard recording in `DashboardRecorder` (always handled with the
  first), several devices in one experiment, full batch rings in `CaptureLifecycle`
  (they are in `BatchStream`), the sequence's width in `MultiNodeEngine` (beyond its
  bounds; `StreamTracker` and `JointXY` wrap), the capture scripts under
  `tools/hardware` that poll a recording (`CalibrationWizard` has the same loop in a
  page), and sockets, TLS and HTTP below a request.
