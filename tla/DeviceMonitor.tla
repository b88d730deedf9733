---------------------------- MODULE DeviceMonitor ----------------------------
(***************************************************************************)
(* The single-link dashboard and the device it watches                     *)
(* (apps/dashboard/src/web-server.ts, public/boot.js): the server polls the*)
(* device's HTTP API for its status and for the log lines it has not seen, *)
(* the page shows both and can start, stop and reboot the device.          *)
(***************************************************************************)
EXTENDS Sequences, SequencesExt, Ranks

CONSTANTS
  LogRing,   \* kEntryCount: lines the device keeps
  LogLimit,  \* lines asked for in one poll
  MaxLine, MaxOutage, MaxClick, MaxCutOff, MaxFeed  \* bounds

ASSUME LogAssumption == LogRing \in Nat \ {0} /\ LogLimit \in 1..LogRing

VARIABLES
  dev,    \* the device: reachable, capturing, times booted, next log sequence
  mon,    \* the server: where its poll is, what it knows, the log it has read
  feed,   \* events on their way to the page
  view,   \* the page: how far boot is, its telemetry, the last line it shows
  events  \* outages, clicks and broken streams so far

monitorVars == <<dev, mon, feed, view, events>>

Offline == [connected |-> FALSE, capture |-> FALSE]

MonitorInit ==
  /\ dev = [up |-> FALSE, capture |-> FALSE, boot |-> 1, next |-> 1]
  /\ mon = [at |-> "idle", device |-> Offline, last |-> 0, logs |-> <<>>]
  /\ feed = <<>>
  /\ view = [stage |-> "logs", open |-> FALSE, device |-> Offline, line |-> <<0, 0>>, sorted |-> TRUE]
  /\ events = [outages |-> 0, clicks |-> 0, cuts |-> 0]

\* broadcast: only the pages that have the stream open are written to.
Sent(messages) == IF view.open THEN feed \o messages ELSE feed

-----------------------------------------------------------------------------
(* The device.                                                             *)

\* DeviceLogs::append.
WriteLine ==
  /\ dev.up /\ dev.next <= MaxLine
  /\ dev' = [dev EXCEPT !.next = @ + 1]
  /\ UNCHANGED <<mon, feed, view, events>>

\* readSince: from the line after the one asked for, or the oldest still kept,
\* at most the limit.
ReadSince(after) ==
  LET latest == dev.next - 1
      oldest == IF latest >= LogRing THEN latest - LogRing + 1 ELSE 1
      first == IF after >= oldest THEN after + 1 ELSE oldest
      stop == IF latest < first + LogLimit THEN latest ELSE first + LogLimit - 1
  IN  [i \in 1..(stop + 1 - first) |-> <<dev.boot, first + i - 1>>]

\* It becomes reachable, or is not any more: the network, or power.
ComeUp == dev.up = FALSE /\ dev' = [dev EXCEPT !.up = TRUE] /\ UNCHANGED <<mon, feed, view, events>>

Rebooted(d) == [d EXCEPT !.up = FALSE, !.capture = FALSE, !.boot = @ + 1, !.next = 1]

GoDown ==
  /\ dev.up /\ events.outages < MaxOutage
  /\ events' = [events EXCEPT !.outages = @ + 1]
  /\ dev' \in {[dev EXCEPT !.up = FALSE], Rebooted(dev)}
  /\ UNCHANGED <<mon, feed, view>>

-----------------------------------------------------------------------------
(* The server's poll: status, health and configuration, then the log.      *)

\* The timer, or the poll that follows a control request: nothing while one
\* is under way.
PollDevice ==
  /\ mon.at = "idle" /\ dev.up /\ Len(feed) < MaxFeed
  /\ mon' = [mon EXCEPT !.at = "logs", !.device = [connected |-> TRUE, capture |-> dev.capture]]
  /\ UNCHANGED <<dev, feed, view, events>>

\* pollLogs: the lines beyond the last one are kept and sent to the pages;
\* then, finally, the telemetry is.
PollLogs ==
  /\ mon.at = "logs" /\ dev.up
  /\ LET read == ReadSince(mon.last)
         fresh == Sublist(read, {i \in DOMAIN read : read[i][2] > mon.last})
     IN  /\ mon' = [mon EXCEPT !.at = "idle", !.logs = @ \o fresh,
                      !.last = IF fresh = <<>> THEN @ ELSE Last(fresh)[2]]
         /\ feed' = Sent([i \in DOMAIN fresh |-> [log |-> fresh[i]]] \o <<[device |-> mon.device]>>)
  /\ UNCHANGED <<dev, view, events>>

\* Mutant: an error ends the poll without the finally block.
PollFailsForGood ==
  /\ mon.at \in {"idle", "logs"} /\ ~dev.up /\ (mon.at = "logs" \/ mon.device.connected) /\ Len(feed) < MaxFeed
  /\ mon' = [mon EXCEPT !.device.connected = FALSE, !.at = "stuck"]
  /\ feed' = Sent(<<[device |-> mon'.device]>>)
  /\ UNCHANGED <<dev, view, events>>

\* A request of the poll fails or times out (a poll that changes nothing is
\* left out).
PollFails ==
  /\ mon.at \in {"idle", "logs"} /\ ~dev.up /\ (mon.at = "logs" \/ mon.device.connected) /\ Len(feed) < MaxFeed
  /\ mon' = [mon EXCEPT !.device.connected = FALSE, !.at = "idle"]
  /\ feed' = Sent(<<[device |-> mon'.device]>>)
  /\ UNCHANGED <<dev, view, events>>

-----------------------------------------------------------------------------
(* The page.                                                               *)

Older(a, b) == a[1] < b[1] \/ (a[1] = b[1] /\ a[2] < b[2])

\* renderLog for a line: "sorted" remembers whether they came in order.
Shown(v, line) == [v EXCEPT !.line = line, !.sorted = @ /\ Older(v.line, line)]
ShownAll(v, lines) ==
  IF lines = <<>> THEN v
  ELSE [v EXCEPT !.line = Last(lines),
                 !.sorted = /\ @ /\ Older(v.line, Head(lines))
                            /\ \A i \in 2..Len(lines) : Older(lines[i - 1], lines[i])]

\* boot: the device and the log are fetched and drawn, then the stream is
\* opened; the server begins it with the telemetry.
BootPage ==
  /\ view.stage \in {"logs", "stream"}
  /\ IF view.stage = "logs"
       THEN /\ view' = [ShownAll(view, mon.logs) EXCEPT !.stage = "stream", !.device = mon.device]
            /\ UNCHANGED feed
       ELSE /\ view' = [view EXCEPT !.stage = "running", !.open = TRUE]
            /\ feed' = <<[device |-> mon.device]>>
  /\ UNCHANGED <<dev, mon, events>>

\* renderLog, renderDevice.
Render ==
  /\ view.open /\ feed # <<>> /\ feed' = Tail(feed)
  /\ LET e == Head(feed)
     IN  view' = IF "log" \in DOMAIN e THEN Shown(view, e.log) ELSE [view EXCEPT !.device = e.device]
  /\ UNCHANGED <<dev, mon, events>>

\* The stream breaks; what was under way is lost.  EventSource opens it again.
CutOff ==
  /\ view.open /\ events.cuts < MaxCutOff
  /\ events' = [events EXCEPT !.cuts = @ + 1]
  /\ view' = [view EXCEPT !.open = FALSE] /\ feed' = <<>>
  /\ UNCHANGED <<dev, mon>>

Resume ==
  /\ view.stage = "running" /\ ~view.open
  /\ view' = [view EXCEPT !.open = TRUE] /\ feed' = <<[device |-> mon.device]>>
  /\ UNCHANGED <<dev, mon, events>>

\* control and /api/control: a button the telemetry enables is passed on to
\* the device, or refused because the device does not answer.
Control(action) ==
  /\ view.stage = "running" /\ view.device.connected
  /\ events.clicks < MaxClick /\ events' = [events EXCEPT !.clicks = @ + 1]
  /\ dev' = IF ~dev.up THEN dev
            ELSE IF action = "reboot" THEN Rebooted(dev)
            ELSE [dev EXCEPT !.capture = action = "capture-start"]
  /\ UNCHANGED <<mon, feed, view>>

Controls == {"capture-start", "capture-stop", "reboot"}

MonitorNext ==
  \/ WriteLine \/ ComeUp \/ GoDown
  \/ PollDevice \/ PollLogs \/ PollFails
  \/ BootPage \/ Render \/ CutOff \/ Resume
  \/ \E action \in Controls : Control(action)

\* The timer fires, requests end, the page's own steps are taken, and an
\* EventSource that lost its stream opens it again.
MonitorFairness ==
  /\ WF_monitorVars(PollDevice) /\ WF_monitorVars(PollLogs) /\ WF_monitorVars(PollFails)
  /\ WF_monitorVars(BootPage) /\ WF_monitorVars(Render) /\ WF_monitorVars(Resume)

MonitorSpec == MonitorInit /\ [][MonitorNext]_monitorVars /\ MonitorFairness

-----------------------------------------------------------------------------
\* The page shows each line of the device's log once and in the order they
\* were written, over reboots that start the sequence anew, failed polls and
\* reopened streams (readSince, pollLogs, boot).
LinesInOrder == view.sorted

\* Once the device is left alone the page comes to show, for good, whether it
\* is reachable and whether it captures: failed polls do not end the polling,
\* and a poll that was overtaken by a control request is followed by another
\* (pollDevice, openEventStream).
TelemetryCatchesUp ==
  <>[](/\ view.device.connected = dev.up
       /\ dev.up => view.device.capture = dev.capture)

\* The server reads every line the device writes before it is overwritten or
\* the device restarts, if the device stays reachable.
LinesArrive ==
  \A n \in 1..MaxLine :
    (dev.up /\ dev.next = n + 1)
      ~> (~dev.up \/ dev.next > n + 1 \/ Contains(mon.logs, <<dev.boot, n>>))

-----------------------------------------------------------------------------
(* The inductive invariant.                                                *)

Line == Nat \X Nat
Telemetry == [connected : BOOLEAN, capture : BOOLEAN]
Message == [log : Line] \cup [device : Telemetry]

MonitorTypeOK ==
  /\ dev \in [up : BOOLEAN, capture : BOOLEAN, boot : Nat \ {0}, next : Nat \ {0}]
  /\ mon \in [at : {"idle", "logs"}, device : Telemetry, last : Nat, logs : Seq(Line)]
  /\ feed \in Seq(Message)
  /\ view \in [stage : {"logs", "stream", "running"}, open : BOOLEAN,
               device : Telemetry, line : Line, sorted : BOOLEAN]
  /\ events \in [outages : Nat, clicks : Nat, cuts : Nat]

NoLine == <<0, 0>>
Newest == IF mon.logs = <<>> THEN NoLine ELSE Last(mon.logs)

\* The server keeps lines in their order, and knows where to read on.
KeptInOrder ==
  /\ \A i \in 1..Len(mon.logs) : Older(NoLine, mon.logs[i])
  /\ \A i \in 2..Len(mon.logs) : Older(mon.logs[i - 1], mon.logs[i])
  /\ mon.last = Newest[2] /\ Newest[1] <= dev.boot

\* Lines on their way to the page are in order, newer than what it shows and
\* known to the server.
FeedInOrder ==
  \A i \in 1..Len(feed) : "log" \in DOMAIN feed[i] =>
    /\ Older(view.line, feed[i].log) /\ ~Older(Newest, feed[i].log)
    /\ \A j \in 1..Len(feed) : i < j /\ "log" \in DOMAIN feed[j]
                              => Older(feed[i].log, feed[j].log)

\* A page shows nothing the server does not have, and before its fetch nothing.
PageBehind ==
  /\ ~Older(Newest, view.line)
  /\ ~view.open => feed = <<>>
  /\ view.stage = "logs" => view.line = NoLine /\ ~view.open

MonitorIInv ==
  MonitorTypeOK /\ KeptInOrder /\ FeedInOrder /\ PageBehind /\ LinesInOrder
=============================================================================
