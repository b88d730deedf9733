------------------------------ MODULE PageViews ------------------------------
(***************************************************************************)
(* What one dashboard page believes of the server's recording.  Two        *)
(* scripts keep a copy each: four-node-dashboard-core.js ("core"), which   *)
(* subscribes to the events only once its fetch at load is back, and       *)
(* four-node-dashboard.js ("position"), which subscribes first.  A copy is *)
(* set by the fetch, by events, and by the replies to the page's own       *)
(* requests, which arrive in any order.                                    *)
(***************************************************************************)
EXTENDS Naturals, Sequences

CONSTANTS MaxRecord, MaxCut, MaxEvents  \* bounds

VARIABLES
  host,    \* the server's recording, and whether its end is to be broadcast
  link,    \* the event stream: connected, the statuses on it
  copy,    \* per script, latestRecording
  ask,     \* per script, its request in flight
  heard,   \* core has subscribed
  cuts     \* connections broken so far

viewVars == <<host, link, copy, ask, heard, cuts>>

Script == {"core", "position"}
Inactive(r) == <<r, FALSE>>
Active(r) == <<r, TRUE>>
Unasked == [kind |-> "none", done |-> FALSE, ok |-> TRUE, rec |-> Inactive(0)]
Asking(kind) == [Unasked EXCEPT !.kind = kind]
HostRecording == host.rec[2]
Roomy == Len(link.wire) < MaxEvents

ViewsInit ==
  /\ host = [rec |-> Inactive(0), closing |-> FALSE]
  /\ link = [open |-> FALSE, wire |-> <<>>]
  /\ copy = [v \in Script |-> Inactive(0)]
  /\ ask = [v \in Script |-> Asking("fetch")]
  /\ heard = FALSE /\ cuts = 0

-----------------------------------------------------------------------------
(* The server.                                                             *)

Broadcast ==
  /\ Roomy
  /\ link' = IF link.open THEN [link EXCEPT !.wire = Append(@, host'.rec)] ELSE link

\* Mutant: the status of a running recording is not repeated.
PublishStatusOnce ==
  HostRecording /\ Roomy /\ UNCHANGED <<host, link, copy, ask, heard, cuts>>

\* publish: while a recording is active, its status goes out every interval.
PublishStatus ==
  /\ HostRecording /\ UNCHANGED host /\ Broadcast
  /\ UNCHANGED <<copy, ask, heard, cuts>>

\* The timer stops the recording: inactive at once, its status broadcast when
\* the files are closed.
AutoStop ==
  /\ HostRecording
  /\ host' = [host EXCEPT !.rec[2] = FALSE, !.closing = TRUE]
  /\ UNCHANGED <<link, copy, ask, heard, cuts>>

FinishStop ==
  /\ host.closing
  /\ host' = [host EXCEPT !.closing = FALSE] /\ Broadcast
  /\ UNCHANGED <<copy, ask, heard, cuts>>

NewRecording ==
  /\ ~HostRecording /\ host.rec[1] < MaxRecord
  /\ host' = [host EXCEPT !.rec = Active(@[1] + 1)] /\ Broadcast

\* Another page starts a recording.
StartElsewhere == NewRecording /\ UNCHANGED <<copy, ask, heard, cuts>>

Answer(v, ok) ==
  ask' = [ask EXCEPT ![v].done = TRUE, ![v].ok = ok, ![v].rec = host'.rec]

\* The server answers a request of the page; a start fails while a recording
\* is active, or for its label or its files.
Serve(v) ==
  /\ ~ask[v].done
  /\ \/ ask[v].kind = "fetch" /\ UNCHANGED <<host, link>> /\ Answer(v, TRUE)
     \/ ask[v].kind = "start" /\ NewRecording /\ Answer(v, TRUE)
     \/ ask[v].kind = "start" /\ UNCHANGED <<host, link>> /\ Answer(v, FALSE)
     \/ /\ ask[v].kind = "stop"
        /\ host' = [host EXCEPT !.rec[2] = FALSE] /\ Broadcast /\ Answer(v, TRUE)
  /\ UNCHANGED <<copy, heard, cuts>>

-----------------------------------------------------------------------------
(* The event stream.                                                       *)

\* openEventStream sends the status of the recording.
Reconnect ==
  /\ ~link.open
  /\ link' = [open |-> TRUE, wire |-> <<host.rec>>]
  /\ UNCHANGED <<host, copy, ask, heard, cuts>>

Cut ==
  /\ link.open /\ cuts < MaxCut /\ cuts' = cuts + 1
  /\ link' = [open |-> FALSE, wire |-> <<>>]
  /\ UNCHANGED <<host, copy, ask, heard>>

\* parse and emit: every script that has subscribed takes the event.
Hear ==
  /\ link.wire # <<>>
  /\ link' = [link EXCEPT !.wire = Tail(@)]
  /\ copy' = [v \in Script |-> IF v = "core" /\ ~heard THEN copy[v] ELSE Head(link.wire)]
  /\ UNCHANGED <<host, ask, heard, cuts>>

-----------------------------------------------------------------------------
(* The page.                                                               *)

\* startRecording and startPositionRecording: the buttons are enabled while
\* the script believes no recording is active.
ClickStart(v) ==
  /\ ask[v] = Unasked /\ ~copy[v][2]
  /\ ask' = [ask EXCEPT ![v] = Asking("start")]
  /\ UNCHANGED <<host, link, copy, heard, cuts>>

\* stopRecording: Stop is enabled while the core believes one is active.
ClickStop ==
  /\ ask["core"] = Unasked /\ copy["core"][2]
  /\ ask' = [ask EXCEPT !["core"] = Asking("stop")]
  /\ UNCHANGED <<host, link, copy, heard, cuts>>

TakeReply(v) ==
  /\ ask[v].done
  /\ copy' = IF ask[v].ok THEN [copy EXCEPT ![v] = ask[v].rec] ELSE copy
  /\ ask' = [ask EXCEPT ![v] = Unasked]
  /\ heard' = (heard \/ v = "core")
  /\ UNCHANGED <<host, link, cuts>>

ViewsNext ==
  \/ PublishStatus \/ AutoStop \/ FinishStop \/ StartElsewhere
  \/ Reconnect \/ Cut \/ Hear \/ ClickStop
  \/ \E v \in Script : Serve(v) \/ ClickStart(v) \/ TakeReply(v)

\* The publish timer fires, files close, the browser delivers events and
\* reconnects, and the core's requests at load succeed.
ViewsFairness ==
  /\ WF_viewVars(PublishStatus) /\ WF_viewVars(FinishStop)
  /\ WF_viewVars(Reconnect) /\ WF_viewVars(Hear)
  /\ WF_viewVars(Serve("core")) /\ WF_viewVars(TakeReply("core"))

ViewsSpec == ViewsInit /\ [][ViewsNext]_viewVars /\ ViewsFairness

-----------------------------------------------------------------------------
\* Every script learns of a recording that goes on, whoever started it, over
\* lost connections, late replies and the fetch at load: the stop button is
\* never lost (publish, openEventStream, renderRecording, boot).
RecordingIsSeen ==
  \A v \in Script, r \in 1..MaxRecord :
    (host.rec = Active(r)) ~> (copy[v] = Active(r) \/ host.rec # Active(r))

\* Every script learns that a recording has ended.
EndIsSeen ==
  \A v \in Script : [](~HostRecording => <>(HostRecording \/ ~copy[v][2]))
=============================================================================
