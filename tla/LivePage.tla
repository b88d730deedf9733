------------------------------- MODULE LivePage -------------------------------
(***************************************************************************)
(* The dashboard page's live view: snapshots the server publishes over an  *)
(* event stream that breaks and reconnects, the page's own check on their  *)
(* sequence, and its refusal of implausible jumps between trained zones    *)
(* (apps/dashboard/public/dashboard-stream.js, openEventStream, publish).  *)
(***************************************************************************)
EXTENDS Naturals, Sequences

CONSTANTS
  Spot,         \* the zones of the model
  Beside,       \* BAR_ZONE_NEIGHBORS, as a set of pairs
  Nowhere,      \* no accepted zone
  HoldTicks,    \* 1200 ms
  MaxPublish,   \* bound: snapshots of the last run, two fewer in each earlier one
  MaxTick, MaxBreak,  \* bounds
  MaxRestart    \* bound: restarts of the server

ASSUME PageAssumption ==
  /\ Beside \subseteq Spot \X Spot /\ Nowhere \notin Spot
  /\ HoldTicks \in Nat \ {0} /\ MaxPublish \in Nat /\ MaxRestart \in Nat

VARIABLES
  now,       \* ticks of the page's clock
  server,    \* the snapshot published last, its sequence and the run it is of
  open,      \* the event stream is connected
  wire,      \* snapshots sent over it and not yet received
  page,      \* RfSenseDashboardStream.state and what is drawn from it
  reported,  \* when each zone was last received as the server's (a ghost)
  breaks     \* connections broken so far

pageVars == <<now, server, open, wire, page, reported, breaks>>

Snapshot0 == [run |-> 0, seq |-> 0, zone |-> Nowhere, sure |-> FALSE, clear |-> FALSE]

PageInit ==
  /\ now = 0 /\ server = Snapshot0 /\ open = FALSE /\ wire = <<>> /\ breaks = 0
  /\ page = [run |-> 0, seq |-> 0, shown |-> Nowhere, last |-> Nowhere,
             lastAt |-> 0, at |-> 0]
  /\ reported = [z \in Spot |-> 0]

\* publish: a snapshot of the engine, with the next sequence number, goes to
\* every client.
PublishSnapshot ==
  /\ server.seq + 2 * (MaxRestart - server.run) < MaxPublish
  /\ \E z \in Spot \cup {Nowhere}, sure, clear \in BOOLEAN :
       /\ z = Nowhere => ~sure
       /\ z # Nowhere => ~clear
       /\ server' = [server EXCEPT !.seq = @ + 1, !.zone = z, !.sure = sure, !.clear = clear]
  /\ wire' = IF open THEN Append(wire, server') ELSE wire
  /\ UNCHANGED <<now, open, page, reported, breaks>>

\* openEventStream sends the snapshot published last; EventSource connects by
\* itself, again after a break.
Connect ==
  /\ ~open /\ open' = TRUE /\ wire' = <<server>>
  /\ UNCHANGED <<now, server, page, reported, breaks>>

\* The connection breaks with what was on its way.
Break ==
  /\ open /\ breaks < MaxBreak /\ breaks' = breaks + 1
  /\ open' = FALSE /\ wire' = <<>>
  /\ UNCHANGED <<now, server, page, reported>>

\* The server starts again, with its sequence from nothing.
Restart ==
  /\ server.run < MaxRestart
  /\ server' = [Snapshot0 EXCEPT !.run = server.run + 1]
  /\ open' = FALSE /\ wire' = <<>>
  /\ UNCHANGED <<now, page, reported, breaks>>

\* Mutant: a held zone counts as shown anew.
GuardRefreshing(p, e) ==
  IF e.zone = Nowhere
    THEN [p EXCEPT !.shown = Nowhere, !.last = IF e.clear THEN Nowhere ELSE @]
  ELSE IF /\ p.last \notin {Nowhere, e.zone} /\ now - p.lastAt < HoldTicks
          /\ ~e.sure /\ <<p.last, e.zone>> \notin Beside
    THEN [p EXCEPT !.shown = p.last, !.lastAt = now]
  ELSE [p EXCEPT !.shown = e.zone, !.last = e.zone, !.lastAt = now]

\* guardCoarseTransition: a jump to a zone not beside the last one, soon and
\* unsure, leaves the last one shown.
Guard(p, e) ==
  IF e.zone = Nowhere
    THEN [p EXCEPT !.shown = Nowhere, !.last = IF e.clear THEN Nowhere ELSE @]
  ELSE IF /\ p.last \notin {Nowhere, e.zone} /\ now - p.lastAt < HoldTicks
          /\ ~e.sure /\ <<p.last, e.zone>> \notin Beside
    THEN [p EXCEPT !.shown = p.last]
  ELSE [p EXCEPT !.shown = e.zone, !.last = e.zone, !.lastAt = now]

\* Mutant: a snapshot is taken only if it is the very next.
ReceiveNextOnly ==
  /\ wire # <<>> /\ wire' = Tail(wire)
  /\ LET e == Head(wire)
     IN  IF e.seq # page.seq + 1 THEN UNCHANGED <<page, reported>>
         ELSE /\ page' = [Guard(page, e) EXCEPT !.run = e.run, !.seq = e.seq, !.at = now]
              /\ reported' = IF e.zone = Nowhere THEN reported
                             ELSE [reported EXCEPT ![e.zone] = now]
  /\ UNCHANGED <<now, server, open, breaks>>

\* parse: a snapshot is taken if its sequence is beyond the last one taken.
Receive ==
  /\ wire # <<>> /\ wire' = Tail(wire)
  /\ LET e == Head(wire)
     IN  IF e.seq <= page.seq THEN UNCHANGED <<page, reported>>
         ELSE /\ page' = [Guard(page, e) EXCEPT !.run = e.run, !.seq = e.seq, !.at = now]
              /\ reported' = IF e.zone = Nowhere THEN reported
                             ELSE [reported EXCEPT ![e.zone] = now]
  /\ UNCHANGED <<now, server, open, breaks>>

Tick ==
  /\ now < MaxTick /\ now' = now + 1
  /\ UNCHANGED <<server, open, wire, page, reported, breaks>>

PageNext == PublishSnapshot \/ Connect \/ Break \/ Restart \/ Receive \/ Tick

\* The browser delivers what arrives, and EventSource retries.
PageFairness == WF_pageVars(Receive) /\ WF_pageVars(Connect)
PageSpec == PageInit /\ [][PageNext]_pageVars /\ PageFairness

-----------------------------------------------------------------------------
(* Properties.                                                             *)

\* A zone the page shows was the server's within the hold time of the
\* snapshot it is drawn from, however the server's estimates jump to and fro:
\* the hold never feeds itself (guardCoarseTransition).
HeldZoneIsRecent ==
  page.shown # Nowhere => page.at - reported[page.shown] < HoldTicks

\* What a run of the server has published, or something newer of the same run,
\* is eventually drawn, over every break of the stream, unless the server starts
\* again first.  After a restart this begins when the run's numbers pass those
\* drawn from the run before: until then the page takes nothing, and a number
\* left from that run does not count as having caught up (parse,
\* openEventStream).
PageCatchesUp ==
  \A r \in 0..MaxRestart, n \in 1..MaxPublish :
    /\ server.run = r /\ server.seq >= n
    /\ page.run = r \/ n > page.seq
    ~> (page.run = r /\ page.seq >= n) \/ server.run > r

\* A snapshot newer than the one drawn is drawn when it is received, a
\* restarted server's too (parse).
NewSnapshotIsDrawn ==
  [][wire # <<>> /\ Len(wire') = Len(wire) - 1 /\ Head(wire).run > page.run
       => page'.run = Head(wire).run]_pageVars

-----------------------------------------------------------------------------
(* The inductive invariant.                                                *)

Published == [run : Nat, seq : Nat, zone : Spot \cup {Nowhere}, sure : BOOLEAN, clear : BOOLEAN]
Drawn == [run : Nat, seq : Nat, shown : Spot \cup {Nowhere}, last : Spot \cup {Nowhere},
          lastAt : Nat, at : Nat]

PageTypeOK ==
  /\ now \in Nat /\ server \in Published /\ wire \in Seq(Published)
  /\ page \in Drawn /\ reported \in [Spot -> Nat]

\* What is shown is the zone that was accepted last, within the hold time of
\* when it was, which is when the server last reported it.
HeldIsLast ==
  /\ page.shown # Nowhere => page.shown = page.last /\ page.at - page.lastAt < HoldTicks
  /\ page.last # Nowhere => reported[page.last] = page.lastAt

PageIInv == PageTypeOK /\ HeldIsLast
=============================================================================
