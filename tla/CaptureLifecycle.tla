-------------------------- MODULE CaptureLifecycle --------------------------
(***************************************************************************)
(* Starting, stopping and suspending capture.  The supervisor, the HTTP    *)
(* server and an updating task call the hooks of app_main, which drive     *)
(* CsiCapture, PingSource and NetworkStreamer; each start of the streamer  *)
(* creates an encode and a network task, which end on their own once they  *)
(* see the running flag down.                                              *)
(*                                                                         *)
(* Abstracted: what a task does with frames and batches (FrameQueue and    *)
(* BatchStream) is reduced to the packet sequence numbers of datagrams;    *)
(* a batch ring is never full; the drain of the frame queue is in          *)
(* FrameQueue.  A stop waits 100 ms: the encode task, which polls every    *)
(* 20 ms, is taken to end within it; the network task, which may be inside *)
(* name resolution, is not.  The locals of a call or a task that is done    *)
(* are back at their initial values.                                       *)
(***************************************************************************)
EXTENDS Integers, Sequences

CONSTANTS Caller,       \* the tasks that call the hooks
          MaxStarts,    \* bound on the starts of the streamer
          MaxSeq        \* bound on packetSeq, for full datagrams and notices

ASSUME CaptureAssumption ==
  /\ Caller # {}
  /\ MaxStarts \in Nat \ {0} /\ MaxSeq \in Nat \ {0}

Gen == 1..MaxStarts    \* a start of the streamer, its socket, ring and tasks
None == 0

VARIABLES
  op, pc, mine,                  \* per caller: hook, progress, its start
  active, pinging,               \* CsiCapture, PingSource
  running, starts, sock, ring,   \* NetworkStreamer
  resolved, address,             \* targetResolved_; targetAddr_ is the collector's
  packetSeq,
  enc, encRing, encSeq,          \* encode tasks
  net, netRing, netBatch,        \* network tasks
  queue,                         \* the contents of each batch ring
  wire, raced                    \* history: datagrams sent; two callers inside

callVars == <<op, pc>>
startVars == <<mine, raced>>
captureVars == <<active, pinging>>
targetVars == <<resolved, address>>
encVars == <<enc, encRing, encSeq>>
netVars == <<net, netRing, netBatch>>
vars == <<callVars, captureVars, running, starts, sock, ring, targetVars,
          packetSeq, encVars, netVars, queue, wire, startVars>>

FlagsOK ==
  /\ active \in BOOLEAN /\ pinging \in BOOLEAN /\ running \in BOOLEAN
  /\ resolved \in BOOLEAN /\ address \in BOOLEAN /\ raced \in BOOLEAN

TypeOK ==
  /\ FlagsOK
  /\ op \in [Caller -> {"none", "start", "stop", "maintenance"}]
  /\ pc \in [Caller -> {"idle", "streamer", "resolve", "csi", "ping", "unping",
                        "uncsi", "notice", "halt", "delay"}]
  /\ mine \in [Caller -> 0..MaxStarts]
  /\ starts \in 0..MaxStarts /\ sock \in 0..MaxStarts /\ ring \in 0..MaxStarts
  /\ packetSeq \in Nat
  /\ enc \in [Gen -> {"none", "refused", "created", "runs", "ended"}]
  /\ net \in [Gen -> {"none", "refused", "created", "loop", "polls", "target",
                      "sends", "ended"}]
  /\ encRing \in [Gen -> 0..MaxStarts] /\ netRing \in [Gen -> 0..MaxStarts]
  /\ encSeq \in [Gen -> Nat] /\ netBatch \in [Gen -> Nat]
  /\ queue \in [Gen -> Seq(Nat)]
  /\ wire \in Seq(Nat)

Init ==
  /\ op = [c \in Caller |-> "none"] /\ pc = [c \in Caller |-> "idle"]
  /\ mine = [c \in Caller |-> None]
  /\ active = FALSE /\ pinging = FALSE /\ running = FALSE
  /\ starts = 0 /\ sock = None /\ ring = None
  /\ resolved = FALSE /\ address = FALSE
  /\ packetSeq = 0
  /\ enc = [g \in Gen |-> "none"] /\ net = [g \in Gen |-> "none"]
  /\ encRing = [g \in Gen |-> None] /\ netRing = [g \in Gen |-> None]
  /\ encSeq = [g \in Gen |-> 0] /\ netBatch = [g \in Gen |-> 0]
  /\ queue = [g \in Gen |-> <<>>]
  /\ wire = <<>> /\ raced = FALSE

EncAlive == {g \in Gen : enc[g] \in {"created", "runs"}}
NetAlive == {g \in Gen : net[g] \notin {"none", "refused", "ended"}}

-----------------------------------------------------------------------------
(* The hooks.                                                              *)

At(c, label) == pc[c] = label
Go(c, label) == pc' = [pc EXCEPT ![c] = label]
Done(c) == /\ pc' = [pc EXCEPT ![c] = "idle"]
           /\ op' = [op EXCEPT ![c] = "none"]

\* captureStart returns at once when capture is active.
CallStart(c) ==
  /\ At(c, "idle") /\ ~active
  /\ op' = [op EXCEPT ![c] = "start"]
  /\ Go(c, "streamer")
  /\ UNCHANGED <<captureVars, running, starts, sock, ring, targetVars,
                 packetSeq, encVars, netVars, queue, wire, startVars>>

CallStop(c, kind) ==
  /\ At(c, "idle") /\ (kind = "maintenance" => packetSeq < MaxSeq)
  /\ op' = [op EXCEPT ![c] = kind]
  /\ Go(c, "unping")
  /\ UNCHANGED <<captureVars, running, starts, sock, ring, targetVars,
                 packetSeq, encVars, netVars, queue, wire, startVars>>

\* Between the test of running_ and its setting, or in the 100 ms of a stop.
Inside(c) == At(c, "resolve") \/ At(c, "delay")

\* NetworkStreamer::start up to name resolution.  The address, the ring or the
\* socket may fail, and captureStart then gives up: the new address is there
\* by the second, the new ring by the third.  Nothing keeps another caller out.
StreamerOpen(c) ==
  /\ At(c, "streamer")
  /\ \/ /\ running
        /\ Go(c, "csi")
        /\ UNCHANGED <<op, mine, starts, sock, ring, address, raced>>
     \/ /\ ~running /\ starts < MaxStarts
        /\ starts' = starts + 1
        /\ ring' = starts + 1
        /\ address' = FALSE
        /\ raced' = (raced \/ \E d \in Caller : Inside(d))
        /\ \/ /\ sock' = starts + 1
              /\ mine' = [mine EXCEPT ![c] = starts + 1]
              /\ Go(c, "resolve")
              /\ UNCHANGED op
           \/ sock' = None /\ Done(c) /\ UNCHANGED mine
     \/ /\ ~running
        /\ address' \in {address, FALSE}
        /\ Done(c)
        /\ UNCHANGED <<mine, starts, sock, ring, raced>>
  /\ UNCHANGED <<captureVars, running, resolved, packetSeq, encVars, netVars,
                 queue, wire>>

\* resolveTarget clears the address first and sets targetResolved_ only on
\* success; then the flag goes up and the tasks are created.  What xTaskCreate
\* returns is ignored: either task may be missing.
StreamerRun(c) ==
  /\ At(c, "resolve")
  /\ \E ok \in BOOLEAN : address' = ok /\ resolved' = (resolved \/ ok)
  /\ running' = TRUE
  /\ \E e, n \in {"created", "refused"} :
       /\ enc' = [enc EXCEPT ![mine[c]] = e]
       /\ net' = [net EXCEPT ![mine[c]] = n]
  /\ mine' = [mine EXCEPT ![c] = None]
  /\ Go(c, "csi")
  /\ UNCHANGED <<op, captureVars, starts, sock, ring, packetSeq, encRing,
                 encSeq, netRing, netBatch, queue, wire, raced>>

\* Mutant: a failed CSI start leaves the streamer running.
CsiStartLeaves(c) ==
  /\ At(c, "csi")
  /\ \/ active' = TRUE /\ Go(c, "ping") /\ UNCHANGED op
     \/ Done(c) /\ UNCHANGED active
  /\ UNCHANGED <<pinging, running, starts, sock, ring, targetVars, packetSeq,
                 encVars, netVars, queue, wire, startVars>>

\* CsiCapture::start; when it fails the streamer is stopped again.
CsiStart(c) ==
  /\ At(c, "csi")
  /\ \/ active' = TRUE /\ Go(c, "ping")
     \/ Go(c, "halt") /\ UNCHANGED active
  /\ UNCHANGED <<op, pinging, running, starts, sock, ring, targetVars,
                 packetSeq, encVars, netVars, queue, wire, startVars>>

\* Controlled mode pings the gateway, if it is known by now.
PingStart(c) ==
  /\ At(c, "ping")
  /\ pinging' \in {pinging, TRUE}
  /\ Done(c)
  /\ UNCHANGED <<active, running, starts, sock, ring, targetVars, packetSeq,
                 encVars, netVars, queue, wire, startVars>>

PingStop(c) ==
  /\ At(c, "unping")
  /\ pinging' = FALSE
  /\ Go(c, "uncsi")
  /\ UNCHANGED <<op, active, running, starts, sock, ring, targetVars,
                 packetSeq, encVars, netVars, queue, wire, startVars>>

CsiStop(c) ==
  /\ At(c, "uncsi")
  /\ active' = FALSE
  /\ Go(c, IF op[c] = "maintenance" THEN "notice" ELSE "halt")
  /\ UNCHANGED <<op, pinging, running, starts, sock, ring, targetVars,
                 packetSeq, encVars, netVars, queue, wire, startVars>>

\* Mutant: the notice does not draw a packetSeq of its own.
NoticeReuses(c) ==
  /\ At(c, "notice")
  /\ wire' = IF sock # None /\ resolved THEN Append(wire, packetSeq) ELSE wire
  /\ Go(c, "halt")
  /\ UNCHANGED <<op, captureVars, running, starts, sock, ring, targetVars,
                 packetSeq, encVars, netVars, queue, startVars>>

\* sendMaintenanceNotice.
Notice(c) ==
  /\ At(c, "notice")
  /\ IF sock # None /\ resolved
     THEN wire' = Append(wire, packetSeq) /\ packetSeq' = packetSeq + 1
     ELSE UNCHANGED <<wire, packetSeq>>
  /\ Go(c, "halt")
  /\ UNCHANGED <<op, captureVars, running, starts, sock, ring, targetVars,
                 encVars, netVars, queue, startVars>>

\* NetworkStreamer::stop: nothing when not running, else the flag goes down.
Halt(c) ==
  /\ At(c, "halt")
  /\ IF running THEN running' = FALSE /\ Go(c, "delay") /\ UNCHANGED op
                ELSE Done(c) /\ UNCHANGED running
  /\ UNCHANGED <<captureVars, starts, sock, ring, targetVars, packetSeq,
                 encVars, netVars, queue, wire, startVars>>

\* The tasks have had their 100 ms; the socket is closed.
Close(c) ==
  /\ At(c, "delay")
  /\ ~running => EncAlive = {}
  /\ sock' = None
  /\ Done(c)
  /\ UNCHANGED <<captureVars, running, starts, ring, targetVars, packetSeq,
                 encVars, netVars, queue, wire, startVars>>

-----------------------------------------------------------------------------
(* The encode tasks.                                                       *)

\* The task looks up batchRing_ and begins a datagram.
EncBegin(g) ==
  /\ enc[g] = "created"
  /\ enc' = [enc EXCEPT ![g] = "runs"]
  /\ encRing' = [encRing EXCEPT ![g] = ring]
  /\ encSeq' = [encSeq EXCEPT ![g] = packetSeq]
  /\ packetSeq' = packetSeq + 1
  /\ UNCHANGED <<callVars, captureVars, running, starts, sock, ring,
                 targetVars, netVars, queue, wire, startVars>>

\* A datagram is full or flushed, and the next one is begun; the pass that
\* reads the flag down is the last, so the model allows more pushes then.
EncPush(g) ==
  /\ enc[g] = "runs" /\ packetSeq < MaxSeq
  /\ queue' = [queue EXCEPT ![encRing[g]] = Append(@, encSeq[g])]
  /\ encSeq' = [encSeq EXCEPT ![g] = packetSeq]
  /\ packetSeq' = packetSeq + 1
  /\ UNCHANGED <<callVars, captureVars, running, starts, sock, ring,
                 targetVars, enc, encRing, netVars, wire, startVars>>

EncEnd(g) ==
  /\ enc[g] = "runs" /\ ~running
  /\ enc' = [enc EXCEPT ![g] = "ended"]
  /\ encRing' = [encRing EXCEPT ![g] = None] /\ encSeq' = [encSeq EXCEPT ![g] = 0]
  /\ UNCHANGED <<callVars, captureVars, running, starts, sock, ring,
                 targetVars, packetSeq, netVars, queue, wire,
                 startVars>>

-----------------------------------------------------------------------------
(* The network tasks.                                                      *)

NetBegin(g) ==
  /\ net[g] = "created"
  /\ net' = [net EXCEPT ![g] = "loop"]
  /\ netRing' = [netRing EXCEPT ![g] = ring]
  /\ UNCHANGED <<callVars, captureVars, running, starts, sock, ring,
                 targetVars, packetSeq, encVars, netBatch, queue, wire,
                 startVars>>

\* Mutant: the loop does not read the flag.
NetIgnoresFlag(g) ==
  /\ net[g] = "loop"
  /\ net' = [net EXCEPT ![g] = "polls"]
  /\ UNCHANGED <<callVars, captureVars, running, starts, sock, ring,
                 targetVars, packetSeq, encVars, netRing, netBatch, queue,
                 wire, startVars>>

\* The loop reads the flag, and then only.
NetLoop(g) ==
  /\ net[g] = "loop"
  /\ IF running
     THEN net' = [net EXCEPT ![g] = "polls"] /\ UNCHANGED netRing
     ELSE /\ net' = [net EXCEPT ![g] = "ended"]
          /\ netRing' = [netRing EXCEPT ![g] = None]
  /\ UNCHANGED <<callVars, captureVars, running, starts, sock, ring,
                 targetVars, packetSeq, encVars, netBatch, queue, wire,
                 startVars>>

\* BatchRing::pop, 100 ms at most.
NetPop(g) ==
  /\ net[g] = "polls"
  /\ LET polled == queue[netRing[g]]
     IN  IF polled = <<>>
         THEN /\ net' = [net EXCEPT ![g] = "loop"]
              /\ UNCHANGED <<netBatch, queue>>
         ELSE /\ netBatch' = [netBatch EXCEPT ![g] = Head(polled)]
              /\ queue' = [queue EXCEPT ![netRing[g]] = Tail(@)]
              /\ net' = [net EXCEPT ![g] = IF resolved THEN "sends"
                                                       ELSE "target"]
  /\ UNCHANGED <<callVars, captureVars, running, starts, sock, ring,
                 targetVars, packetSeq, encVars, netRing, wire, startVars>>

\* resolveTarget, or one of the batches dropped between two attempts.
NetResolve(g) ==
  /\ net[g] = "target"
  /\ \/ /\ resolved' = TRUE /\ address' = TRUE
        /\ net' = [net EXCEPT ![g] = "sends"]
        /\ UNCHANGED netBatch
     \/ /\ net' = [net EXCEPT ![g] = "loop"]
        /\ netBatch' = [netBatch EXCEPT ![g] = 0]
        /\ UNCHANGED targetVars
  /\ UNCHANGED <<callVars, captureVars, running, starts, sock, ring,
                 packetSeq, encVars, netRing, queue, wire, startVars>>

\* sendto on whatever the socket is by now.
NetSend(g) ==
  /\ net[g] = "sends"
  /\ wire' = IF sock # None THEN Append(wire, netBatch[g]) ELSE wire
  /\ net' = [net EXCEPT ![g] = "loop"]
  /\ netBatch' = [netBatch EXCEPT ![g] = 0]
  /\ UNCHANGED <<callVars, captureVars, running, starts, sock, ring,
                 targetVars, packetSeq, encVars, netRing, queue, startVars>>

Call(c) == CallStart(c) \/ CallStop(c, "stop") \/ CallStop(c, "maintenance")
Hook(c) == \/ StreamerOpen(c) \/ StreamerRun(c) \/ CsiStart(c) \/ PingStart(c)
           \/ PingStop(c) \/ CsiStop(c) \/ Notice(c) \/ Halt(c) \/ Close(c)
Encoder(g) == EncBegin(g) \/ EncPush(g) \/ EncEnd(g)
Network(g) == \/ NetBegin(g) \/ NetLoop(g) \/ NetPop(g) \/ NetResolve(g)
              \/ NetSend(g)

Next == \/ \E c \in Caller : Call(c) \/ Hook(c)
        \/ \E g \in Gen : Encoder(g) \/ Network(g)

Spec == Init /\ [][Next]_vars

\* Hooks run to completion and the tasks are scheduled; nothing makes a caller
\* call or a datagram fill.
Fairness == /\ \A c \in Caller : WF_vars(Hook(c))
            /\ \A g \in Gen : WF_vars(EncBegin(g)) /\ WF_vars(EncEnd(g))
                              /\ WF_vars(Network(g))

FairSpec == Spec /\ Fairness

-----------------------------------------------------------------------------
(* Properties.                                                             *)

Quiet == \A c \in Caller : At(c, "idle")

\* The frame queue has one consumer: never are two encode tasks alive
\* (FrameRing: "the encode task is the sole consumer").
OneEncoder == \A g, h \in EncAlive : g = h

\* It has, whatever the hooks do to each other elsewhere, unless a start went
\* in while another caller was between the test of running_ and its setting,
\* or in the 100 ms of a stop (NetworkStreamer::start, stop).
OneEncoderUnlessRaced == raced \/ OneEncoder

\* A streamer that says it runs has its two tasks
\* (NetworkStreamer.h: "Starts the UDP socket plus the encode and network
\* tasks.").
StartedMeansTasks ==
  Quiet /\ running => starts \in EncAlive /\ starts \in NetAlive

\* Whatever hooks have overlapped, once none is in progress the streamer does
\* not run without capture; and if no two callers met inside the streamer, it
\* runs with an open socket, and its encode task, if it was created, is alive
\* and on the current ring (captureStart, captureStop, NetworkStreamer).
ActiveMeansStreaming ==
  Quiet /\ running =>
    /\ active
    /\ raced \/ /\ sock # None
                /\ \/ enc[starts] = "refused"
                   \/ enc[starts] = "created"
                   \/ enc[starts] = "runs" /\ encRing[starts] = ring

\* No two datagrams of a boot carry the same packetSeq, whatever tasks draw
\* from the counter (docs/csi-protocol.md: "increments by 1 per datagram").
SeqsUnique == \A i, j \in 1..Len(wire) : wire[i] = wire[j] => i = j

\* Once the flag is down and stays down, the tasks end
\* (NetworkStreamer::stop: "Tasks observe running_ == false and self-delete").
TasksEnd ==
  \A g \in Gen : (g \in EncAlive \/ g \in NetAlive)
                   ~> (running \/ g \notin EncAlive \cup NetAlive)

\* What a network task took before a stop is not sent on the next start's
\* socket (NetworkStreamer.h: "Pending batches are discarded").
SendsOnOwnSocket == \A g \in Gen : net[g] = "sends" => sock \in {g, None}

\* While the collector's address is unknown the network task keeps trying
\* (NetworkStreamer::start: "network task retries if it fails now").
RetriesUntilResolved == Quiet /\ running /\ ~address => ~resolved

-----------------------------------------------------------------------------
(* The inductive invariants.                                               *)

\* Each start has its ring, and a task that has begun has one.
RingsKnown ==
  /\ ring = starts
  /\ \A c \in Caller : At(c, "resolve") => mine[c] # None /\ ring # None
  /\ \A g \in Gen : /\ enc[g] = "created" \/ net[g] = "created" => ring # None
                    /\ enc[g] = "runs" => encRing[g] # None
                    /\ g \in NetAlive /\ net[g] # "created"
                         => netRing[g] # None

\* A streamer that runs without capture has a caller on its way to stop it.
RunningForCapture ==
  running /\ ~active =>
    \E c \in Caller : pc[c] \in {"csi", "notice", "halt"}

\* One caller inside the streamer at a time, and none while the flag is up.
OneInside ==
  /\ \A c, d \in Caller : Inside(c) /\ Inside(d) => c = d
  /\ \A c \in Caller : Inside(c) => ~running
  /\ \A c \in Caller : At(c, "resolve") => mine[c] = starts

\* The encode task that is alive is that of the last start, and the flag is up
\* for a start whose task is alive or was refused; the task outlives the flag
\* only until the socket is closed.
EncoderCurrent ==
  /\ \A g \in EncAlive : g = starts /\ (enc[g] = "runs" => encRing[g] = ring)
  /\ running => /\ starts \in Gen
                /\ enc[starts] \in {"refused", "created", "runs"}
  /\ ~running /\ (\A c \in Caller : ~At(c, "delay")) => EncAlive = {}

\* The socket is that of the last start until the flag is down.
SocketCurrent ==
  running \/ (\E c \in Caller : At(c, "resolve")) => sock = starts

NotRaced == OneInside /\ EncoderCurrent /\ SocketCurrent

CaptureIInv == TypeOK /\ RingsKnown /\ RunningForCapture /\ (raced \/ NotRaced)

\* The places a packetSeq can be: sent, in a batch ring, in the datagram an
\* encode task is filling or in the one a network task has taken.
Items(s) == {s[i] : i \in 1..Len(s)}
OnWire == <<"wire", 1>>
Place == {OnWire} \cup {"queue", "built", "taken"} \X Gen

Held(p) ==
  CASE p[1] = "wire"  -> Items(wire)
    [] p[1] = "queue" -> Items(queue[p[2]])
    [] p[1] = "built" -> {encSeq[g] : g \in {h \in {p[2]} : enc[h] = "runs"}}
    [] p[1] = "taken" -> {netBatch[g] : g \in {h \in {p[2]} : net[h] \in {"target", "sends"}}}

SeqsDrawn == \A p \in Place : \A n \in Held(p) : n \in Nat /\ n < packetSeq
OnePlace == \A p, q \in Place : \A n \in Held(p) : n \in Held(q) => p = q

Distinct(s) == \A i, j \in 1..Len(s) : s[i] = s[j] => i = j
RingsDistinct == \A g \in Gen : Distinct(queue[g])

SeqsIInv ==
  TypeOK /\ RingsKnown /\ SeqsDrawn /\ OnePlace /\ RingsDistinct /\ SeqsUnique
=============================================================================
