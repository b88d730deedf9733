------------------------- MODULE DashboardRecorder -------------------------
(***************************************************************************)
(* The dashboard's recorder: start and stop are asynchronous and are       *)
(* called from HTTP requests, the publishing timer and the shutdown;       *)
(* datagrams are written in between.  A step is what the event loop runs   *)
(* between two awaits.                                                     *)
(*                                                                         *)
(* Abstracted: the binary and the JSONL stream, always set and ended       *)
(* together, are one; targets and quality, so that a recording may be      *)
(* ready to stop at any time; labels.  Recordings are numbered, as their   *)
(* names are time stamps.  A disk error ends the process while datagrams   *)
(* are written, as nothing listens for the streams' errors; a stop that    *)
(* ends them listens, and is refused, as is a request whose metadata       *)
(* cannot be written.  Two writes of one metadata file do not mix.         *)
(***************************************************************************)
EXTENDS Naturals, FiniteSets

CONSTANTS Request,         \* requests that may be in progress at once
          MaxRecordings, MaxDatagrams   \* bounds

ASSUME RecorderAssumption == MaxRecordings \in Nat /\ MaxDatagrams \in Nat

Recording == 1..MaxRecordings
None == 0

VARIABLES
  pc, kind,                \* per request: its progress, and what it is
  content, target,         \* per request: the metadata it writes, and where to
  active, name, datagrams, \* statusValue
  supplement,              \* supplementalMetadata: the start it came with
  stream,                  \* bin and jsonl
  recordings,              \* recordings so far
  ended, written,          \* per recording: streams ended, datagrams in them
  meta,                    \* per recording: its metadata file
  origin,                  \* history: the request behind each recording
  lost,                    \* history: recordings a datagram is missing from
  mixed,                   \* history: starts being carried out during which
                           \* another start or a stop was
  crossed,                 \* history: recordings of such a start, and those
                           \* during whose stop a start was let through
  failed,                  \* history: recordings whose stop met a disk error
  up                       \* the process runs

requestVars == <<pc, kind, content, target>>
statusVars == <<active, name, datagrams, supplement>>
fileVars == <<recordings, ended, written, origin>>
historyVars == <<lost, mixed, crossed, failed>>
vars == <<requestVars, statusVars, stream, fileVars, meta, historyVars, up>>

Content == [name : Recording \cup {None}, complete : BOOLEAN,
            datagrams : 0..MaxDatagrams, by : Request \cup {None}]
NoContent == [name |-> None, complete |-> FALSE, datagrams |-> 0, by |-> None]

TypeOK ==
  /\ pc \in [Request -> {"idle", "body", "mkdir", "ending", "metadir", "meta"}]
  /\ kind \in [Request -> {"none", "start", "stop", "shutdown"}]
  /\ content \in [Request -> Content]
  /\ target \in [Request -> Recording \cup {None}]
  /\ active \in BOOLEAN /\ up \in BOOLEAN
  /\ name \in Recording \cup {None}
  /\ datagrams \in 0..MaxDatagrams
  /\ supplement \in Request \cup {None}
  /\ stream \in Recording \cup {None}
  /\ recordings \in 0..MaxRecordings
  /\ ended \subseteq Recording
  /\ written \in [Recording -> 0..MaxDatagrams]
  /\ meta \in [Recording -> Content]
  /\ origin \in [Recording -> Request \cup {None}]
  /\ lost \subseteq Recording /\ mixed \subseteq Request
  /\ crossed \subseteq Recording \cup {None}
  /\ failed \subseteq Recording \cup {None}

Init ==
  /\ pc = [r \in Request |-> "idle"] /\ kind = [r \in Request |-> "none"]
  /\ content = [r \in Request |-> NoContent]
  /\ target = [r \in Request |-> None]
  /\ active = FALSE /\ name = None /\ datagrams = 0 /\ supplement = None
  /\ stream = None
  /\ recordings = 0 /\ ended = {} /\ written = [k \in Recording |-> 0]
  /\ meta = [k \in Recording |-> NoContent]
  /\ origin = [k \in Recording |-> None]
  /\ lost = {} /\ mixed = {} /\ crossed = {} /\ failed = {}
  /\ up = TRUE

-----------------------------------------------------------------------------
At(r, label) == up /\ pc[r] = label
Go(r, label) == pc' = [pc EXCEPT ![r] = label]

\* The request returns or is refused: what it worked with is gone.
Return(r) ==
  /\ Go(r, "idle")
  /\ kind' = [kind EXCEPT ![r] = "none"]
  /\ content' = [content EXCEPT ![r] = NoContent]
  /\ target' = [target EXCEPT ![r] = None]

\* A start request, whose body is read first.
StartRequest(r) ==
  /\ At(r, "idle") /\ recordings < MaxRecordings
  /\ kind' = [kind EXCEPT ![r] = "start"]
  /\ Go(r, "body")
  /\ UNCHANGED <<content, target, statusVars, stream, fileVars, meta,
                 historyVars, up>>

\* start up to its first await: it is refused for the recording that is active
\* or for its label, or lets itself in, whatever is still on its way.
Start(r) ==
  /\ At(r, "body")
  /\ \/ Return(r) /\ UNCHANGED <<supplement, mixed, crossed>>
     \/ /\ ~active
        /\ supplement' = r
        /\ Go(r, "mkdir") /\ UNCHANGED <<kind, content, target>>
        /\ LET starts == {q \in Request : pc[q] = "mkdir"}
               stops == {q \in Request : pc[q] \in {"ending", "metadir"}}
           IN  /\ mixed' = IF starts \cup stops = {} THEN mixed
                           ELSE mixed \cup starts \cup {r}
               /\ crossed' = crossed \cup {name : q \in stops}
  /\ UNCHANGED <<active, name, datagrams, stream, fileVars, meta, lost, failed,
                 up>>

\* The directory cannot be made.
MkdirFails(r) ==
  /\ At(r, "mkdir")
  /\ mixed' = mixed \ {r}
  /\ Return(r)
  /\ UNCHANGED <<statusVars, stream, fileVars, meta, lost, crossed, failed, up>>

\* What flushMeta puts in the file is decided when it is called.
Flush(r, complete) ==
  content' = [content EXCEPT ![r] =
                [name |-> name', complete |-> complete,
                 datagrams |-> datagrams', by |-> supplement']]

\* Mutant: the counters of the previous recording are kept.
OpenKeepsCount(r) ==
  /\ At(r, "mkdir") /\ recordings < MaxRecordings
  /\ LET k == recordings + 1
     IN  /\ recordings' = k /\ name' = k /\ stream' = k
         /\ origin' = [origin EXCEPT ![k] = r]
         /\ crossed' = crossed \cup {k : q \in mixed \cap {r}}
  /\ mixed' = mixed \ {r}
  /\ active' = TRUE
  /\ UNCHANGED <<datagrams, supplement>>
  /\ Flush(r, FALSE)
  /\ Go(r, "metadir")
  /\ UNCHANGED <<kind, target, ended, written, meta, lost, failed, up>>

\* The streams are created and the recording becomes the active one.
Open(r) ==
  /\ At(r, "mkdir") /\ recordings < MaxRecordings
  /\ LET k == recordings + 1
     IN  /\ recordings' = k /\ name' = k /\ stream' = k
         /\ origin' = [origin EXCEPT ![k] = r]
         /\ crossed' = crossed \cup {k : q \in mixed \cap {r}}
  /\ mixed' = mixed \ {r}
  /\ active' = TRUE /\ datagrams' = 0
  /\ UNCHANGED supplement
  /\ Flush(r, FALSE)
  /\ Go(r, "metadir")
  /\ UNCHANGED <<kind, target, ended, written, meta, lost, failed, up>>

\* flushMeta after its mkdir: the path is the current recording's.
MetaDir(r) ==
  /\ At(r, "metadir")
  /\ target' = [target EXCEPT ![r] = name]
  /\ Go(r, "meta")
  /\ UNCHANGED <<kind, content, statusVars, stream, fileVars, meta,
                 historyVars, up>>

WriteMeta(r) ==
  /\ At(r, "meta")
  /\ meta' = [meta EXCEPT ![target[r]] = content[r]]
  /\ Return(r)
  /\ UNCHANGED <<statusVars, stream, fileVars, historyVars, up>>

\* flushMeta meets a disk error, which may leave a torn file: the request is
\* refused.  (For the shutdown the error ends the process.)
FlushFails(r) ==
  /\ pc[r] \in {"metadir", "meta"} /\ kind[r] # "shutdown" /\ up
  /\ LET k == IF pc[r] = "metadir" THEN name ELSE target[r]
     IN  /\ failed' = IF kind[r] = "start" THEN failed ELSE failed \cup {k}
         /\ \/ UNCHANGED meta
            \/ pc[r] = "meta" /\ meta' = [meta EXCEPT ![k] = NoContent]
  /\ Return(r)
  /\ UNCHANGED <<statusVars, stream, fileVars, lost, mixed, crossed, up>>

\* stop up to its await: by a request, by the timer that finds the recording
\* ready, or by the shutdown.  A recorder that is not active is left alone.
Stop(r, why) ==
  /\ At(r, "idle") /\ active
  /\ active' = FALSE
  /\ kind' = [kind EXCEPT ![r] = why]
  /\ Go(r, "ending")
  /\ ended' = ended \cup ({stream} \ {None})
  /\ UNCHANGED <<content, target, name, datagrams, supplement, stream,
                 recordings, written, origin, meta, historyVars, up>>

\* Mutant: stop forgets the mark it was asked for.
EndedUnmarked(r) ==
  /\ At(r, "ending")
  /\ stream' = None
  /\ UNCHANGED statusVars
  /\ Flush(r, FALSE)
  /\ Go(r, "metadir")
  /\ UNCHANGED <<kind, target, fileVars, meta, historyVars, up>>

\* Both streams have ended.
Ended(r) ==
  /\ At(r, "ending")
  /\ stream' = None
  /\ UNCHANGED statusVars
  /\ Flush(r, kind[r] # "shutdown")
  /\ Go(r, "metadir")
  /\ UNCHANGED <<kind, target, fileVars, meta, historyVars, up>>

\* A stream cannot be ended: the stop is refused and nothing else is done.
\* (For the shutdown the error ends the process.)
EndFails(r) ==
  /\ At(r, "ending") /\ kind[r] # "shutdown"
  /\ failed' = failed \cup {name}
  /\ Return(r)
  /\ UNCHANGED <<statusVars, stream, fileVars, meta, lost, mixed, crossed, up>>

\* write and writeProtocolV2.
Write ==
  /\ up /\ active /\ datagrams < MaxDatagrams
  /\ IF stream = None THEN UNCHANGED <<datagrams, written>>
     ELSE /\ datagrams' = datagrams + 1
          /\ written' = [written EXCEPT ![stream] =
                           IF stream \in ended THEN @ ELSE @ + 1]
  /\ lost' = IF stream = name /\ stream \notin ended THEN lost
             ELSE lost \cup {name}
  /\ UNCHANGED <<requestVars, active, name, supplement, stream, recordings,
                 ended, origin, meta, mixed, crossed, failed, up>>

\* A crash, or the exit of the shutdown, which may tear metadata being written.
Crash ==
  /\ up
  /\ up' = FALSE
  /\ \E torn \in SUBSET {target[r] : r \in {q \in Request : pc[q] = "meta"}} :
       meta' = [k \in Recording |-> IF k \in torn THEN NoContent ELSE meta[k]]
  /\ UNCHANGED <<requestVars, statusVars, stream, fileVars, historyVars>>

Run(r) == \/ Start(r) \/ Open(r) \/ MetaDir(r) \/ WriteMeta(r) \/ Ended(r)

Next == \/ \E r \in Request : \/ StartRequest(r) \/ Run(r)
                              \/ Stop(r, "stop") \/ Stop(r, "shutdown")
                              \/ MkdirFails(r) \/ FlushFails(r) \/ EndFails(r)
        \/ Write \/ Crash

Spec == Init /\ [][Next]_vars

\* The event loop runs, and mkdir, the streams and writeFile return.
FairSpec == Spec /\ \A r \in Request : WF_vars(Run(r))

-----------------------------------------------------------------------------
(* Properties.                                                             *)

\* A recording marked complete is ended, its metadata are its own, from the
\* request that started it, and count every datagram in its files: what the
\* trainers rely on when they take complete recordings only.  No datagram
\* that came while it was active is missing from its files.  Excepted is a
\* recording a start was let through for, or against, while another start or
\* a stop was on its way (start, stop, write, flushMeta).
CompleteIsWhole ==
  /\ \A k \in Recording \ crossed : meta[k].complete =>
       /\ k \in ended
       /\ meta[k].name = k /\ meta[k].by = origin[k]
       /\ meta[k].datagrams = written[k]
  /\ lost \subseteq crossed

Final(k, complete) ==
  /\ k \in ended
  /\ meta[k].name = k /\ meta[k].complete = complete
  /\ meta[k].datagrams = written[k]

\* The requests past their check, until they return.
Underway == {r \in Request : pc[r] \notin {"idle", "body"}}

StopBegun(r, k, complete) ==
  /\ pc[r] = "ending" /\ kind[r] = (IF complete THEN "stop" ELSE "shutdown")
  /\ name = k /\ Underway = {r}

\* Once start has returned, a stop closes the recording for good: its metadata
\* become and stay final, with the mark of the request or of the shutdown, and
\* no older metadata are written over them, unless the process goes down
\* first, the stop is refused for a disk error, or a start is let through while
\* it is on its way (stop, flushMeta).
StopIsFinal ==
  \A r \in Request, k \in Recording, c \in BOOLEAN :
    StopBegun(r, k, c) ~> [](up /\ k \notin crossed \cup failed => Final(k, c))

\* Metadata become final for good: once a recording is closed and nobody has yet
\* to write its metadata, no request, timer, error or shutdown that comes later,
\* however they cross, changes them or the files they count (start, stop, write,
\* flushMeta).
Closed(k, complete) ==
  /\ Final(k, complete)
  /\ \A r \in Request : /\ pc[r] \in {"ending", "metadir"} => name # k
                        /\ pc[r] = "meta" => target[r] # k

ClosedStays ==
  [][\A k \in Recording, c \in BOOLEAN : Closed(k, c) => Closed(k, c)']_vars

\* At most one recording is open: "recording already active" refuses a second
\* one (start).
OneRecordingOpen == Cardinality((1..recordings) \ ended) <= 1

-----------------------------------------------------------------------------
(* The inductive invariant.                                                *)

Starting(q) == pc[q] = "mkdir"
Stopping(q) == pc[q] \in {"ending", "metadir"}

\* Recordings to come have ended nowhere and hold nothing; those that are spoken
\* of have begun.
NoneAhead ==
  /\ ended \subseteq 1..recordings
  /\ \A k \in Recording : k > recordings => written[k] = 0
  /\ name \in 0..recordings /\ stream \in 0..recordings
  /\ \A r \in Request : target[r] \in 0..recordings
  /\ active => name # None
  /\ \A r \in Request : Stopping(r) => name # None

\* What is being written is the active recording, not ended, and counted.
StreamIsOwn ==
  active => /\ name \notin ended
            /\ stream # None => stream = name /\ datagrams = written[name]

\* A start that is carried out alone.
StartingAlone ==
  \A r \in Request : Starting(r) /\ r \notin mixed =>
    /\ ~active /\ supplement = r
    /\ \A q \in Request : Starting(q) \/ Stopping(q) => q = r

\* An active recording that nothing crosses is open and being stopped by nobody.
ActiveIsOpen ==
  active /\ name \notin crossed =>
    /\ stream = name /\ supplement = origin[name]
    /\ \A r \in Request : ~Starting(r) /\ pc[r] # "ending"

\* A recording that is being stopped, where nothing crosses it, has ended, with
\* the status that counts it.
EndingIsEnded ==
  \A r \in Request : pc[r] = "ending" /\ name \notin crossed =>
    /\ ~active /\ name \in ended
    /\ datagrams = written[name] /\ supplement = origin[name]
    /\ \A q \in Request : ~Starting(q)

\* Metadata that may be written for recording k.
FitFor(c, k) ==
  /\ c.name = k
  /\ c.complete => k \in ended /\ c.datagrams = written[k] /\ c.by = origin[k]

\* Metadata on their way to the disk are of the recording they were made for.
FlushIsOwn ==
  \A r \in Request :
    /\ pc[r] = "metadir" /\ name \notin crossed => FitFor(content[r], name)
    /\ pc[r] = "meta" /\ target[r] \notin crossed => FitFor(content[r], target[r])

RecorderIInv ==
  /\ TypeOK /\ NoneAhead /\ StreamIsOwn /\ StartingAlone /\ ActiveIsOpen
  /\ EndingIsEnded /\ FlushIsOwn /\ CompleteIsWhole
=============================================================================
