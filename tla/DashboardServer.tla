--------------------------- MODULE DashboardServer ---------------------------
(***************************************************************************)
(* The requests of the four-node dashboard server that train, load and     *)
(* activate a position model, and that start a recording                   *)
(* (apps/dashboard/src/multi-node-web-server.ts), with every await a point *)
(* where other requests run.  A model file is one of two kinds: "xy", run  *)
(* by a LiveXYRuntime, and "zones", run by the engine of each receiver.    *)
(***************************************************************************)
EXTENDS Naturals

CONSTANTS
  Call,         \* requests
  Path,         \* model files
  MaxModel      \* bound: models trained

ASSUME ServerAssumption == MaxModel \in Nat

VARIABLES
  disk,      \* what each path holds
  engine,    \* the portable model every receiver's engine runs
  xyRuntime, \* the model of the LiveXYRuntime
  status,    \* modelStatus, as GET /api/model returns it
  doubt,     \* history: how the last activation went wrong, if it did
  call,      \* the requests, each at one of its awaits
  trained,   \* models trained so far
  live,      \* the engine's receivers are ready now
  shown,     \* readiness in the snapshot published last
  recording  \* a recording was started on this answer of readiness

modelVars == <<engine, xyRuntime, status, doubt>>
serverVars == <<disk, modelVars, call, trained, live, shown, recording>>

NoModel == [kind |-> "none", id |-> 0]
Model == [kind : {"xy", "zones"}, id : 1..MaxModel]
\* "over" is history: another training has written the file since this request
\* saved it.
NoCall == [at |-> "idle", job |-> "none", path |-> CHOOSE p \in Path : TRUE,
         model |-> NoModel, over |-> FALSE]

CallAt(c, where, job) == call[c].at = where /\ call[c].job = job
GoTo(c, where) == call' = [call EXCEPT ![c].at = where]
Done(c) == call' = [call EXCEPT ![c] = NoCall]

ServerInit ==
  /\ disk = [p \in Path |-> NoModel]
  /\ engine = NoModel /\ xyRuntime = NoModel /\ status = NoModel
  /\ doubt = "none"
  /\ call = [c \in Call |-> NoCall] /\ trained = 0
  /\ live = FALSE /\ shown = FALSE /\ recording = "none"

-----------------------------------------------------------------------------
(* Activating a model; nothing awaits in between.                          *)

\* Mutant: the status is set although the runtime refused the mappings.
ActivateBlind(m) ==
  /\ engine' = NoModel /\ status' = m
  /\ \E refused \in BOOLEAN :
       /\ xyRuntime' = IF refused THEN xyRuntime ELSE m
       /\ doubt' = IF refused THEN "unloaded" ELSE "none"

\* activateContinuousXYModel unloads the engine's model before it makes the
\* LiveXYRuntime, whose constructor throws for mappings without address or port.
ActivateXY(m) ==
  /\ engine' = NoModel
  /\ \/ xyRuntime' = m /\ status' = m /\ doubt' = "none"
     \/ doubt' = "unloaded" /\ UNCHANGED <<xyRuntime, status>>

\* clearContinuousXYRuntime, setModel, and the status the request reports.
ActivateZones(m, described, over) ==
  /\ xyRuntime' = NoModel /\ engine' = m /\ status' = described
  /\ doubt' = IF over THEN "swapped" ELSE "none"

-----------------------------------------------------------------------------
(* POST /api/model/train and /api/model/load.                              *)

\* The request arrives; reading its body awaits.
BeginModel(c) ==
  /\ call[c].at = "idle"
  /\ \E job \in {"train-xy", "train-zones", "load"}, p \in Path :
       call' = [call EXCEPT ![c] = [NoCall EXCEPT !.at = "body", !.job = job, !.path = p]]
  /\ UNCHANGED <<disk, modelVars, trained, live, shown, recording>>

\* The dataset is read and the model trained; the file is written.
Train(c) ==
  /\ call[c].at = "body" /\ call[c].job \in {"train-xy", "train-zones"}
  /\ trained < MaxModel /\ trained' = trained + 1
  /\ LET m == [kind |-> IF call[c].job = "train-xy" THEN "xy" ELSE "zones", id |-> trained + 1]
     IN  /\ disk' = [disk EXCEPT ![call[c].path] = m]
         /\ call' = [d \in Call |->
              IF d = c THEN [call[c] EXCEPT !.at = "saved", !.model = m]
              ELSE IF call[d].at = "saved" /\ call[d].path = call[c].path
                   THEN [call[d] EXCEPT !.over = TRUE]
                   ELSE call[d]]
  /\ UNCHANGED <<modelVars, live, shown, recording>>

\* A trained XY model is activated from memory.
ActivateTrainedXY(c) ==
  /\ CallAt(c, "saved", "train-xy")
  /\ ActivateXY(call[c].model) /\ Done(c)
  /\ UNCHANGED <<disk, trained, live, shown, recording>>

\* A trained zone model is read back from its path; the status describes the
\* one this request trained.
ActivateTrainedZones(c) ==
  /\ CallAt(c, "saved", "train-zones")
  /\ disk[call[c].path].kind = "zones"
  /\ ActivateZones(disk[call[c].path], call[c].model, call[c].over) /\ Done(c)
  /\ UNCHANGED <<disk, trained, live, shown, recording>>

\* modelKind reads the file for its format.
FindKind(c) ==
  /\ CallAt(c, "body", "load") /\ disk[call[c].path] # NoModel
  /\ GoTo(c, disk[call[c].path].kind)
  /\ UNCHANGED <<disk, modelVars, trained, live, shown, recording>>

\* The file is read again, by the loader of the kind found.
Load(c) ==
  LET m == disk[call[c].path]
  IN  /\ call[c].job = "load" /\ call[c].at = m.kind
      /\ IF m.kind = "xy" THEN ActivateXY(m) ELSE ActivateZones(m, m, FALSE)
      /\ Done(c)
      /\ UNCHANGED <<disk, trained, live, shown, recording>>

\* Any await can throw (a body too large, a missing or torn file, a dataset too
\* small, a file of the other kind), and the answer is 400.
FailModel(c) ==
  /\ call[c].job \in {"train-xy", "train-zones", "load"}
  /\ Done(c)
  /\ UNCHANGED <<disk, modelVars, trained, live, shown, recording>>

-----------------------------------------------------------------------------
(* Readiness and POST /api/recording/start.                                *)

\* Receivers come and go.
LiveChanges ==
  /\ live' = ~live
  /\ UNCHANGED <<disk, modelVars, call, trained, shown, recording>>

\* publish: the timer takes the engine's snapshot.
Publish ==
  /\ shown' = live
  /\ UNCHANGED <<disk, modelVars, call, trained, live, recording>>

\* The published readiness is checked, then the body is awaited.
BeginRecording(c) ==
  /\ call[c].at = "idle" /\ shown
  /\ call' = [call EXCEPT ![c] = [NoCall EXCEPT !.at = "body", !.job = "record"]]
  /\ UNCHANGED <<disk, modelVars, trained, live, shown, recording>>

\* The recorder is started unless it is recording; what readiness is by now is
\* not looked at.
StartRecording(c) ==
  /\ CallAt(c, "body", "record")
  /\ recording' = IF recording # "none" THEN recording ELSE IF shown THEN "ready" ELSE "unready"
  /\ Done(c)
  /\ UNCHANGED <<disk, modelVars, trained, live, shown>>

\* POST /api/recording/stop, or the recorder stops by itself.
StopRecording ==
  /\ recording # "none" /\ recording' = "none"
  /\ UNCHANGED <<disk, modelVars, call, trained, live, shown>>

ServerNext ==
  \/ \E c \in Call :
       \/ BeginModel(c) \/ Train(c) \/ ActivateTrainedXY(c) \/ ActivateTrainedZones(c)
       \/ FindKind(c) \/ Load(c) \/ FailModel(c) \/ BeginRecording(c) \/ StartRecording(c)
  \/ LiveChanges \/ Publish \/ StopRecording

ServerSpec == ServerInit /\ [][ServerNext]_serverVars

-----------------------------------------------------------------------------
(* Properties.                                                             *)

\* What GET /api/model says is what runs, whatever requests were under way
\* together and however they failed: the same model, by the runtime of its
\* kind, and no other beside it.  Two things may have come between: an XY
\* activation that threw half way, after which the engine runs nothing; and a
\* training that wrote over a zone model before it was read back, after which
\* it runs another zone model (activateContinuousXYModel,
\* clearContinuousXYRuntime and the four assignments of modelStatus).
StatusTellsWhatRuns ==
  /\ xyRuntime = IF status.kind = "xy" THEN status ELSE NoModel
  /\ doubt = "none" => engine = IF status.kind = "zones" THEN status ELSE NoModel
  /\ doubt = "unloaded" => engine = NoModel
  /\ doubt = "swapped" => engine.kind = "zones" /\ status.kind = "zones"

\* Without the two.
StatusIsExact ==
  /\ xyRuntime = IF status.kind = "xy" THEN status ELSE NoModel
  /\ engine = IF status.kind = "zones" THEN status ELSE NoModel

\* A recording begins only while the receivers are ready ("capture blocked").
CaptureIsReady == recording # "unready"

-----------------------------------------------------------------------------
(* The inductive invariant.                                                *)

Stored == Model \cup {NoModel}

ServerTypeOK ==
  /\ disk \in [Path -> Stored]
  /\ engine \in Stored /\ xyRuntime \in Stored /\ status \in Stored
  /\ doubt \in {"none", "unloaded", "swapped"}
  /\ trained \in Nat
  /\ call \in [Call -> [at : {"idle", "body", "saved", "xy", "zones"},
                       job : {"none", "train-xy", "train-zones", "load", "record"},
                       path : Path \cup {NoCall.path}, model : Stored,
                       over : BOOLEAN]]

\* What a request has saved is on the disk until it is activated or another
\* training writes over it.

SavedIsOwn ==
  \A c \in Call :
    /\ call[c].job \in {"train-xy", "train-zones", "load"} => call[c].path \in Path
    /\ CallAt(c, "saved", "train-xy") => call[c].model.kind = "xy"
    /\ CallAt(c, "saved", "train-zones") =>
         /\ call[c].model.kind = "zones"
         /\ call[c].over \/ disk[call[c].path] = call[c].model

ServerIInv == ServerTypeOK /\ SavedIsOwn /\ StatusTellsWhatRuns
=============================================================================
