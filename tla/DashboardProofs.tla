---------------------------- MODULE DashboardProofs ----------------------------
(***************************************************************************)
(* For every set of requests, files, zones and steps, every hold time and  *)
(* every order of events: the zone the page holds was the server's a short *)
(* while ago, its three accounts of the set-up agree, a slot is of one     *)
(* receiver, what the server says of its model is what runs, the           *)
(* calibration counts what was recorded, a recording marked complete is    *)
(* whole, and the page of the single device shows its log in order.        *)
(***************************************************************************)
EXTENDS DashboardServer, LivePage, ReceiverSlots, Guidance, CalibrationWizard,
        DashboardRecorder, DeviceMonitor, WrappingNumbers, SequenceTheorems

-----------------------------------------------------------------------------
(* The page's live view.                                                   *)

LEMMA PageNothing == Snapshot0 \in Published
BY DEF Snapshot0, Published

LEMMA PublishedAnew ==
  ASSUME NEW s \in Published, NEW z \in Spot \cup {Nowhere}, NEW a \in BOOLEAN, NEW b \in BOOLEAN
  PROVE  [s EXCEPT !.seq = @ + 1, !.zone = z, !.sure = a, !.clear = b] \in Published
<1>. DEFINE n == s.seq + 1
<1>1. n \in Nat
  BY DEF Published
<1>. HIDE DEF n
<1>2. [s EXCEPT !.seq = n, !.zone = z, !.sure = a, !.clear = b] \in Published
  BY <1>1 DEF Published
<1>. QED BY <1>2 DEF n

LEMMA PageStarts == PageInit => PageIInv
BY PageAssumption DEF PageInit, PageIInv, PageTypeOK, HeldIsLast, PageAssumption,
   Snapshot0, Published, Drawn

\* The snapshot in front of the stream, and what is behind it.
LEMMA FrontOfWire ==
  ASSUME PageTypeOK, wire # <<>>
  PROVE  Head(wire) \in Published /\ Tail(wire) \in Seq(Published)
BY DEF PageTypeOK

\* What the guard draws: nothing, the zone accepted last, or the new one.
LEMMA GuardIs ==
  ASSUME PageTypeOK, NEW e \in Published
  PROVE  LET p == [Guard(page, e) EXCEPT !.run = e.run, !.seq = e.seq, !.at = now]
         IN  /\ p \in Drawn /\ p.at = now
             /\ \/ p.shown = Nowhere /\ p.last \in {Nowhere, page.last} /\ p.lastAt = page.lastAt
                   /\ e.zone = Nowhere
                \/ /\ p.shown = page.last /\ p.last = page.last /\ p.lastAt = page.lastAt
                   /\ e.zone \in Spot /\ e.zone # page.last
                   /\ now - page.lastAt < HoldTicks
                \/ /\ p.shown = e.zone /\ p.last = e.zone /\ p.lastAt = now
                   /\ e.zone \in Spot
<1>1. /\ page \in Drawn /\ now \in Nat /\ e.zone \in Spot \cup {Nowhere}
      /\ e.run \in Nat /\ e.seq \in Nat /\ Nowhere \notin Spot
  BY PageAssumption DEF PageTypeOK, Published, PageAssumption
<1>2. CASE e.zone = Nowhere
  BY <1>1, <1>2 DEF Guard, Drawn
<1>3. CASE e.zone # Nowhere
  BY <1>1, <1>3 DEF Guard, Drawn
<1>. QED BY <1>2, <1>3

LEMMA PageStep == PageIInv /\ [PageNext]_pageVars => PageIInv'
<1>. SUFFICES ASSUME PageIInv, [PageNext]_pageVars PROVE PageIInv'
  OBVIOUS
<1>1. /\ PageTypeOK /\ HeldIsLast /\ now \in Nat /\ server \in Published
      /\ wire \in Seq(Published) /\ page \in Drawn /\ reported \in [Spot -> Nat]
      /\ Nowhere \notin Spot /\ HoldTicks \in Nat \ {0}
  BY PageAssumption DEF PageIInv, PageTypeOK, PageAssumption
<1>2. ASSUME page' = page, reported' = reported,
             now' \in Nat, server' \in Published, wire' \in Seq(Published)
      PROVE  PageIInv'
  BY <1>1, <1>2 DEF PageIInv, PageTypeOK, HeldIsLast
<1>3. CASE PublishSnapshot
  <2>1. server' \in Published
    <3>1. PICK z \in Spot \cup {Nowhere}, sure \in BOOLEAN, clear \in BOOLEAN :
            server' = [server EXCEPT !.seq = @ + 1, !.zone = z, !.sure = sure, !.clear = clear]
      BY <1>3, Zenon DEF PublishSnapshot
    <3>. QED BY <1>1, <3>1, PublishedAnew, Zenon
  <2>2. wire' \in Seq(Published)
    BY <1>1, <1>3, <2>1 DEF PublishSnapshot
  <2>. QED BY <1>1, <1>2, <1>3, <2>1, <2>2 DEF PublishSnapshot
<1>4. CASE Connect \/ Break
  <2>1. wire' \in {<<server>>, <<>>}
    BY <1>4 DEF Connect, Break
  <2>2. <<server>> \in Seq(Published) /\ <<>> \in Seq(Published)
    BY <1>1
  <2>3. wire' \in Seq(Published)
    BY <2>1, <2>2, Zenon
  <2>. QED BY <1>1, <1>2, <1>4, <2>3 DEF Connect, Break
<1>5. CASE Restart
  <2>1. server' \in Published
    <3>1. server' = [Snapshot0 EXCEPT !.run = server.run + 1] /\ server.run \in Nat
      BY <1>1, <1>5 DEF Restart, Published
    <3>2. Snapshot0 \in Published
      BY PageNothing
    <3>. QED BY <3>1, <3>2 DEF Published
  <2>. QED BY <1>1, <1>2, <1>5, <2>1 DEF Restart
<1>6. CASE Tick
  BY <1>1, <1>2, <1>6 DEF Tick
<1>7. CASE UNCHANGED pageVars
  BY <1>1, <1>2, <1>7 DEF pageVars
<1>8. CASE Receive
  <2>. DEFINE e == Head(wire)
              p == [Guard(page, e) EXCEPT !.run = e.run, !.seq = e.seq, !.at = now]
  <2>1. e \in Published /\ Tail(wire) \in Seq(Published)
    BY <1>1, <1>8, FrontOfWire DEF Receive
  <2>2. wire' = Tail(wire) /\ now' = now /\ server' = server
    BY <1>8 DEF Receive
  <2>3. CASE page' = page /\ reported' = reported
    BY <1>1, <1>2, <2>1, <2>2, <2>3
  <2>4. CASE page' = p /\ reported' = IF e.zone = Nowhere THEN reported
                                      ELSE [reported EXCEPT ![e.zone] = now]
    <3>1. /\ p \in Drawn /\ p.at = now
          /\ \/ p.shown = Nowhere /\ p.last \in {Nowhere, page.last} /\ p.lastAt = page.lastAt
                /\ e.zone = Nowhere
             \/ /\ p.shown = page.last /\ p.last = page.last /\ p.lastAt = page.lastAt
                /\ e.zone \in Spot /\ e.zone # page.last
                /\ now - page.lastAt < HoldTicks
             \/ /\ p.shown = e.zone /\ p.last = e.zone /\ p.lastAt = now
                /\ e.zone \in Spot
      BY <1>1, <2>1, GuardIs
    <3>2. page.last \in Spot \cup {Nowhere} /\ page.lastAt \in Nat
      BY <1>1 DEF Drawn
    <3>3. page.last # Nowhere => reported[page.last] = page.lastAt
      BY <1>1 DEF HeldIsLast
    <3>. HIDE DEF p, e
    <3>4. reported' \in [Spot -> Nat]
      BY <1>1, <2>4, <3>1
    <3>5. HeldIsLast'
      BY <1>1, <2>2, <2>4, <3>1, <3>2, <3>3 DEF HeldIsLast
    <3>. QED BY <1>1, <2>1, <2>2, <2>4, <3>1, <3>4, <3>5 DEF PageIInv, PageTypeOK
  <2>. QED BY <1>8, <2>3, <2>4 DEF Receive
<1>. QED BY <1>3, <1>4, <1>5, <1>6, <1>7, <1>8 DEF PageNext

\* The inductive invariant of the page's live view: what it holds is the last
\* zone it was told, and no older than it says (guardCoarseTransition).
THEOREM PageInductive == PageSpec => []PageIInv
BY PageStarts, PageStep, PTL DEF PageSpec

\* A zone the page shows was the server's within the hold time, for every map
\* of zones and every order of estimates (guardCoarseTransition).
THEOREM HeldIsRecent == PageSpec => []HeldZoneIsRecent
<1>1. PageIInv => HeldZoneIsRecent
  BY PageAssumption DEF PageIInv, PageTypeOK, HeldIsLast, HeldZoneIsRecent, Drawn, PageAssumption
<1>. QED BY <1>1, PageInductive, PTL

-----------------------------------------------------------------------------
(* What the user is told to do next.                                       *)

LEMMA GuidanceStarts == GuidanceInit => GuidanceIInv
BY DEF GuidanceInit, GuidanceIInv, GuidanceTypeOK, NoSetup, NoSnapshot

LEMMA GuidanceStep == GuidanceIInv /\ [GuidanceNext]_guidanceVars => GuidanceIInv'
<1>. SUFFICES ASSUME GuidanceIInv, [GuidanceNext]_guidanceVars PROVE GuidanceIInv'
  OBVIOUS
<1>. DEFINE S == [configured : BOOLEAN, named : BOOLEAN, sized : BOOLEAN, placed : BOOLEAN,
                  distinct : BOOLEAN, empties : Nat, zones : Nat, covered : Nat]
<1>1. /\ setup \in S /\ setup.covered <= setup.zones
      /\ setup.empties \in Nat /\ setup.zones \in Nat /\ setup.covered \in Nat
      /\ ~setup.configured => setup.covered = 0
  BY DEF GuidanceIInv, GuidanceTypeOK
<1>2. ASSUME setup' \in S, setup'.covered <= setup'.zones, seen' = seen, loaded' = loaded,
             ~setup'.configured => setup'.covered = 0
      PROVE  GuidanceIInv'
  BY <1>2 DEF GuidanceIInv, GuidanceTypeOK
<1>3. CASE SaveRoom
  <2>1. PICK named \in BOOLEAN, sized \in BOOLEAN, placed \in BOOLEAN, distinct \in BOOLEAN :
          setup' = [setup EXCEPT !.configured = TRUE, !.named = named, !.sized = sized,
                                 !.placed = placed, !.distinct = distinct,
                                 !.zones = IF setup.configured THEN @ ELSE 4]
    BY <1>3, Zenon DEF SaveRoom
  <2>2. seen' = seen /\ loaded' = loaded
    BY <1>3 DEF SaveRoom
  <2>3. setup' \in S
    BY <1>1, <2>1
  <2>4. setup'.covered <= setup'.zones /\ setup'.configured
    BY <1>1, <2>1
  <2>. QED BY <1>2, <2>2, <2>3, <2>4
<1>4. CASE ChangeZones \/ Captured
  <2>1. seen' = seen /\ loaded' = loaded /\ setup.configured
    BY <1>4 DEF ChangeZones, Captured
  <2>2. ASSUME NEW z \in Nat, NEW c \in Nat, NEW n \in Nat, c <= z,
               setup' = [setup EXCEPT !.zones = z, !.covered = c, !.empties = n]
        PROVE  GuidanceIInv'
    <3>1. setup' \in S /\ setup'.covered <= setup'.zones
      BY <1>1, <2>2
    <3>2. ~setup'.configured => setup'.covered = 0
      BY <1>1, <2>1, <2>2
    <3>. QED BY <1>2, <2>1, <3>1, <3>2
  <2>3. PICK z \in Nat, c \in Nat, n \in Nat :
          c <= z /\ setup' = [setup EXCEPT !.zones = z, !.covered = c, !.empties = n]
    <3>. DEFINE z == setup.zones
                c == setup.covered
                n == setup.empties
                To(i, j, k) == setup' = [setup EXCEPT !.zones = i, !.covered = j, !.empties = k]
    <3>1. \/ To(z + 1, c, n)
          \/ z - c > 0 /\ To(z - 1, c, n)
          \/ z > 2 /\ c > 0 /\ To(z - 1, c - 1, n)
          \/ To(z, c, n + 1)
          \/ z - c > 0 /\ To(z, c + 1, n)
      BY <1>1, <1>4 DEF ChangeZones, Captured, MissingZones
    <3>2. z \in Nat /\ c \in Nat /\ n \in Nat /\ c <= z
      BY <1>1
    <3>3. \E i, j, k \in Nat : j <= i /\ To(i, j, k)
      <4>. HIDE DEF z, c, n, To
      <4>. QED BY <3>1, <3>2
    <3>. QED BY <3>3
  <2>. QED BY <2>2, <2>3
<1>6. CASE ReceiveState
  BY <1>6 DEF ReceiveState, GuidanceIInv, GuidanceTypeOK
<1>7. CASE ModelChanges \/ UNCHANGED guidanceVars
  BY <1>7 DEF ModelChanges, guidanceVars, GuidanceIInv, GuidanceTypeOK
<1>. QED BY <1>3, <1>4, <1>6, <1>7 DEF GuidanceNext

\* The inductive invariant of the page's guidance (nextDashboardAction, the
\* checklist and the form).
THEOREM GuidanceInductive == GuidanceSpec => []GuidanceIInv
BY GuidanceStarts, GuidanceStep, PTL DEF GuidanceSpec

\* The page's three accounts of the set-up agree, for every number of zones
\* and recordings (nextDashboardAction, renderSetupHealthChecklist, whyNoDotMessage).
THEOREM AccountsAgree == GuidanceSpec => []GuidanceAgrees
<1>1. GuidanceIInv => GuidanceAgrees
  <2>. DEFINE z == setup.zones
              c == setup.covered
              n == setup.empties
              valid == RoomIsValid
              model == loaded # "none"
              dark == seen.state # "clear" /\ seen.dot # "accepted"
  <2>. SUFFICES ASSUME GuidanceIInv PROVE GuidanceAgrees
    OBVIOUS
  <2>1. /\ z \in Nat /\ c \in Nat /\ n \in Nat /\ c <= z
        /\ valid => z >= 2
        /\ seen.ready => seen.here
    BY DEF GuidanceIInv, GuidanceTypeOK, RoomIsValid
  <2>2. NextAction =
          IF ~seen.here THEN "connect" ELSE IF ~valid THEN "room"
          ELSE IF ~seen.ready THEN "receivers" ELSE IF n < 2 THEN "empty"
          ELSE IF c < z THEN "zones" ELSE IF ~model THEN "model"
          ELSE IF dark THEN "position" ELSE "validate"
    BY <2>1 DEF NextAction, MissingZones
  <2>3. (valid => setup.named /\ setup.placed) =>
          Blocker =
            IF ~valid THEN "room" ELSE IF ~seen.ready THEN "receivers"
            ELSE IF n < 2 THEN "empty" ELSE IF c < z THEN "zones"
            ELSE IF ~model THEN "model" ELSE "complete"
    BY <2>1 DEF Blocker, RoomDefinitionValid, ZonesComplete
  <2>4. Checklist =
          (IF valid THEN {"room"} ELSE {}) \cup (IF seen.ready THEN {"receivers"} ELSE {})
            \cup (IF n >= 2 THEN {"empty"} ELSE {})
            \cup (IF z > 0 /\ c = z THEN {"zones"} ELSE {})
            \cup (IF model THEN {"model"} ELSE {})
    <3>. DEFINE Ticked(i) == CASE i = "room" -> RoomIsValid
                               [] i = "receivers" -> seen.ready
                               [] i = "empty" -> setup.empties >= 2
                               [] i = "zones" -> setup.zones > 0 /\ MissingZones = 0
                               [] i = "model" -> loaded # "none"
    <3>1. Checklist = {i \in {"room", "receivers", "empty", "zones", "model"} : Ticked(i)}
      BY DEF Checklist
    <3>2. (Ticked("room") <=> valid) /\ (Ticked("receivers") <=> seen.ready)
      OBVIOUS
    <3>3. (Ticked("empty") <=> n >= 2) /\ (Ticked("model") <=> model)
      OBVIOUS
    <3>4. Ticked("zones") <=> z > 0 /\ c = z
      BY <2>1 DEF MissingZones
    <3>. HIDE DEF Ticked, z, c, n, valid, model
    <3>. QED BY <3>1, <3>2, <3>3, <3>4
  <2>5. ASSUME valid, seen.ready, n >= 2, c = z
        PROVE  Checklist = {"room", "receivers", "empty", "zones"} \cup (IF model THEN {"model"} ELSE {})
    BY <2>1, <2>4, <2>5
  <2>. HIDE DEF z, c, n, valid, model, dark
  <2>6. seen.here /\ (valid => setup.named /\ setup.placed) =>
          NextAction = Blocker \/ (Blocker = "complete" /\ NextAction \in {"position", "validate"})
    BY <2>1, <2>2, <2>3
  <2>7. NextAction = "validate" => Checklist = {"room", "receivers", "empty", "zones", "model"}
    BY <2>1, <2>2, <2>5
  <2>8. NextAction = "model" => Checklist = {"room", "receivers", "empty", "zones"}
    BY <2>1, <2>2, <2>5
  <2>. QED BY <2>6, <2>7, <2>8 DEF GuidanceAgrees, valid
<1>. QED BY <1>1, GuidanceInductive, PTL

-----------------------------------------------------------------------------
(* Which model runs.                                                       *)

LEMMA ModelNothing ==
  /\ NoModel \in Stored /\ NoModel.kind = "none"
  /\ \A m \in Stored : m.kind \in {"xy", "zones", "none"}
  /\ \A m \in Stored : m = NoModel <=> m.kind \notin {"xy", "zones"}
BY DEF Stored, Model, NoModel

LEMMA ServerStarts == ServerInit => ServerIInv
<1>. SUFFICES ASSUME ServerInit PROVE ServerIInv
  OBVIOUS
<1>1. /\ disk = [p \in Path |-> NoModel] /\ call = [c \in Call |-> NoCall] /\ trained = 0
      /\ engine = NoModel /\ xyRuntime = NoModel /\ status = NoModel /\ doubt = "none"
  BY DEF ServerInit
<1>2. /\ NoCall.at = "idle" /\ NoCall.job = "none" /\ NoCall.model = NoModel /\ NoCall.over = FALSE
      /\ NoCall = [at |-> NoCall.at, job |-> NoCall.job, path |-> NoCall.path,
                  model |-> NoCall.model, over |-> NoCall.over]
  BY DEF NoCall
<1>3. ServerTypeOK
  BY <1>1, <1>2, ModelNothing DEF ServerTypeOK
<1>4. SavedIsOwn
  BY <1>1, <1>2 DEF SavedIsOwn, CallAt
<1>5. StatusTellsWhatRuns
  BY <1>1, ModelNothing DEF StatusTellsWhatRuns
<1>. QED BY <1>3, <1>4, <1>5 DEF ServerIInv

CallRecord ==
  [at : {"idle", "body", "saved", "xy", "zones"},
   job : {"none", "train-xy", "train-zones", "load", "record"},
   path : Path \cup {NoCall.path}, model : Stored, over : BOOLEAN]

\* What a request's record may be, given the disk.
Sound(r, d) ==
  /\ r \in CallRecord
  /\ r.job \in {"train-xy", "train-zones", "load"} => r.path \in Path
  /\ r.at = "saved" /\ r.job = "train-xy" => r.model.kind = "xy"
  /\ r.at = "saved" /\ r.job = "train-zones" =>
       r.model.kind = "zones" /\ (r.over \/ d[r.path] = r.model)

\* The invariant, request by request.
ServerSound ==
  /\ disk \in [Path -> Stored] /\ trained \in Nat
  /\ engine \in Stored /\ xyRuntime \in Stored /\ status \in Stored
  /\ doubt \in {"none", "unloaded", "swapped"} /\ StatusTellsWhatRuns
  /\ call \in [Call -> CallRecord] /\ \A c \in Call : Sound(call[c], disk)

LEMMA ServerParts == ServerIInv <=> ServerSound
<1>1. ServerTypeOK <=>
        /\ disk \in [Path -> Stored] /\ trained \in Nat
        /\ engine \in Stored /\ xyRuntime \in Stored /\ status \in Stored
        /\ doubt \in {"none", "unloaded", "swapped"} /\ call \in [Call -> CallRecord]
  BY Zenon DEF ServerTypeOK, CallRecord
<1>2. call \in [Call -> CallRecord] =>
        (SavedIsOwn <=> \A c \in Call : Sound(call[c], disk))
  BY DEF SavedIsOwn, CallAt, Sound
<1>. QED BY <1>1, <1>2, Zenon DEF ServerIInv, ServerSound

LEMMA ServerPartsNext == ServerIInv' <=> ServerSound'
BY ServerParts, PTL

LEMMA IdleIsSound == \A d : Sound(NoCall, d)
<1>1. /\ NoCall.at = "idle" /\ NoCall.job = "none" /\ NoCall.model = NoModel /\ NoCall.over = FALSE
      /\ NoCall = [at |-> NoCall.at, job |-> NoCall.job, path |-> NoCall.path,
                  model |-> NoCall.model, over |-> NoCall.over]
  BY DEF NoCall
<1>. QED BY <1>1, ModelNothing DEF Sound, CallRecord

\* What the status and what runs are after an activation.
Activated ==
  /\ engine \in Stored /\ xyRuntime \in Stored /\ status \in Stored
  /\ doubt \in {"none", "unloaded", "swapped"} /\ StatusTellsWhatRuns

\* An XY model is activated whole, or the engine is left without one.
LEMMA ActivatesXY ==
  ASSUME NEW m \in Stored, m.kind = "xy", Activated, ActivateXY(m)
  PROVE  Activated'
BY ModelNothing DEF ActivateXY, Activated, StatusTellsWhatRuns

\* A zone model is activated under its own description, or under that of the
\* model it was written over.
LEMMA ActivatesZones ==
  ASSUME NEW m \in Stored, NEW described \in Stored, NEW over \in BOOLEAN,
         m.kind = "zones", described.kind = "zones", over \/ m = described,
         ActivateZones(m, described, over)
  PROVE  Activated'
BY ModelNothing DEF ActivateZones, Activated, StatusTellsWhatRuns

LEMMA ServerStep == ServerIInv /\ [ServerNext]_serverVars => ServerIInv'
<1>. SUFFICES ASSUME ServerIInv, [ServerNext]_serverVars PROVE ServerIInv'
  OBVIOUS
<1>1. /\ disk \in [Path -> Stored] /\ trained \in Nat
      /\ engine \in Stored /\ xyRuntime \in Stored /\ status \in Stored
      /\ doubt \in {"none", "unloaded", "swapped"} /\ StatusTellsWhatRuns /\ Activated
      /\ call \in [Call -> CallRecord] /\ \A c \in Call : Sound(call[c], disk)
  BY ServerParts DEF ServerSound, Activated
<1>2. MaxModel \in Nat
  BY ServerAssumption DEF ServerAssumption
\* What runs and what is on the disk stay, and one request moves on.
<1>3. ASSUME NEW c \in Call, NEW r, Sound(r, disk), call' = [call EXCEPT ![c] = r],
             disk' = disk, trained' = trained,
             UNCHANGED modelVars \/ Activated'
      PROVE  ServerIInv'
  <2>1. Activated'
    BY <1>1, <1>3 DEF Activated, StatusTellsWhatRuns, modelVars
  <2>2. r \in CallRecord
    BY <1>3 DEF Sound
  <2>3. call' \in [Call -> CallRecord] /\ \A d \in Call : call'[d] = IF d = c THEN r ELSE call[d]
    BY <1>1, <1>3, <2>2
  <2>4. \A d \in Call : Sound(call'[d], disk')
    BY <1>1, <1>3, <2>3
  <2>. QED BY <1>1, <1>3, <2>1, <2>3, <2>4, ServerPartsNext DEF ServerSound, Activated
<1>4. ASSUME NEW c \in Call, BeginModel(c)
      PROVE  ServerIInv'
  <2>1. PICK job \in {"train-xy", "train-zones", "load"}, p \in Path :
          call' = [call EXCEPT ![c] = [NoCall EXCEPT !.at = "body", !.job = job, !.path = p]]
    BY <1>4 DEF BeginModel
  <2>. DEFINE r == [NoCall EXCEPT !.at = "body", !.job = job, !.path = p]
  <2>2. Sound(r, disk)
    BY ModelNothing DEF Sound, CallRecord, NoCall
  <2>3. disk' = disk /\ trained' = trained /\ UNCHANGED modelVars
    BY <1>4 DEF BeginModel
  <2>. HIDE DEF r
  <2>. QED BY <1>3, <2>1, <2>2, <2>3 DEF r
<1>5. ASSUME NEW c \in Call, Train(c)
      PROVE  ServerIInv'
  <2>. DEFINE m == [kind |-> IF call[c].job = "train-xy" THEN "xy" ELSE "zones", id |-> trained + 1]
              r == [call[c] EXCEPT !.at = "saved", !.model = m]
              Over(d) == call[d].at = "saved" /\ call[d].path = call[c].path
  <2>1. /\ call[c].job \in {"train-xy", "train-zones"}
        /\ trained < MaxModel /\ trained' = trained + 1
        /\ disk' = [disk EXCEPT ![call[c].path] = m]
        /\ call' = [d \in Call |-> IF d = c THEN r
                                   ELSE IF Over(d) THEN [call[d] EXCEPT !.over = TRUE]
                                   ELSE call[d]]
        /\ UNCHANGED modelVars
    BY <1>5 DEF Train
  <2>2. call[c] \in CallRecord /\ call[c].path \in Path
    BY <1>1, <2>1 DEF Sound
  <2>3. m \in Stored /\ (call[c].job = "train-xy" <=> m.kind = "xy") /\ m.kind \in {"xy", "zones"}
    BY <1>1, <1>2, <2>1 DEF Stored, Model
  <2>. HIDE DEF m
  <2>4. /\ r \in CallRecord /\ r.at = "saved" /\ r.job = call[c].job
        /\ r.path = call[c].path /\ r.model = m
    BY <2>2, <2>3 DEF CallRecord
  <2>5. disk' \in [Path -> Stored] /\ disk'[call[c].path] = m
    BY <1>1, <2>1, <2>2, <2>3
  <2>6. Sound(r, disk')
    BY <2>1, <2>2, <2>3, <2>4, <2>5 DEF Sound
  <2>. HIDE DEF r
  \* A request that had saved on this path no longer counts on it.
  <2>7. ASSUME NEW d \in Call, d # c
        PROVE  Sound(call'[d], disk')
    <3>1. Sound(call[d], disk)
      BY <1>1
    <3>2. CASE Over(d)
      <4>1. call'[d] = [call[d] EXCEPT !.over = TRUE] /\ call[d] \in CallRecord
        BY <2>1, <2>7, <3>1, <3>2 DEF Sound
      <4>. DEFINE o == [call[d] EXCEPT !.over = TRUE]
      <4>2. /\ o \in CallRecord /\ o.over = TRUE /\ o.at = call[d].at /\ o.job = call[d].job
            /\ o.path = call[d].path /\ o.model = call[d].model
        BY <4>1 DEF CallRecord
      <4>. HIDE DEF o
      <4>3. Sound(o, disk')
        BY <3>1, <4>2 DEF Sound
      <4>. QED BY <4>1, <4>3 DEF o
    <3>3. CASE ~Over(d)
      <4>1. call'[d] = call[d]
        BY <2>1, <2>7, <3>3
      <4>2. ASSUME call[d].at = "saved", call[d].job = "train-zones"
            PROVE  disk'[call[d].path] = disk[call[d].path]
        BY <1>1, <2>1, <3>1, <3>3, <4>2 DEF Sound
      <4>. QED BY <3>1, <4>1, <4>2 DEF Sound
    <3>. QED BY <3>2, <3>3
  <2>8. \A d \in Call : Sound(call'[d], disk')
    BY <2>1, <2>6, <2>7
  <2>9. call' \in [Call -> CallRecord]
    <3>1. DOMAIN call' = Call /\ call' = [d \in Call |-> call'[d]]
      BY <2>1
    <3>. QED BY <2>8, <3>1 DEF Sound
  <2>10. trained' \in Nat /\ Activated'
    BY <1>1, <2>1 DEF Activated, StatusTellsWhatRuns, modelVars
  <2>. QED BY <2>5, <2>8, <2>9, <2>10, ServerPartsNext DEF ServerSound, Activated
\* A request is over: nothing, or the model it has, is activated.
<1>6. ASSUME NEW c \in Call, Done(c), disk' = disk, trained' = trained,
             UNCHANGED modelVars \/ Activated'
      PROVE  ServerIInv'
  <2>1. call' = [call EXCEPT ![c] = NoCall]
    BY <1>6 DEF Done
  <2>. QED BY <1>3, <1>6, <2>1, IdleIsSound
<1>7. ASSUME NEW c \in Call, ActivateTrainedXY(c)
      PROVE  ServerIInv'
  <2>1. /\ ActivateXY(call[c].model) /\ Done(c) /\ disk' = disk /\ trained' = trained
        /\ call[c].model.kind = "xy" /\ call[c].model \in Stored
    BY <1>1, <1>7 DEF ActivateTrainedXY, CallAt, Sound, CallRecord
  <2>. QED BY <1>1, <1>6, <2>1, ActivatesXY
<1>8. ASSUME NEW c \in Call, ActivateTrainedZones(c)
      PROVE  ServerIInv'
  <2>. DEFINE m == disk[call[c].path]
  <2>1. /\ ActivateZones(m, call[c].model, call[c].over) /\ Done(c)
        /\ disk' = disk /\ trained' = trained /\ m.kind = "zones"
        /\ call[c].model.kind = "zones" /\ call[c].model \in Stored
        /\ call[c].path \in Path /\ call[c].over \in BOOLEAN
        /\ call[c].over \/ m = call[c].model
    BY <1>1, <1>8 DEF ActivateTrainedZones, CallAt, Sound, CallRecord
  <2>2. m \in Stored
    BY <1>1, <2>1
  <2>. HIDE DEF m
  <2>. QED BY <1>6, <2>1, <2>2, ActivatesZones
<1>9. ASSUME NEW c \in Call, FindKind(c)
      PROVE  ServerIInv'
  <2>. DEFINE k == disk[call[c].path].kind
              r == [call[c] EXCEPT !.at = k]
  <2>1. /\ call[c].at = "body" /\ call[c].job = "load" /\ disk[call[c].path] # NoModel
        /\ call' = [call EXCEPT ![c].at = k]
        /\ disk' = disk /\ trained' = trained /\ UNCHANGED modelVars
    BY <1>9 DEF FindKind, CallAt, GoTo
  <2>2. call[c] \in CallRecord /\ call[c].path \in Path
    BY <1>1, <2>1 DEF Sound
  <2>3. k \in {"xy", "zones"}
    BY <1>1, <2>1, <2>2, ModelNothing
  <2>4. call' = [call EXCEPT ![c] = r]
    BY <1>1, <2>1
  <2>. HIDE DEF k
  <2>5. r \in CallRecord /\ r.at = k /\ r.job = "load" /\ r.path = call[c].path
    BY <2>1, <2>2, <2>3 DEF CallRecord
  <2>. HIDE DEF r
  <2>6. Sound(r, disk)
    BY <2>2, <2>3, <2>5 DEF Sound
  <2>. QED BY <1>3, <2>1, <2>4, <2>6
<1>10. ASSUME NEW c \in Call, Load(c)
       PROVE  ServerIInv'
  <2>. DEFINE m == disk[call[c].path]
  <2>1. /\ call[c].job = "load" /\ call[c].at = m.kind /\ Done(c)
        /\ disk' = disk /\ trained' = trained
        /\ IF m.kind = "xy" THEN ActivateXY(m) ELSE ActivateZones(m, m, FALSE)
    BY <1>10 DEF Load
  <2>2. call[c].path \in Path /\ call[c] \in CallRecord
    BY <1>1, <2>1 DEF Sound
  <2>3. m \in Stored /\ call[c].at \in {"idle", "body", "saved", "xy", "zones"}
    BY <1>1, <2>2 DEF CallRecord
  <2>4. m.kind \in {"xy", "zones"}
    BY <2>1, <2>3, ModelNothing
  <2>. HIDE DEF m
  <2>. QED BY <1>1, <1>6, <2>1, <2>3, <2>4, ActivatesXY, ActivatesZones
<1>11. ASSUME NEW c \in Call, FailModel(c) \/ StartRecording(c)
       PROVE  ServerIInv'
  <2>1. Done(c) /\ disk' = disk /\ trained' = trained /\ UNCHANGED modelVars
    BY <1>11 DEF FailModel, StartRecording
  <2>. QED BY <1>6, <2>1
<1>12. ASSUME NEW c \in Call, BeginRecording(c)
       PROVE  ServerIInv'
  <2>. DEFINE r == [NoCall EXCEPT !.at = "body", !.job = "record"]
  <2>1. /\ call' = [call EXCEPT ![c] = r] /\ disk' = disk /\ trained' = trained
        /\ UNCHANGED modelVars
    BY <1>12 DEF BeginRecording
  <2>2. Sound(r, disk)
    BY ModelNothing DEF Sound, CallRecord, NoCall
  <2>. HIDE DEF r
  <2>. QED BY <1>3, <2>1, <2>2
<1>13. ASSUME LiveChanges \/ Publish \/ StopRecording \/ UNCHANGED serverVars
       PROVE  ServerIInv'
  <2>1. UNCHANGED <<disk, modelVars, call, trained>>
    BY <1>13 DEF LiveChanges, Publish, StopRecording, serverVars
  <2>2. Activated'
    BY <1>1, <2>1 DEF Activated, StatusTellsWhatRuns, modelVars
  <2>. QED BY <1>1, <2>1, <2>2, ServerPartsNext DEF ServerSound, Activated
<1>. QED BY <1>4, <1>5, <1>7, <1>8, <1>9, <1>10, <1>11, <1>12, <1>13 DEF ServerNext

\* The inductive invariant of the server's models: what each request between
\* two awaits knows of the files and of what runs, whether or not another has
\* written over its file since (multi-node-web-server.ts).
THEOREM ServerInductive == ServerSpec => []ServerIInv
<1>1. ServerIInv /\ [ServerNext]_serverVars => ServerIInv'
  BY ServerStep
<1>. QED BY <1>1, ServerStarts, PTL DEF ServerSpec

\* What GET /api/model says is what runs, whatever the number of requests and
\* of files, save for what an activation that threw, or a file written over
\* before it was read back, has left behind until the next activation.
THEOREM StatusIsTrue == ServerSpec => []StatusTellsWhatRuns
<1>1. ServerIInv => StatusTellsWhatRuns
  BY DEF ServerIInv
<1>. QED BY <1>1, ServerInductive, PTL

-----------------------------------------------------------------------------
(* The calibration.                                                        *)

LEMMA OneElement ==
  \A x : /\ Append(<<>>, x) = <<x>> /\ <<x>> # <<>>
         /\ Tail(<<x>>) = <<>> /\ Head(<<x>>) = x
OBVIOUS

\* What the page's variables are.
LEMMA WizardIs ==
  ASSUME NEW steps, NEW w \in Wizard(steps)
  PROVE  /\ w.running \in BOOLEAN /\ w.waiting \in BOOLEAN /\ w.disabled \in BOOLEAN
         /\ w.steps = steps /\ w.at \in Nat /\ w.validate \in Nat /\ w.model \in 0..2
         /\ w.pass \in {1, 2} /\ w.recapture \in BOOLEAN
         /\ w.button \in {"start", "capture", "training", "retry", "second", "again"}
         /\ w.confused \in SUBSET ToSet(BaseSteps)
BY DEF Wizard

LEMMA BegunIs ==
  ASSUME NEW steps, NEW w \in Wizard(steps)
  PROVE  /\ Begun(w) \in Wizard(steps)
         /\ Begun(w).running /\ Begun(w).at = 0 /\ Begun(w).button = "capture"
         /\ ~Begun(w).recapture
         /\ (Begun(w).waiting <=> w.waiting) /\ Begun(w).steps = steps
BY DEF Begun, Wizard

LEMMA WizardStarts == WizardInit => WizardIInv
<1>. SUFFICES ASSUME WizardInit PROVE WizardIInv
  OBVIOUS
<1>1. wiz \in Wizard(wiz.steps)
  BY DEF WizardInit, Wizard
<1>2. WizardTypeOK
  <2>1. <<>> \in Seq(Account)
    OBVIOUS
  <2>. QED BY <1>1, <2>1 DEF WizardInit, WizardTypeOK
<1>3. ButtonsAgree /\ OnePlace /\ CapturedIsRecorded
  BY DEF WizardInit, ButtonsAgree, OnePlace, CapturedIsRecorded
<1>. QED BY <1>2, <1>3 DEF WizardIInv

\* The recorder and the counts stay records of their fields.
LEMMA RecordsStay ==
  ASSUME WizardIInv, [WizardNext]_wizardVars
  PROVE  /\ counts' \in [starts : Nat, others : Nat, walks : Nat]
         /\ rec' = [by |-> rec'.by, last |-> rec'.last, wire |-> rec'.wire]
         /\ refusals' \in Nat /\ disturbed' \in BOOLEAN
<1>1. /\ counts \in [starts : Nat, others : Nat, walks : Nat]
      /\ rec = [by |-> rec.by, last |-> rec.last, wire |-> rec.wire]
      /\ refusals \in Nat /\ disturbed \in BOOLEAN
  BY DEF WizardIInv, WizardTypeOK
<1>2. counts' \in [starts : Nat, others : Nat, walks : Nat]
  <2>1. \/ counts' = counts
        \/ counts' = [counts EXCEPT !.starts = @ + 1]
        \/ counts' = [counts EXCEPT !.others = @ + 1]
        \/ counts' = [counts EXCEPT !.walks = @ + 1]
    BY DEF WizardNext, wizardVars, ServeStart, EndRecording, OtherPage, Reopen, Capture,
       TakeRefusal, HearEnd, TrainPass, ValidateNext, Recapture
  <2>. QED BY <1>1, <2>1
<1>3. rec' = [by |-> rec'.by, last |-> rec'.last, wire |-> rec'.wire]
  BY <1>1 DEF WizardNext, wizardVars, serverSide, ServeStart, EndRecording, OtherPage, Reopen,
     Capture, TakeRefusal, HearEnd, TrainPass, ValidateNext, Recapture
<1>4. refusals' \in Nat
  <2>1. \/ refusals' = refusals \/ refusals' = refusals + 1
        \/ refusals > 0 /\ refusals' = refusals - 1
    BY DEF WizardNext, wizardVars, serverSide, ServeStart, EndRecording, OtherPage, Reopen,
       Capture, TakeRefusal, HearEnd, TrainPass, ValidateNext, Recapture
  <2>. QED BY <1>1, <2>1
<1>5. disturbed' \in BOOLEAN
  <2>1. \/ disturbed' = disturbed \/ disturbed' = TRUE
        \/ disturbed' = ~(posts = {} /\ rec.by = Nobody /\ rec.wire = <<>>)
    BY DEF WizardNext, wizardVars, pageSide, ServeStart, EndRecording, OtherPage, Reopen,
       Capture, TakeRefusal, HearEnd, TrainPass, ValidateNext, Recapture
  <2>. QED BY <1>1, <2>1
<1>. QED BY <1>2, <1>3, <1>4, <1>5

\* The page counts nothing: what is left to see is that the invariant holds of
\* its own variables, and where the step that is waited for is.
LEMMA NothingCounted ==
  ASSUME WizardIInv, [WizardNext]_wizardVars, NEW steps, wiz' \in Wizard(steps),
         kept' = kept \/ kept' = <<>>, ButtonsAgree', OnePlace'
  PROVE  WizardIInv'
<1>1. kept \in Seq(Account) /\ CapturedIsRecorded
  BY DEF WizardIInv, WizardTypeOK
<1>2. kept' \in Seq(Account) /\ CapturedIsRecorded'
  <2>1. <<>> \in Seq(Account) /\ DOMAIN <<>> = {}
    OBVIOUS
  <2>2. CASE kept' = kept
    BY <1>1, <2>2 DEF CapturedIsRecorded
  <2>3. CASE kept' = <<>>
    BY <2>1, <2>3 DEF CapturedIsRecorded
  <2>. QED BY <2>2, <2>3
<1>3. wiz' \in Wizard(wiz'.steps)
  BY WizardIs
<1>. QED BY <1>2, <1>3, RecordsStay DEF WizardIInv, WizardTypeOK

LEMMA WizardStep == WizardIInv /\ [WizardNext]_wizardVars => WizardIInv'
<1>. SUFFICES ASSUME WizardIInv, [WizardNext]_wizardVars PROVE WizardIInv'
  OBVIOUS
<1>. DEFINE s == wiz.steps
<1>1. /\ wiz \in Wizard(s) /\ kept \in Seq(Account) /\ ButtonsAgree /\ OnePlace
      /\ CapturedIsRecorded /\ refusals \in Nat /\ disturbed \in BOOLEAN
      /\ rec = [by |-> rec.by, last |-> rec.last, wire |-> rec.wire]
  BY DEF WizardIInv, WizardTypeOK
<1>2. /\ wiz.steps = s /\ wiz.at \in Nat /\ wiz.validate \in Nat /\ wiz.model \in 0..2
      /\ wiz.running \in BOOLEAN /\ wiz.waiting \in BOOLEAN /\ wiz.disabled \in BOOLEAN
      /\ wiz.recapture \in BOOLEAN /\ wiz.confused \in SUBSET ToSet(BaseSteps)
      /\ wiz.button \in {"start", "capture", "training", "retry", "second", "again"}
  BY <1>1, WizardIs
<1>. HIDE DEF s
\* The server moves, or another page does, and the page stands.
<1>3. ASSUME wiz' = wiz, kept' = kept, OnePlace'
      PROVE  WizardIInv'
  <2>1. ButtonsAgree'
    BY <1>1, <1>3 DEF ButtonsAgree
  <2>. QED BY <1>1, <1>3, <2>1, NothingCounted
<1>4. CASE ServeStart
  <2>1. /\ wiz' = wiz /\ kept' = kept /\ disturbed' = disturbed
        /\ \E p \in posts :
             /\ posts' = posts \ {p}
             /\ \/ rec' = rec
                \/ rec.by = Nobody /\ rec' = [rec EXCEPT !.by = Mine(p.step)]
    BY <1>4 DEF ServeStart, pageSide
  <2>2. PICK p \in posts :
          /\ posts' = posts \ {p}
          /\ \/ rec' = rec
             \/ rec.by = Nobody /\ rec' = [rec EXCEPT !.by = Mine(p.step)]
    BY <2>1
  <2>3. ASSUME wiz.waiting, ~disturbed
        PROVE  Recorded' \/ Refused'
    <3>1. posts = {p} /\ p.step = Current /\ rec.by = Nobody /\ rec.wire = <<>>
      BY <1>1, <2>2, <2>3 DEF OnePlace, Requested, Recorded, Announced, Refused
    <3>2. posts' = {} /\ rec'.wire = <<>> /\ rec'.by \in {Nobody, Mine(p.step)}
      BY <1>1, <2>2, <3>1
    <3>3. Current' = Current
      BY <2>1 DEF Current
    <3>. QED BY <3>1, <3>2, <3>3 DEF Recorded, Refused
  <2>. QED BY <1>3, <2>1, <2>3 DEF OnePlace
<1>5. CASE EndRecording
  <2>1. /\ rec.by # Nobody /\ wiz' = wiz /\ kept' = kept /\ posts' = posts
        /\ disturbed' = disturbed
        /\ rec'.by = Nobody /\ rec'.wire \in {Append(rec.wire, rec.by), rec.wire}
    BY <1>5 DEF EndRecording, pageSide
  <2>2. ASSUME wiz.waiting, ~disturbed
        PROVE  Announced' \/ Refused'
    <3>1. Recorded
      BY <1>1, <2>1, <2>2 DEF OnePlace, Requested, Announced, Refused
    <3>. QED BY <2>1, <3>1, OneElement DEF Recorded, Announced, Refused, Current
  <2>. QED BY <1>3, <2>1, <2>2 DEF OnePlace
<1>6. CASE OtherPage \/ Reopen
  <2>1. wiz' = wiz /\ kept' = kept /\ disturbed' = TRUE
    BY <1>6 DEF OtherPage, Reopen
  <2>. QED BY <1>3, <2>1 DEF OnePlace
<1>7. CASE Capture
  <2>. DEFINE w == IF wiz.running THEN wiz ELSE Begun(wiz)
              p == [step |-> w.steps[w.at + 1], nth |-> counts.starts]
  <2>1. rec' = rec
    BY <1>7 DEF Capture
  <2>2. CASE wiz' = wiz /\ posts' = posts /\ kept' = kept /\ disturbed' = disturbed
    <3>1. OnePlace'
      BY <1>1, <2>1, <2>2 DEF OnePlace, Requested, Recorded, Announced, Refused, Current
    <3>. QED BY <1>3, <2>2, <3>1
  <2>3. CASE /\ ~wiz.waiting /\ w.at < Len(w.steps)
             /\ wiz' = [w EXCEPT !.disabled = TRUE, !.waiting = TRUE]
             /\ posts' = posts \cup {p}
             /\ kept' = IF wiz.running THEN kept ELSE <<>>
             /\ disturbed' = ~(posts = {} /\ rec.by = Nobody /\ rec.wire = <<>>)
    <3>1. w \in Wizard(s) /\ w.running /\ w.at \in Nat
      BY <1>1, <1>2, BegunIs
    <3>2. w.button \in {"capture", "training", "retry"} /\ ~w.recapture
      BY <1>1, <1>2, BegunIs DEF ButtonsAgree
    <3>3. w.button = "training" => ~(w.at < Len(w.steps))
      BY <1>1, <1>2, BegunIs DEF ButtonsAgree
    <3>4. p.step = w.steps[w.at + 1]
      OBVIOUS
    <3>. HIDE DEF w, p
    <3>5. /\ wiz' \in Wizard(s) /\ wiz'.waiting /\ wiz'.running /\ wiz'.button = w.button
          /\ wiz'.steps = w.steps /\ wiz'.at = w.at /\ wiz'.recapture = w.recapture
      BY <2>3, <3>1 DEF Wizard
    <3>6. ButtonsAgree'
      <4>1. w.button # "training"
        BY <2>3, <3>3
      <4>. QED BY <3>2, <3>5, <4>1 DEF ButtonsAgree
    <3>7. ~disturbed' => Requested'
      <4>1. Current' = p.step
        BY <3>4, <3>5 DEF Current
      <4>2. ASSUME ~disturbed' PROVE posts' = {p} /\ rec'.by = Nobody /\ rec'.wire = <<>>
        BY <2>1, <2>3, <4>2
      <4>. QED BY <4>1, <4>2 DEF Requested
    <3>. QED BY <2>3, <3>5, <3>6, <3>7, NothingCounted DEF OnePlace
  <2>. QED BY <1>7, <2>2, <2>3 DEF Capture
<1>8. CASE TakeRefusal
  <2>1. wiz' = [wiz EXCEPT !.waiting = FALSE, !.disabled = FALSE] /\ kept' = kept
    BY <1>8 DEF TakeRefusal
  <2>2. /\ wiz' \in Wizard(s) /\ ~wiz'.waiting /\ wiz'.running = wiz.running
        /\ wiz'.button = wiz.button /\ wiz'.recapture = wiz.recapture
        /\ wiz'.at = wiz.at /\ wiz'.steps = wiz.steps
    BY <1>1, <2>1 DEF Wizard
  <2>3. ButtonsAgree' /\ OnePlace'
    BY <1>1, <2>2 DEF ButtonsAgree, OnePlace
  <2>. QED BY <2>1, <2>2, <2>3, NothingCounted
<1>9. CASE HearEnd
  <2>1. rec.wire # <<>> /\ rec' = [rec EXCEPT !.wire = Tail(rec.wire)] /\ posts' = posts
        /\ disturbed' = disturbed
    BY <1>9 DEF HearEnd
  <2>2. CASE ~wiz.running \/ ~wiz.waiting
    <3>1. wiz' = wiz /\ kept' = kept /\ ~wiz.waiting
      BY <1>1, <1>9, <2>2 DEF HearEnd, ButtonsAgree
    <3>. QED BY <1>3, <3>1 DEF OnePlace
  <2>3. CASE wiz.running /\ wiz.waiting
    <3>. DEFINE n == wiz.at + 1
                last == n = Len(wiz.steps)
                d == wiz.disabled /\ last
                b == IF last THEN "training" ELSE wiz.button
                own == Head(rec.wire) = Mine(wiz.steps[n])
                k == [own |-> own, disturbed |-> disturbed]
    <3>1. /\ kept' = Append(kept, k)
          /\ wiz' = [wiz EXCEPT !.waiting = FALSE, !.at = n, !.disabled = d, !.button = b]
      BY <1>9, <2>3 DEF HearEnd
    <3>2. ~disturbed => own
      BY <1>1, <2>1, <2>3, OneElement
      DEF OnePlace, Requested, Recorded, Announced, Refused, Current
    <3>3. n \in Nat /\ d \in BOOLEAN /\ own \in BOOLEAN
      BY <1>2
    <3>4. /\ b \in {"start", "capture", "training", "retry", "second", "again"}
          /\ b = "training" => ~(n < Len(wiz.steps))
          /\ b \in {"start", "second", "again"} => wiz.button = b
      <4>1. wiz.button # "training"
        BY <1>1, <2>3 DEF ButtonsAgree
      <4>2. last => Len(wiz.steps) = n
        OBVIOUS
      <4>. QED BY <1>2, <3>3, <4>1, <4>2
    <3>. HIDE DEF n, d, b, own
    <3>5. /\ wiz' \in Wizard(s) /\ ~wiz'.waiting /\ wiz'.running = wiz.running
          /\ wiz'.button = b /\ wiz'.recapture = wiz.recapture
          /\ wiz'.at = n /\ wiz'.steps = wiz.steps
      BY <1>1, <3>1, <3>3, <3>4 DEF Wizard
    <3>6. ButtonsAgree' /\ OnePlace'
      BY <1>1, <2>3, <3>4, <3>5 DEF ButtonsAgree, OnePlace
    <3>7. k \in Account /\ (k.own \/ k.disturbed)
      BY <1>1, <3>2, <3>3 DEF Account
    <3>. HIDE DEF k
    <3>8. kept' \in Seq(Account)
      BY <1>1, <3>1, <3>7
    <3>9. \A i \in DOMAIN kept' : kept'[i] = k \/ (i \in DOMAIN kept /\ kept'[i] = kept[i])
      BY <1>1, <3>1, <3>7
    <3>10. CapturedIsRecorded'
      BY <1>1, <3>7, <3>9 DEF CapturedIsRecorded
    <3>11. wiz' \in Wizard(wiz'.steps)
      BY <3>5, WizardIs
    <3>. QED BY <3>6, <3>8, <3>10, <3>11, RecordsStay DEF WizardIInv, WizardTypeOK
  <2>. QED BY <1>2, <2>2, <2>3
<1>10. CASE TrainPass
  <2>. DEFINE b == IF wiz.pass = 1 THEN "second" ELSE "again"
              m == IF wiz.model < 2 THEN wiz.model + 1 ELSE wiz.model
  <2>1. /\ wiz.button = "training" /\ kept' = kept
        /\ \/ wiz' = [wiz EXCEPT !.running = FALSE, !.at = 0, !.steps = Steps, !.disabled = FALSE,
                                 !.pass = 2, !.button = b, !.model = m]
           \/ wiz' = [wiz EXCEPT !.button = "retry", !.disabled = FALSE]
    BY <1>10 DEF TrainPass
  <2>2. b \in {"second", "again"} /\ m \in 0..2
    BY <1>2
  <2>3. ~wiz.waiting
    BY <1>1, <2>1 DEF ButtonsAgree
  <2>. HIDE DEF b, m
  <2>4. CASE wiz' = [wiz EXCEPT !.running = FALSE, !.at = 0, !.steps = Steps, !.disabled = FALSE,
                                !.pass = 2, !.button = b, !.model = m]
    <3>1. wiz' \in Wizard(Steps) /\ ~wiz'.waiting /\ ~wiz'.running /\ wiz'.button = b
      BY <1>1, <2>2, <2>3, <2>4 DEF Wizard
    <3>2. ButtonsAgree' /\ OnePlace'
      BY <2>2, <3>1 DEF ButtonsAgree, OnePlace
    <3>. QED BY <2>1, <3>1, <3>2, NothingCounted
  <2>5. CASE wiz' = [wiz EXCEPT !.button = "retry", !.disabled = FALSE]
    <3>1. /\ wiz' \in Wizard(s) /\ ~wiz'.waiting /\ wiz'.button = "retry"
          /\ wiz'.running = wiz.running /\ wiz'.recapture = wiz.recapture
      BY <1>1, <2>3, <2>5 DEF Wizard
    <3>2. ButtonsAgree' /\ OnePlace'
      BY <1>1, <3>1 DEF ButtonsAgree, OnePlace
    <3>. QED BY <2>1, <3>1, <3>2, NothingCounted
  <2>. QED BY <2>1, <2>4, <2>5
<1>11. CASE ValidateNext
  <2>. DEFINE next == wiz.validate + 1
              over == next > Len(BaseSteps)
              prior == BaseSteps[next - 1]
              Wrong(predicted) == IF next > 1 /\ predicted # prior THEN {prior, predicted} \ {"unknown"} ELSE {}
              again == wiz.confused # {}
              said == IF wiz.confused = {} THEN "passed" ELSE "mistakes"
  <2>1. /\ wiz.button = "again" /\ kept' = kept
        /\ \E predicted \in ToSet(BaseSteps) \cup {"unknown"} :
             \/ wiz' = [wiz EXCEPT !.validate = 0, !.recapture = again, !.says = said]
             \/ /\ ~over
                /\ wiz' = [wiz EXCEPT !.validate = next, !.says = "walking",
                                      !.confused = wiz.confused \cup Wrong(predicted)]
    BY <1>11 DEF ValidateNext
  <2>2. PICK predicted \in ToSet(BaseSteps) \cup {"unknown"} :
          \/ wiz' = [wiz EXCEPT !.validate = 0, !.recapture = again, !.says = said]
          \/ /\ ~over
             /\ wiz' = [wiz EXCEPT !.validate = next, !.says = "walking",
                                   !.confused = wiz.confused \cup Wrong(predicted)]
    BY <2>1
  <2>3. next \in Nat /\ again \in BOOLEAN /\ said \in {"passed", "mistakes"}
    BY <1>2
  <2>. DEFINE c == wiz.confused \cup Wrong(predicted)
  <2>4. ~over => c \in SUBSET ToSet(BaseSteps)
    <3>1. BaseSteps \in Seq(STRING)
      BY WizardAssumption DEF WizardAssumption
    <3>2. ~over /\ next > 1 => next - 1 \in DOMAIN BaseSteps
      BY <1>2, <3>1
    <3>3. ~over /\ next > 1 => prior \in ToSet(BaseSteps)
      BY <3>2 DEF ToSet
    <3>4. ~over => Wrong(predicted) \subseteq ToSet(BaseSteps)
      BY <3>3
    <3>. QED BY <1>2, <3>4
  <2>5. ~wiz.running /\ ~wiz.waiting
    BY <1>1, <2>1 DEF ButtonsAgree
  <2>. HIDE DEF next, over, c, again, said
  <2>6. /\ wiz' \in Wizard(s) /\ ~wiz'.running /\ ~wiz'.waiting /\ wiz'.button = "again"
    <3>1. CASE wiz' = [wiz EXCEPT !.validate = 0, !.recapture = again, !.says = said]
      BY <1>1, <2>1, <2>3, <2>5, <3>1 DEF Wizard
    <3>2. CASE ~over /\ wiz' = [wiz EXCEPT !.validate = next, !.says = "walking", !.confused = c]
      BY <1>1, <2>1, <2>3, <2>4, <2>5, <3>2 DEF Wizard
    <3>. QED BY <2>2, <3>1, <3>2 DEF c
  <2>7. ButtonsAgree' /\ OnePlace'
    BY <2>6 DEF ButtonsAgree, OnePlace
  <2>. QED BY <2>1, <2>6, <2>7, NothingCounted
<1>12. CASE Recapture
  <2>. DEFINE t == SelectSeq(Steps, LAMBDA x : x \in wiz.confused)
              w == Begun(wiz)
  <2>1. /\ wiz.recapture /\ wiz' = [w EXCEPT !.steps = t] /\ kept' = <<>>
    BY <1>12 DEF Recapture
  <2>2. /\ w \in Wizard(s) /\ w.running /\ w.button = "capture" /\ ~w.recapture
        /\ (w.waiting <=> wiz.waiting)
    BY <1>1, BegunIs
  <2>3. ~wiz.waiting
    BY <1>1, <2>1 DEF ButtonsAgree
  <2>. HIDE DEF t, w
  <2>4. /\ wiz' \in Wizard(t) /\ wiz'.running /\ ~wiz'.waiting /\ wiz'.button = "capture"
        /\ ~wiz'.recapture
    BY <2>1, <2>2, <2>3 DEF Wizard
  <2>5. ButtonsAgree' /\ OnePlace'
    BY <2>4 DEF ButtonsAgree, OnePlace
  <2>. QED BY <2>1, <2>4, <2>5, NothingCounted
<1>13. CASE UNCHANGED wizardVars
  <2>1. wiz' = wiz /\ kept' = kept /\ posts' = posts /\ rec' = rec /\ disturbed' = disturbed
    BY <1>13 DEF wizardVars, serverSide, pageSide
  <2>2. OnePlace'
    BY <1>1, <2>1 DEF OnePlace, Requested, Recorded, Announced, Refused, Current
  <2>. QED BY <1>3, <2>1, <2>2
<1>. QED
  BY <1>4, <1>5, <1>6, <1>7, <1>8, <1>9, <1>10, <1>11, <1>12, <1>13 DEF WizardNext

\* The inductive invariant of the calibration: where the step that is waited for
\* is, which buttons can be pressed, and what the steps counted rest on, with
\* starts refused, failing half way or met by other recordings (fleet.js).
THEOREM WizardInductive == WizardSpec => []WizardIInv
BY WizardStarts, WizardStep, PTL DEF WizardSpec

\* Every step counted was recorded under its own label unless other recordings
\* met that very step, for every list of steps and any number of passes
\* (fleet.js).
THEOREM CountedIsRecorded == WizardSpec => []CapturedIsRecorded
<1>1. WizardIInv => CapturedIsRecorded
  BY DEF WizardIInv
<1>. QED BY <1>1, WizardInductive, PTL

-----------------------------------------------------------------------------
(* The recorder.                                                           *)

LEMMA RecorderNumbers == MaxRecordings \in Nat /\ MaxDatagrams \in Nat
BY RecorderAssumption DEF RecorderAssumption

LEMMA ContentIs ==
  ASSUME NEW c \in Content
  PROVE  /\ c.name \in Recording \cup {None} /\ c.complete \in BOOLEAN
         /\ c.datagrams \in 0..MaxDatagrams /\ c.by \in Request \cup {None}
BY DEF Content

LEMMA RecorderNothing == NoContent \in Content /\ ~NoContent.complete
BY RecorderNumbers DEF NoContent, Content

LEMMA RecorderStarts == Init => RecorderIInv
<1>. SUFFICES ASSUME Init PROVE RecorderIInv
  OBVIOUS
<1>1. NoContent \in Content /\ ~NoContent.complete
  BY RecorderNothing
<1>2. TypeOK
  <2>1. /\ pc \in [Request -> {"idle", "body", "mkdir", "ending", "metadir", "meta"}]
        /\ kind \in [Request -> {"none", "start", "stop", "shutdown"}]
    BY DEF Init
  <2>2. /\ content \in [Request -> Content] /\ meta \in [Recording -> Content]
    BY <1>1 DEF Init
  <2>3. /\ target \in [Request -> Recording \cup {None}]
        /\ origin \in [Recording -> Request \cup {None}]
        /\ name \in Recording \cup {None} /\ stream \in Recording \cup {None}
        /\ supplement \in Request \cup {None}
        /\ active \in BOOLEAN /\ up \in BOOLEAN /\ ended \subseteq Recording
    BY DEF Init
  <2>4. 0 \in 0..MaxDatagrams /\ 0 \in 0..MaxRecordings
    BY RecorderNumbers
  <2>5. /\ datagrams \in 0..MaxDatagrams /\ recordings \in 0..MaxRecordings
        /\ written \in [Recording -> 0..MaxDatagrams]
    BY <2>4 DEF Init
  <2>6. /\ lost \subseteq Recording /\ mixed \subseteq Request
        /\ crossed \subseteq Recording \cup {None} /\ failed \subseteq Recording \cup {None}
    BY DEF Init
  <2>. QED BY <2>1, <2>2, <2>3, <2>5, <2>6 DEF TypeOK
<1>3. StartingAlone /\ EndingIsEnded /\ FlushIsOwn /\ ActiveIsOpen /\ StreamIsOwn
  BY DEF Init, StartingAlone, EndingIsEnded, FlushIsOwn, ActiveIsOpen, StreamIsOwn, Starting
<1>4. NoneAhead
  BY DEF Init, NoneAhead, Stopping, None
<1>5. CompleteIsWhole
  BY <1>1 DEF Init, CompleteIsWhole
<1>. QED BY <1>2, <1>3, <1>4, <1>5 DEF RecorderIInv

\* What the invariant types, in the words of the steps.
LEMMA RecorderTyped ==
  ASSUME TypeOK
  PROVE  /\ name \in Nat /\ datagrams \in Nat /\ recordings \in Nat
         /\ MaxDatagrams \in Nat /\ MaxRecordings \in Nat
         /\ \A k \in Recording : k \in Nat /\ k # None /\ written[k] \in Nat
         /\ \A r \in Request : content[r] \in Content
BY RecorderNumbers DEF TypeOK, Recording, None

\* A request that returns leaves nothing behind.
LEMMA ReturnIs ==
  ASSUME TypeOK, NEW r \in Request, Return(r)
  PROVE  /\ pc' \in [Request -> {"idle", "body", "mkdir", "ending", "metadir", "meta"}]
         /\ kind' \in [Request -> {"none", "start", "stop", "shutdown"}]
         /\ content' \in [Request -> Content]
         /\ target' \in [Request -> Recording \cup {None}]
         /\ pc'[r] = "idle" /\ target'[r] = None
         /\ \A q \in Request : q # r => /\ pc'[q] = pc[q] /\ content'[q] = content[q]
                                        /\ target'[q] = target[q]
<1>1. /\ pc \in [Request -> {"idle", "body", "mkdir", "ending", "metadir", "meta"}]
      /\ kind \in [Request -> {"none", "start", "stop", "shutdown"}]
      /\ content \in [Request -> Content]
      /\ target \in [Request -> Recording \cup {None}]
  BY DEF TypeOK
<1>2. /\ pc' = [pc EXCEPT ![r] = "idle"] /\ kind' = [kind EXCEPT ![r] = "none"]
      /\ content' = [content EXCEPT ![r] = NoContent] /\ target' = [target EXCEPT ![r] = None]
  BY DEF Return, Go
<1>3. NoContent \in Content
  BY RecorderNothing
<1>4. content' \in [Request -> Content]
  BY <1>1, <1>2, <1>3
<1>. QED BY <1>1, <1>2, <1>4

LEMMA RecorderTypes ==
  ASSUME RecorderIInv, [Next]_vars
  PROVE  TypeOK'
<1>1. TypeOK /\ StreamIsOwn /\ NoneAhead
  BY DEF RecorderIInv
<1>2. /\ pc \in [Request -> {"idle", "body", "mkdir", "ending", "metadir", "meta"}]
      /\ kind \in [Request -> {"none", "start", "stop", "shutdown"}]
      /\ content \in [Request -> Content]
      /\ target \in [Request -> Recording \cup {None}]
      /\ active \in BOOLEAN /\ up \in BOOLEAN
      /\ name \in Recording \cup {None} /\ datagrams \in 0..MaxDatagrams
      /\ supplement \in Request \cup {None} /\ stream \in Recording \cup {None}
      /\ recordings \in 0..MaxRecordings /\ ended \subseteq Recording
      /\ written \in [Recording -> 0..MaxDatagrams] /\ meta \in [Recording -> Content]
      /\ origin \in [Recording -> Request \cup {None}]
      /\ lost \subseteq Recording /\ mixed \subseteq Request
      /\ crossed \subseteq Recording \cup {None} /\ failed \subseteq Recording \cup {None}
      /\ MaxRecordings \in Nat /\ MaxDatagrams \in Nat
  BY <1>1, RecorderNumbers DEF TypeOK
<1>3. ASSUME NEW r \in Request, NEW l \in {"idle", "body", "mkdir", "ending", "metadir", "meta"},
             pc' = [pc EXCEPT ![r] = l]
      PROVE  pc' \in [Request -> {"idle", "body", "mkdir", "ending", "metadir", "meta"}]
  BY <1>2, <1>3
<1>4. ASSUME NEW r \in Request, StartRequest(r)
      PROVE  TypeOK'
  <2>1. pc' = [pc EXCEPT ![r] = "body"] /\ kind' = [kind EXCEPT ![r] = "start"]
    BY <1>4 DEF StartRequest, Go
  <2>2. kind' \in [Request -> {"none", "start", "stop", "shutdown"}]
    BY <1>2, <2>1
  <2>. QED BY <1>2, <1>3, <1>4, <2>1, <2>2 DEF StartRequest, TypeOK, statusVars, fileVars, historyVars
<1>5. ASSUME NEW r \in Request, Start(r)
      PROVE  TypeOK'
  <2>1. CASE Return(r) /\ UNCHANGED <<supplement, mixed, crossed>>
    BY <1>1, <1>2, <1>5, <2>1, ReturnIs DEF Start, TypeOK, fileVars
  <2>2. CASE ~(Return(r) /\ UNCHANGED <<supplement, mixed, crossed>>)
    <3>1. /\ pc' = [pc EXCEPT ![r] = "mkdir"] /\ supplement' = r
          /\ UNCHANGED <<kind, content, target>>
          /\ mixed' \subseteq Request /\ crossed' \subseteq Recording \cup {None}
      BY <1>2, <1>5, <2>2 DEF Start, Go
    <3>. QED BY <1>2, <1>3, <1>5, <3>1 DEF Start, TypeOK, fileVars
  <2>. QED BY <2>1, <2>2
<1>6. ASSUME NEW r \in Request, Open(r)
      PROVE  TypeOK'
  <2>. DEFINE k == recordings + 1
              c == [name |-> k, complete |-> FALSE, datagrams |-> 0, by |-> supplement]
  <2>1. /\ recordings < MaxRecordings /\ recordings' = k /\ name' = k /\ stream' = k
        /\ origin' = [origin EXCEPT ![k] = r] /\ active' = TRUE /\ datagrams' = 0
        /\ pc' = [pc EXCEPT ![r] = "metadir"] /\ content' = [content EXCEPT ![r] = c]
        /\ crossed' \subseteq crossed \cup {k} /\ mixed' \subseteq mixed
        /\ UNCHANGED <<supplement, kind, target, ended, written, meta, lost, failed, up>>
    BY <1>6 DEF Open, Go, Flush
  <2>2. k \in Recording /\ k \in 0..MaxRecordings
    BY <1>2, <2>1 DEF Recording
  <2>3. c \in Content
    BY <1>2, <2>2 DEF Content
  <2>. HIDE DEF c, k
  <2>4. content' \in [Request -> Content] /\ origin' \in [Recording -> Request \cup {None}]
    BY <1>2, <2>1, <2>3
  <2>5. crossed' \subseteq Recording \cup {None} /\ mixed' \subseteq Request
    BY <1>2, <2>1, <2>2
  <2>. QED BY <1>2, <1>3, <2>1, <2>2, <2>4, <2>5 DEF TypeOK
<1>7. ASSUME NEW r \in Request, MetaDir(r)
      PROVE  TypeOK'
  <2>1. pc' = [pc EXCEPT ![r] = "meta"] /\ target' = [target EXCEPT ![r] = name]
    BY <1>7 DEF MetaDir, Go
  <2>2. target' \in [Request -> Recording \cup {None}]
    BY <1>2, <2>1
  <2>. QED BY <1>2, <1>3, <1>7, <2>1, <2>2 DEF MetaDir, TypeOK, statusVars, fileVars, historyVars
<1>8. ASSUME NEW r \in Request, WriteMeta(r)
      PROVE  TypeOK'
  <2>1. Return(r) /\ meta' = [meta EXCEPT ![target[r]] = content[r]]
    BY <1>8 DEF WriteMeta
  <2>2. meta' \in [Recording -> Content]
    BY <1>2, <2>1
  <2>. QED BY <1>1, <1>2, <1>8, <2>1, <2>2, ReturnIs DEF WriteMeta, TypeOK, statusVars, fileVars, historyVars
<1>9. ASSUME NEW r \in Request, NEW why \in {"stop", "shutdown"}, Stop(r, why)
      PROVE  TypeOK'
  <2>1. /\ pc' = [pc EXCEPT ![r] = "ending"] /\ kind' = [kind EXCEPT ![r] = why]
        /\ active' = FALSE /\ ended' = ended \cup ({stream} \ {None})
    BY <1>9 DEF Stop, Go
  <2>2. kind' \in [Request -> {"none", "start", "stop", "shutdown"}]
    BY <1>2, <2>1
  <2>3. ended' \subseteq Recording
    BY <1>2, <2>1
  <2>. QED BY <1>2, <1>3, <1>9, <2>1, <2>2, <2>3 DEF Stop, TypeOK, historyVars
<1>10. ASSUME NEW r \in Request, Ended(r)
       PROVE  TypeOK'
  <2>. DEFINE done == kind[r] # "shutdown"
              c == [name |-> name, complete |-> done, datagrams |-> datagrams, by |-> supplement]
  <2>1. /\ pc' = [pc EXCEPT ![r] = "metadir"] /\ content' = [content EXCEPT ![r] = c]
        /\ stream' = None
        /\ UNCHANGED <<statusVars, kind, target, fileVars, meta, historyVars, up>>
    BY <1>10 DEF Ended, Go, Flush, statusVars
  <2>2. done \in BOOLEAN
    OBVIOUS
  <2>. HIDE DEF done
  <2>3. c \in Content
    BY <1>2, <2>2 DEF Content
  <2>. HIDE DEF c
  <2>4. content' \in [Request -> Content]
    BY <1>2, <2>1, <2>3
  <2>. QED BY <1>2, <1>3, <2>1, <2>4 DEF TypeOK, statusVars, fileVars, historyVars
<1>11. CASE Write
  <2>1. active /\ datagrams < MaxDatagrams
    BY <1>11 DEF Write
  <2>2. name \in Recording /\ name \notin ended
    BY <1>1, <1>2, <2>1 DEF StreamIsOwn, NoneAhead
  <2>3. lost' \subseteq Recording
    BY <1>2, <1>11, <2>2 DEF Write
  <2>4. datagrams' \in 0..MaxDatagrams /\ written' \in [Recording -> 0..MaxDatagrams]
    <3>1. CASE stream = None
      BY <1>2, <1>11, <3>1 DEF Write
    <3>2. CASE stream # None
      <4>1. stream = name /\ datagrams = written[name]
        BY <1>1, <2>1, <3>2 DEF StreamIsOwn
      <4>2. datagrams' = datagrams + 1 /\ written' = [written EXCEPT ![name] = @ + 1]
        BY <1>11, <2>2, <3>2, <4>1 DEF Write
      <4>. QED BY <1>2, <2>1, <2>2, <4>1, <4>2
    <3>. QED BY <3>1, <3>2
  <2>. QED BY <1>2, <1>11, <2>3, <2>4 DEF Write, TypeOK, requestVars
<1>12. CASE Crash
  <2>1. NoContent \in Content
    BY RecorderNothing
  <2>2. meta' \in [Recording -> Content]
    BY <1>2, <1>12, <2>1 DEF Crash
  <2>. QED BY <1>2, <1>12, <2>2 DEF Crash, TypeOK, requestVars, statusVars, fileVars, historyVars
<1>13. CASE UNCHANGED vars
  BY <1>2, <1>13 DEF vars, TypeOK, requestVars, statusVars, fileVars, historyVars
<1>14. ASSUME NEW r \in Request, MkdirFails(r)
       PROVE  TypeOK'
  BY <1>1, <1>2, <1>14, ReturnIs DEF MkdirFails, TypeOK, statusVars, fileVars
<1>15. ASSUME NEW r \in Request, FlushFails(r)
       PROVE  TypeOK'
  <2>1. NoContent \in Content
    BY RecorderNothing
  <2>2. meta' \in [Recording -> Content] /\ failed' \subseteq Recording \cup {None}
    BY <1>2, <1>15, <2>1 DEF FlushFails
  <2>. QED BY <1>1, <1>2, <1>15, <2>2, ReturnIs DEF FlushFails, TypeOK, statusVars, fileVars
<1>16. ASSUME NEW r \in Request, EndFails(r)
       PROVE  TypeOK'
  BY <1>1, <1>2, <1>16, ReturnIs DEF EndFails, TypeOK, statusVars, fileVars
<1>. QED BY <1>4, <1>5, <1>6, <1>7, <1>8, <1>9, <1>10, <1>11, <1>12, <1>13, <1>14, <1>15, <1>16
     DEF Next, Run

\* Each step, on the parts of the invariant that are not types.
RecorderParts ==
  /\ NoneAhead /\ StreamIsOwn /\ StartingAlone /\ ActiveIsOpen
  /\ EndingIsEnded /\ FlushIsOwn /\ CompleteIsWhole

\* A step in which a request returns, or nothing happens to the recordings.
LEMMA OnlyReturns ==
  ASSUME TypeOK, RecorderParts, NEW r \in Request,
         \/ Return(r) /\ mixed' \in {mixed, mixed \ {r}}
         \/ UNCHANGED <<requestVars, mixed>>,
         UNCHANGED <<statusVars, stream, fileVars, meta, lost, crossed>>
  PROVE  RecorderParts'
<1>1. /\ NoneAhead /\ StreamIsOwn /\ StartingAlone /\ ActiveIsOpen
      /\ EndingIsEnded /\ FlushIsOwn /\ CompleteIsWhole
  BY DEF RecorderParts
<1>2. /\ \A q \in Request : /\ pc'[q] = "idle" /\ target'[q] = None
                            \/ /\ pc'[q] = pc[q] /\ content'[q] = content[q]
                               /\ target'[q] = target[q] /\ (q \in mixed' <=> q \in mixed)
  BY ReturnIs DEF requestVars
<1>3. recordings \in Nat
  BY RecorderTyped
<1>4. NoneAhead' /\ StreamIsOwn' /\ CompleteIsWhole'
  BY <1>1, <1>2, <1>3 DEF NoneAhead, StreamIsOwn, CompleteIsWhole, Stopping, statusVars, fileVars, None
<1>5. StartingAlone' /\ ActiveIsOpen' /\ EndingIsEnded'
  BY <1>1, <1>2 DEF StartingAlone, ActiveIsOpen, EndingIsEnded, Starting, Stopping, statusVars, fileVars
<1>6. FlushIsOwn'
  BY <1>1, <1>2 DEF FlushIsOwn, FitFor, statusVars, fileVars
<1>. QED BY <1>4, <1>5, <1>6 DEF RecorderParts

LEMMA RecorderPartsStep ==
  ASSUME TypeOK, RecorderParts, [Next]_vars
  PROVE  RecorderParts'
<1>1. /\ NoneAhead /\ StreamIsOwn /\ StartingAlone /\ ActiveIsOpen
      /\ EndingIsEnded /\ FlushIsOwn /\ CompleteIsWhole
  BY DEF RecorderParts
<1>2. /\ name \in Nat /\ datagrams \in Nat /\ recordings \in Nat
      /\ MaxRecordings \in Nat
      /\ \A k \in Recording : k \in Nat /\ k # None /\ written[k] \in Nat
      /\ \A r \in Request : content[r] \in Content
  BY RecorderTyped
<1>3. /\ pc \in [Request -> {"idle", "body", "mkdir", "ending", "metadir", "meta"}]
      /\ content \in [Request -> Content] /\ target \in [Request -> Recording \cup {None}]
      /\ meta \in [Recording -> Content] /\ written \in [Recording -> 0..MaxDatagrams]
      /\ origin \in [Recording -> Request \cup {None}] /\ active \in BOOLEAN
      /\ ended \subseteq Recording /\ recordings \in 0..MaxRecordings
      /\ name \in Recording \cup {None} /\ stream \in Recording \cup {None}
  BY DEF TypeOK
<1>4. ASSUME NEW r \in Request, StartRequest(r)
      PROVE  RecorderParts'
  <2>1. /\ pc[r] = "idle" /\ pc' = [pc EXCEPT ![r] = "body"]
        /\ UNCHANGED <<content, target, statusVars, stream, fileVars, meta, historyVars>>
    BY <1>4 DEF StartRequest, Go, At
  <2>2. \A q \in Request : pc'[q] = IF q = r THEN "body" ELSE pc[q]
    BY <1>3, <2>1
  <2>3. NoneAhead' /\ StreamIsOwn' /\ CompleteIsWhole'
    BY <1>1, <2>1, <2>2 DEF NoneAhead, StreamIsOwn, CompleteIsWhole, Stopping, statusVars,
       fileVars, historyVars
  <2>4. StartingAlone' /\ ActiveIsOpen' /\ EndingIsEnded' /\ FlushIsOwn'
    BY <1>1, <2>1, <2>2 DEF StartingAlone, ActiveIsOpen, EndingIsEnded, FlushIsOwn, FitFor,
       Starting, Stopping, statusVars, fileVars, historyVars
  <2>. QED BY <2>3, <2>4 DEF RecorderParts
<1>5. ASSUME NEW r \in Request, Start(r)
      PROVE  RecorderParts'
  <2>. DEFINE starts == {q \in Request : pc[q] = "mkdir"}
              stops == {q \in Request : pc[q] \in {"ending", "metadir"}}
  <2>1. /\ pc[r] = "body"
        /\ UNCHANGED <<active, name, datagrams, stream, fileVars, meta, lost>>
    BY <1>5 DEF Start, At
  <2>2. CASE Return(r) /\ UNCHANGED <<supplement, mixed, crossed>>
    BY <2>1, <2>2, OnlyReturns DEF statusVars
  <2>3. CASE ~(Return(r) /\ UNCHANGED <<supplement, mixed, crossed>>)
    <3>1. /\ ~active /\ supplement' = r /\ pc' = [pc EXCEPT ![r] = "mkdir"]
          /\ UNCHANGED <<content, target>>
          /\ mixed' = IF starts \cup stops = {} THEN mixed ELSE mixed \cup starts \cup {r}
          /\ crossed' = crossed \cup {name : q \in stops}
      BY <1>5, <2>3 DEF Start, Go
    <3>2. \A q \in Request : pc'[q] = IF q = r THEN "mkdir" ELSE pc[q]
      BY <1>3, <3>1
    <3>3. crossed \subseteq crossed' /\ (stops # {} => name \in crossed')
      BY <3>1
    <3>. HIDE DEF stops
    <3>4. NoneAhead' /\ StreamIsOwn' /\ CompleteIsWhole'
      BY <1>1, <2>1, <3>1, <3>2, <3>3 DEF NoneAhead, StreamIsOwn, CompleteIsWhole, Stopping, fileVars
    <3>5. StartingAlone'
      <4>1. ASSUME NEW p \in Request, Starting(p)', p \notin mixed'
            PROVE  p = r /\ \A q \in Request : Starting(q)' \/ Stopping(q)' => q = r
        <5>1. p = r \/ p \in starts
          BY <3>2, <4>1 DEF Starting
        <5>2. starts \cup stops = {}
          BY <3>1, <4>1, <5>1
        <5>. QED BY <3>2, <5>1, <5>2 DEF Starting, Stopping, stops
      <4>. QED BY <2>1, <3>1, <4>1 DEF StartingAlone
    <3>6. ActiveIsOpen'
      BY <2>1, <3>1 DEF ActiveIsOpen
    <3>7. EndingIsEnded'
      <4>1. \A q \in Request : pc'[q] = "ending" => q \in stops
        BY <3>2 DEF stops
      <4>2. \A q \in Request : pc'[q] = "ending" => name' \in crossed'
        BY <2>1, <3>3, <4>1
      <4>. QED BY <4>2 DEF EndingIsEnded
    <3>8. FlushIsOwn'
      BY <1>1, <2>1, <3>1, <3>2, <3>3 DEF FlushIsOwn, FitFor, fileVars
    <3>. QED BY <3>4, <3>5, <3>6, <3>7, <3>8 DEF RecorderParts
  <2>. QED BY <2>2, <2>3
<1>6. ASSUME NEW r \in Request, Open(r)
      PROVE  RecorderParts'
  <2>. DEFINE k == recordings + 1
              c == [name |-> k, complete |-> FALSE, datagrams |-> 0, by |-> supplement]
  <2>1. /\ pc[r] = "mkdir" /\ recordings < MaxRecordings
        /\ recordings' = k /\ name' = k /\ stream' = k
        /\ origin' = [origin EXCEPT ![k] = r] /\ active' = TRUE /\ datagrams' = 0
        /\ pc' = [pc EXCEPT ![r] = "metadir"] /\ content' = [content EXCEPT ![r] = c]
        /\ crossed' = crossed \cup {k : q \in mixed \cap {r}} /\ mixed' = mixed \ {r}
        /\ UNCHANGED <<supplement, kind, target, ended, written, meta, lost, failed, up>>
    BY <1>6 DEF Open, Go, Flush, At
  <2>2. k \in Recording /\ k \in Nat /\ k > recordings /\ k # None /\ k \notin ended
    BY <1>1, <1>2, <2>1 DEF Recording, NoneAhead, None
  <2>3. r \in mixed \/ /\ supplement = r
                       /\ \A q \in Request : Starting(q) \/ Stopping(q) => q = r
    BY <1>1, <2>1 DEF StartingAlone, Starting
  <2>4. c.name = k /\ ~c.complete
    OBVIOUS
  <2>. HIDE DEF c
  <2>5. /\ \A q \in Request : pc'[q] = IF q = r THEN "metadir" ELSE pc[q]
        /\ \A q \in Request : content'[q] = IF q = r THEN c ELSE content[q]
        /\ origin'[k] = r
        /\ \A j \in Recording : j # k => origin'[j] = origin[j]
    BY <1>3, <2>1, <2>2
  <2>6. written[k] = 0 /\ k \in 1..k
    <3>1. written[k] = 0
      BY <1>1, <2>2 DEF NoneAhead
    <3>2. k \in 1..k
      BY <1>2
    <3>. QED BY <3>1, <3>2
  <2>7. crossed \subseteq crossed' /\ (k \notin crossed' => r \notin mixed)
    BY <2>1
  <2>8. k \notin crossed' => \A q \in Request : Starting(q) \/ Stopping(q) => q = r
    BY <2>3, <2>7
  <2>9. NoneAhead'
    BY <1>1, <1>2, <2>1, <2>2, <2>5 DEF NoneAhead, Stopping
  <2>. HIDE DEF k
  <2>10. StreamIsOwn'
    BY <2>1, <2>2, <2>6 DEF StreamIsOwn
  <2>11. StartingAlone'
    BY <1>1, <2>1, <2>5 DEF StartingAlone, Starting
  <2>12. ActiveIsOpen'
    BY <2>1, <2>3, <2>5, <2>7, <2>8 DEF ActiveIsOpen, Starting, Stopping
  <2>13. EndingIsEnded'
    BY <2>1, <2>5, <2>8 DEF EndingIsEnded, Stopping
  <2>14. FlushIsOwn'
    <3>1. ASSUME NEW q \in Request, pc'[q] = "metadir", k \notin crossed'
          PROVE  content'[q] = c
      BY <2>5, <2>8, <3>1 DEF Stopping
    <3>2. ASSUME NEW q \in Request, pc'[q] = "meta", target'[q] \notin crossed'
          PROVE  /\ content'[q].name = target'[q]
                 /\ content'[q].complete =>
                      /\ target'[q] \in ended' /\ content'[q].datagrams = written'[target'[q]]
                      /\ content'[q].by = origin'[target'[q]]
      <4>1. q # r /\ FitFor(content[q], target[q]) /\ content'[q] = content[q] /\ target'[q] = target[q]
        BY <1>1, <2>1, <2>5, <2>7, <3>2 DEF FlushIsOwn
      <4>2. target[q] \in ended => target[q] \in Recording /\ target[q] # k
        BY <1>3, <2>2
      <4>3. target[q] \in ended => origin'[target[q]] = origin[target[q]]
        BY <2>5, <4>2
      <4>. QED BY <2>1, <4>1, <4>3 DEF FitFor
    <3>. QED BY <2>1, <2>4, <3>1, <3>2 DEF FlushIsOwn, FitFor
  <2>15. CompleteIsWhole'
    <3>1. ASSUME NEW j \in Recording \ crossed, meta[j].complete
          PROVE  /\ j \in ended /\ meta[j].name = j /\ meta[j].by = origin'[j]
                 /\ meta[j].datagrams = written[j]
      <4>1. /\ j \in ended /\ meta[j].name = j /\ meta[j].by = origin[j]
            /\ meta[j].datagrams = written[j]
        BY <1>1, <3>1 DEF CompleteIsWhole
      <4>. QED BY <2>2, <2>5, <4>1
    <3>. QED BY <1>1, <2>1, <2>7, <3>1 DEF CompleteIsWhole
  <2>. QED BY <2>9, <2>10, <2>11, <2>12, <2>13, <2>14, <2>15 DEF RecorderParts
<1>7. ASSUME NEW r \in Request, MetaDir(r)
      PROVE  RecorderParts'
  <2>1. /\ pc[r] = "metadir" /\ pc' = [pc EXCEPT ![r] = "meta"]
        /\ target' = [target EXCEPT ![r] = name]
        /\ UNCHANGED <<content, statusVars, stream, fileVars, meta, historyVars>>
    BY <1>7 DEF MetaDir, Go, At
  <2>2. /\ \A q \in Request : pc'[q] = IF q = r THEN "meta" ELSE pc[q]
        /\ \A q \in Request : target'[q] = IF q = r THEN name ELSE target[q]
    BY <1>3, <2>1
  <2>3. NoneAhead' /\ StreamIsOwn' /\ CompleteIsWhole'
    BY <1>1, <2>1, <2>2 DEF NoneAhead, StreamIsOwn, CompleteIsWhole, Stopping, statusVars,
       fileVars, historyVars
  <2>4. StartingAlone' /\ ActiveIsOpen' /\ EndingIsEnded'
    BY <1>1, <2>1, <2>2 DEF StartingAlone, ActiveIsOpen, EndingIsEnded,
       Starting, Stopping, statusVars, fileVars, historyVars
  <2>5. FlushIsOwn'
    BY <1>1, <2>1, <2>2 DEF FlushIsOwn, FitFor, statusVars, fileVars, historyVars
  <2>. QED BY <2>3, <2>4, <2>5 DEF RecorderParts
<1>8. ASSUME NEW r \in Request, WriteMeta(r)
      PROVE  RecorderParts'
  <2>1. /\ pc[r] = "meta" /\ Return(r)
        /\ meta' = [meta EXCEPT ![target[r]] = content[r]]
        /\ UNCHANGED <<statusVars, stream, fileVars, historyVars>>
    BY <1>8 DEF WriteMeta, At
  <2>2. \A q \in Request : /\ pc'[q] = IF q = r THEN "idle" ELSE pc[q]
                           /\ q # r => content'[q] = content[q] /\ target'[q] = target[q]
                           /\ target'[r] = None
    BY <2>1, ReturnIs
  <2>3. \A j \in Recording : meta'[j] = IF j = target[r] THEN content[r] ELSE meta[j]
    BY <1>3, <2>1
  <2>4. target[r] \notin crossed => FitFor(content[r], target[r])
    BY <1>1, <2>1 DEF FlushIsOwn
  <2>5. CompleteIsWhole'
    BY <1>1, <2>1, <2>3, <2>4 DEF CompleteIsWhole, FitFor, fileVars, historyVars
  <2>6. NoneAhead' /\ StreamIsOwn'
    BY <1>1, <1>2, <2>1, <2>2 DEF NoneAhead, StreamIsOwn, Stopping, statusVars, fileVars, None
  <2>7. StartingAlone' /\ ActiveIsOpen' /\ EndingIsEnded'
    BY <1>1, <2>1, <2>2 DEF StartingAlone, ActiveIsOpen, EndingIsEnded, Starting, Stopping,
       statusVars, fileVars, historyVars
  <2>8. FlushIsOwn'
    BY <1>1, <2>1, <2>2 DEF FlushIsOwn, FitFor, statusVars, fileVars, historyVars
  <2>. QED BY <2>5, <2>6, <2>7, <2>8 DEF RecorderParts
<1>9. ASSUME NEW r \in Request, NEW why, Stop(r, why)
      PROVE  RecorderParts'
  <2>1. /\ pc[r] = "idle" /\ active /\ active' = FALSE /\ pc' = [pc EXCEPT ![r] = "ending"]
        /\ ended' = ended \cup ({stream} \ {None})
        /\ UNCHANGED <<content, target, name, datagrams, supplement, stream,
                       recordings, written, origin, meta, historyVars>>
    BY <1>9 DEF Stop, Go, At
  <2>2. \A q \in Request : pc'[q] = IF q = r THEN "ending" ELSE pc[q]
    BY <1>3, <2>1
  <2>3. /\ name # None /\ name \in 1..recordings
        /\ stream # None => stream = name /\ datagrams = written[name]
    BY <1>1, <1>2, <2>1 DEF StreamIsOwn, NoneAhead, None
  <2>4. name \notin crossed =>
          /\ stream = name /\ supplement = origin[name]
          /\ \A q \in Request : ~Starting(q) /\ pc[q] # "ending"
    BY <1>1, <2>1 DEF ActiveIsOpen
  <2>5. ended \subseteq ended' /\ (name \notin crossed => name \in ended')
    BY <2>1, <2>3, <2>4
  <2>6. NoneAhead' /\ StreamIsOwn'
    BY <1>1, <1>2, <2>1, <2>2, <2>3 DEF NoneAhead, StreamIsOwn, Stopping, None
  <2>7. StartingAlone' /\ ActiveIsOpen'
    BY <1>1, <2>1, <2>2 DEF StartingAlone, ActiveIsOpen, Starting, Stopping, historyVars
  <2>8. EndingIsEnded'
    BY <2>1, <2>2, <2>3, <2>4, <2>5 DEF EndingIsEnded, Starting, historyVars
  <2>9. FlushIsOwn'
    BY <1>1, <2>1, <2>2, <2>5 DEF FlushIsOwn, FitFor, historyVars
  <2>10. CompleteIsWhole'
    BY <1>1, <2>1, <2>5 DEF CompleteIsWhole, historyVars
  <2>. QED BY <2>6, <2>7, <2>8, <2>9, <2>10 DEF RecorderParts
<1>10. ASSUME NEW r \in Request, Ended(r)
       PROVE  RecorderParts'
  <2>. DEFINE done == kind[r] # "shutdown"
              c == [name |-> name, complete |-> done, datagrams |-> datagrams, by |-> supplement]
  <2>1. /\ pc[r] = "ending" /\ pc' = [pc EXCEPT ![r] = "metadir"]
        /\ content' = [content EXCEPT ![r] = c] /\ stream' = None
        /\ UNCHANGED <<statusVars, kind, target, fileVars, meta, historyVars, up>>
    BY <1>10 DEF Ended, Go, Flush, At, statusVars
  <2>2. c.name = name /\ c.datagrams = datagrams /\ c.by = supplement
    OBVIOUS
  <2>. HIDE DEF c, done
  <2>3. /\ \A q \in Request : pc'[q] = IF q = r THEN "metadir" ELSE pc[q]
        /\ \A q \in Request : content'[q] = IF q = r THEN c ELSE content[q]
    BY <1>3, <2>1
  <2>4. name \notin crossed =>
          /\ ~active /\ name \in ended
          /\ datagrams = written[name] /\ supplement = origin[name]
    BY <1>1, <2>1 DEF EndingIsEnded
  <2>5. UNCHANGED <<active, name, datagrams, supplement, recordings, ended, written, origin,
                    lost, mixed, crossed>>
    BY <2>1 DEF statusVars, fileVars, historyVars
  <2>6. NoneAhead' /\ StreamIsOwn'
    BY <1>1, <1>2, <2>1, <2>3, <2>5 DEF NoneAhead, StreamIsOwn, Stopping, None
  <2>7. StartingAlone'
    BY <1>1, <2>1, <2>3, <2>5 DEF StartingAlone, Starting, Stopping
  <2>8. ActiveIsOpen' /\ EndingIsEnded'
    BY <1>1, <2>1, <2>3, <2>4, <2>5 DEF ActiveIsOpen, EndingIsEnded, Starting
  <2>9. FlushIsOwn'
    BY <1>1, <2>1, <2>2, <2>3, <2>4, <2>5 DEF FlushIsOwn, FitFor
  <2>10. CompleteIsWhole'
    BY <1>1, <2>1, <2>5 DEF CompleteIsWhole
  <2>. QED BY <2>6, <2>7, <2>8, <2>9, <2>10 DEF RecorderParts
<1>11. CASE Write
  <2>1. active /\ name \in Recording /\ name \notin ended /\ name \in 1..recordings
    BY <1>1, <1>2, <1>3, <1>11 DEF Write, StreamIsOwn, NoneAhead, None
  <2>2. /\ UNCHANGED <<requestVars, active, name, supplement, stream, recordings, ended, origin,
                       meta, mixed, crossed>>
        /\ lost' \subseteq lost \cup {name}
        /\ stream = name => lost' = lost
    BY <1>11, <2>1 DEF Write
  <2>3. CASE stream = None
    <3>1. datagrams' = datagrams /\ written' = written
      BY <1>11, <2>3 DEF Write
    <3>2. name \in crossed
      BY <1>1, <1>2, <2>1, <2>3 DEF ActiveIsOpen
    <3>3. NoneAhead' /\ StreamIsOwn' /\ CompleteIsWhole'
      BY <1>1, <2>2, <3>1, <3>2 DEF NoneAhead, StreamIsOwn, CompleteIsWhole, Stopping, requestVars
    <3>4. StartingAlone' /\ ActiveIsOpen' /\ EndingIsEnded' /\ FlushIsOwn'
      BY <1>1, <2>2, <3>1 DEF StartingAlone, ActiveIsOpen, EndingIsEnded, FlushIsOwn, FitFor,
         Starting, Stopping, requestVars
    <3>. QED BY <3>3, <3>4 DEF RecorderParts
  <2>4. CASE stream # None
    <3>1. stream = name /\ datagrams = written[name]
      BY <1>1, <2>1, <2>4 DEF StreamIsOwn
    <3>2. datagrams' = datagrams + 1 /\ written' = [written EXCEPT ![name] = @ + 1]
      BY <1>11, <2>1, <2>4, <3>1 DEF Write
    <3>3. \A j \in Recording : written'[j] = IF j = name THEN written[j] + 1 ELSE written[j]
      BY <1>3, <3>2
    <3>4. ended' = ended /\ \A j \in ended : written'[j] = written[j]
      BY <1>3, <2>1, <2>2, <3>3
    <3>5. NoneAhead' /\ StreamIsOwn'
      BY <1>1, <1>2, <2>1, <2>2, <3>1, <3>2, <3>3 DEF NoneAhead, StreamIsOwn, Stopping, requestVars
    <3>6. StartingAlone' /\ ActiveIsOpen' /\ EndingIsEnded'
      BY <1>1, <2>1, <2>2 DEF StartingAlone, ActiveIsOpen, EndingIsEnded, Starting, Stopping,
         requestVars
    <3>7. FlushIsOwn'
      BY <1>1, <2>2, <3>4 DEF FlushIsOwn, FitFor, requestVars
    <3>8. CompleteIsWhole'
      BY <1>1, <2>2, <3>1, <3>4 DEF CompleteIsWhole
    <3>. QED BY <3>5, <3>6, <3>7, <3>8 DEF RecorderParts
  <2>. QED BY <2>3, <2>4
\* Metadata that are torn are not complete.
<1>12. ASSUME \A j \in Recording : meta'[j] \in {meta[j], NoContent},
              UNCHANGED <<statusVars, stream, fileVars, lost, mixed, crossed>>,
              UNCHANGED requestVars \/ \E r \in Request : Return(r)
       PROVE  RecorderParts'
  <2>1. \A q \in Request : \/ pc'[q] = "idle" /\ target'[q] = None
                           \/ /\ pc'[q] = pc[q] /\ content'[q] = content[q]
                              /\ target'[q] = target[q]
    BY <1>12, ReturnIs DEF requestVars
  <2>2. CompleteIsWhole'
    BY <1>1, <1>12, RecorderNothing DEF CompleteIsWhole, fileVars
  <2>3. NoneAhead' /\ StreamIsOwn'
    BY <1>1, <1>2, <1>12, <2>1 DEF NoneAhead, StreamIsOwn, Stopping, statusVars, fileVars, None
  <2>4. StartingAlone' /\ ActiveIsOpen' /\ EndingIsEnded' /\ FlushIsOwn'
    BY <1>1, <1>12, <2>1 DEF StartingAlone, ActiveIsOpen, EndingIsEnded, FlushIsOwn, FitFor,
       Starting, Stopping, statusVars, fileVars
  <2>. QED BY <2>2, <2>3, <2>4 DEF RecorderParts
<1>13. ASSUME NEW r \in Request, FlushFails(r)
       PROVE  RecorderParts'
  <2>1. \A j \in Recording : meta'[j] \in {meta[j], NoContent}
    BY <1>3, <1>13 DEF FlushFails
  <2>. QED BY <1>12, <1>13, <2>1 DEF FlushFails
<1>14. CASE Crash
  <2>1. \A j \in Recording : meta'[j] \in {meta[j], NoContent}
    BY <1>14 DEF Crash
  <2>. QED BY <1>12, <1>14, <2>1 DEF Crash, historyVars
<1>15. ASSUME NEW r \in Request, MkdirFails(r) \/ EndFails(r)
       PROVE  RecorderParts'
  BY <1>15, OnlyReturns DEF MkdirFails, EndFails
<1>16. CASE UNCHANGED vars
  BY <1>12, <1>16 DEF vars, historyVars
<1>. QED BY <1>4, <1>5, <1>6, <1>7, <1>8, <1>9, <1>10, <1>11, <1>13, <1>14, <1>15, <1>16 DEF Next, Run

\* The inductive invariant of the recorder, however requests, errors, timer and
\* shutdown overlap (DashboardRecorder.start, stop, flushMeta).
THEOREM RecorderInductive == Spec => []RecorderIInv
<1>1. RecorderIInv <=> TypeOK /\ RecorderParts
  BY DEF RecorderIInv, RecorderParts
<1>2. RecorderIInv /\ [Next]_vars => RecorderParts'
  BY <1>1, RecorderPartsStep
<1>3. RecorderIInv /\ [Next]_vars => TypeOK'
  BY RecorderTypes
<1>. QED BY <1>1, <1>2, <1>3, RecorderStarts, PTL DEF Spec

\* A recording marked complete is whole and no datagram of an active recording
\* is missing, for any number of requests, except for recordings that another
\* start crossed (start, stop, write).
THEOREM RecordingsAreWhole == Spec => []CompleteIsWhole
<1>1. RecorderIInv => CompleteIsWhole
  BY DEF RecorderIInv
<1>. QED BY <1>1, RecorderInductive, PTL

\* A closed recording stays closed, whatever comes next.
LEMMA ClosedStep ==
  ASSUME RecorderIInv, [Next]_vars, NEW k \in Recording, NEW c \in BOOLEAN, Closed(k, c)
  PROVE  Closed(k, c)'
<1>1. TypeOK /\ NoneAhead /\ StreamIsOwn
  BY DEF RecorderIInv
<1>2. /\ pc \in [Request -> {"idle", "body", "mkdir", "ending", "metadir", "meta"}]
      /\ target \in [Request -> Recording \cup {None}]
      /\ meta \in [Recording -> Content] /\ written \in [Recording -> 0..MaxDatagrams]
      /\ recordings \in Nat /\ k \in Nat /\ k # None
  BY <1>1, RecorderTyped DEF TypeOK
<1>3. /\ k \in ended /\ meta[k].name = k /\ meta[k].complete = c
      /\ meta[k].datagrams = written[k]
      /\ \A r \in Request : /\ pc[r] \in {"ending", "metadir"} => name # k
                            /\ pc[r] = "meta" => target[r] # k
  BY DEF Closed, Final
<1>4. k \in 1..recordings /\ (active => name # k)
  BY <1>1, <1>3 DEF NoneAhead, StreamIsOwn
<1>. DEFINE Still(q) == /\ pc'[q] \in {"ending", "metadir"} => name' # k
                        /\ pc'[q] = "meta" => target'[q] # k
            Kept == /\ k \in ended' /\ meta'[k] = meta[k] /\ written'[k] = written[k]
                    /\ \A q \in Request : Still(q)
<1>5. SUFFICES Kept
  BY <1>3 DEF Closed, Final
<1>6. ASSUME NEW r \in Request, NEW l \in {"body", "idle", "mkdir"}, pc' = [pc EXCEPT ![r] = l],
             UNCHANGED <<target, ended, meta, written, name>>
      PROVE  Kept
  <2>1. \A q \in Request : pc'[q] = IF q = r THEN l ELSE pc[q]
    BY <1>2, <1>6
  <2>. QED BY <1>3, <1>6, <2>1
<1>7. ASSUME NEW r \in Request, Return(r), meta'[k] = meta[k], UNCHANGED <<ended, written, name>>
      PROVE  Kept
  BY <1>1, <1>3, <1>7, ReturnIs
<1>8. ASSUME NEW r \in Request, StartRequest(r) \/ Start(r) \/ MkdirFails(r) \/ EndFails(r)
      PROVE  Kept
  <2>1. UNCHANGED <<ended, meta, written, name>>
    BY <1>8 DEF StartRequest, Start, MkdirFails, EndFails, statusVars, fileVars
  <2>2. \/ Return(r)
        \/ target' = target /\ \E l \in {"body", "mkdir"} : pc' = [pc EXCEPT ![r] = l]
    BY <1>8 DEF StartRequest, Start, MkdirFails, EndFails, Go
  <2>. QED BY <1>6, <1>7, <2>1, <2>2
<1>9. ASSUME NEW r \in Request, Open(r)
      PROVE  Kept
  <2>1. /\ name' = recordings + 1 /\ UNCHANGED <<ended, meta, written, target>>
        /\ pc' = [pc EXCEPT ![r] = "metadir"]
    BY <1>9 DEF Open, Go
  <2>2. name' # k
    BY <1>2, <1>4, <2>1
  <2>3. \A q \in Request : pc'[q] = IF q = r THEN "metadir" ELSE pc[q]
    BY <1>2, <2>1
  <2>. QED BY <1>3, <2>1, <2>2, <2>3
<1>10. ASSUME NEW r \in Request, MetaDir(r) \/ Ended(r)
       PROVE  Kept
  <2>1. /\ pc[r] \in {"metadir", "ending"} /\ UNCHANGED <<ended, meta, written, name>>
        /\ \/ pc' = [pc EXCEPT ![r] = "meta"] /\ target' = [target EXCEPT ![r] = name]
           \/ pc' = [pc EXCEPT ![r] = "metadir"] /\ target' = target
    BY <1>10 DEF MetaDir, Ended, At, Go, statusVars, fileVars
  <2>2. name # k
    BY <1>3, <2>1
  <2>3. \A q \in Request : \/ pc'[q] = pc[q] /\ target'[q] = target[q]
                           \/ pc'[q] = "meta" /\ target'[q] = name
                           \/ pc'[q] = "metadir"
    BY <1>2, <2>1
  <2>. QED BY <1>3, <2>1, <2>2, <2>3
<1>11. ASSUME NEW r \in Request, WriteMeta(r) \/ FlushFails(r)
       PROVE  Kept
  <2>1. /\ Return(r) /\ UNCHANGED <<ended, written, name>>
        /\ \/ meta' = meta
           \/ pc[r] = "meta" /\ \E m : meta' = [meta EXCEPT ![target[r]] = m]
    BY <1>11 DEF WriteMeta, FlushFails, At, statusVars, fileVars
  <2>2. meta'[k] = meta[k]
    BY <1>2, <1>3, <2>1
  <2>. QED BY <1>7, <2>1, <2>2
<1>12. ASSUME NEW r \in Request, NEW why, Stop(r, why)
       PROVE  Kept
  <2>1. /\ active /\ ended \subseteq ended' /\ UNCHANGED <<meta, written, name, target>>
        /\ pc' = [pc EXCEPT ![r] = "ending"]
    BY <1>12 DEF Stop, Go
  <2>2. \A q \in Request : pc'[q] = IF q = r THEN "ending" ELSE pc[q]
    BY <1>2, <2>1
  <2>. QED BY <1>3, <1>4, <2>1, <2>2
<1>13. CASE Write
  <2>1. active /\ UNCHANGED <<ended, meta, name, pc, target>>
    BY <1>13 DEF Write, requestVars
  <2>2. \/ written' = written
        \/ /\ stream = name
           /\ \E n : written' = [written EXCEPT ![stream] = n]
    BY <1>1, <1>13 DEF Write, StreamIsOwn
  <2>3. written'[k] = written[k]
    BY <1>2, <1>4, <2>1, <2>2
  <2>. QED BY <1>3, <2>1, <2>3
<1>14. CASE Crash
  <2>1. UNCHANGED <<ended, written, name, pc, target>>
    BY <1>14 DEF Crash, requestVars, statusVars, fileVars
  <2>2. k \notin {target[r] : r \in {q \in Request : pc[q] = "meta"}}
    BY <1>3
  <2>3. meta'[k] = meta[k]
    BY <1>14, <2>2 DEF Crash
  <2>. QED BY <1>3, <2>1, <2>3
<1>15. CASE UNCHANGED vars
  BY <1>3, <1>15 DEF vars, requestVars, statusVars, fileVars
<1>. QED BY <1>8, <1>9, <1>10, <1>11, <1>12, <1>13, <1>14, <1>15 DEF Next, Run

\* The metadata of a closed recording, with or without the mark, are final,
\* whatever crosses whatever later (stop, flushMeta).
THEOREM MetadataAreFinal == Spec => ClosedStays
<1>1. RecorderIInv /\ [Next]_vars
        => [\A k \in Recording, c \in BOOLEAN : Closed(k, c) => Closed(k, c)']_vars
  BY ClosedStep
<1>. QED BY <1>1, RecorderInductive, PTL DEF Spec, ClosedStays

-----------------------------------------------------------------------------
(* The slots of the receivers.                                             *)

\* NthOr is the member of that rank, or nothing.
LEMMA NthOrIs ==
  ASSUME NEW set \in SUBSET Nat, IsFiniteSet(set), NEW i \in Nat \ {0}
  PROVE  NthOr(set, i) = Unset \/ (NthOr(set, i) \in set /\ Rank(set, NthOr(set, i)) = i)
<1>1. Cardinality(set) \in Nat
  BY FS_CardinalityType
<1>2. CASE i <= Cardinality(set)
  BY <1>1, <1>2, NthIs DEF NthOr
<1>3. CASE ~(i <= Cardinality(set))
  BY <1>3 DEF NthOr
<1>. QED BY <1>2, <1>3

\* Receivers and slots are numbers from 1, and finitely many.
LEMMA SlotsFinite ==
  /\ Receiver \in SUBSET (Nat \ {0}) /\ Slot \in SUBSET (Nat \ {0})
  /\ \A set \in SUBSET Receiver : set \in SUBSET Nat /\ IsFiniteSet(set)
  /\ \A set \in SUBSET Slot : set \in SUBSET Nat /\ IsFiniteSet(set)
<1>1. IsFiniteSet(Receiver) /\ Receiver = 1..Cardinality(Receiver)
  BY SlotsAssumption DEF SlotsAssumption
<1>2. Cardinality(Receiver) \in Nat
  BY <1>1, FS_CardinalityType
<1>3. Receiver \in SUBSET (Nat \ {0})
  BY <1>1, <1>2
<1>4. Slots \in Nat
  BY SlotsAssumption DEF SlotsAssumption
<1>5. Slot \in SUBSET (Nat \ {0}) /\ IsFiniteSet(Slot)
  BY <1>4, FS_Interval DEF Slot
<1>. QED BY <1>1, <1>3, <1>5, FS_Subset

LEMMA NthReceiverOr ==
  ASSUME NEW known \in SUBSET Receiver, NEW i \in Nat \ {0}
  PROVE  NthOr(known, i) \in Receiver \cup {Unset}
<1>1. known \in SUBSET Nat /\ IsFiniteSet(known)
  BY SlotsFinite
<1>. QED BY <1>1, NthOrIs

\* Who had a slot keeps it, and who gets one gets one nobody has.
LEMMA AssignIs ==
  ASSUME NEW g \in [Receiver -> Slot \cup {Unset}], NEW known \in SUBSET Receiver,
         \A d, e \in Receiver : g[d] # Unset /\ g[d] = g[e] => d = e
  PROVE  LET h == Assign(g, known)
         IN  /\ h \in [Receiver -> Slot \cup {Unset}]
             /\ \A d \in Receiver : g[d] # Unset => h[d] = g[d]
             /\ \A d, e \in Receiver : h[d] # Unset /\ h[d] = h[e] => d = e
<1>. DEFINE fresh == {d \in known : g[d] = Unset}
            free == {n \in Slot : \A d \in Receiver : g[d] # n}
            h == Assign(g, known)
<1>1. /\ fresh \in SUBSET Nat /\ IsFiniteSet(fresh) /\ free \in SUBSET Nat /\ IsFiniteSet(free)
      /\ Unset \notin Slot
  <2>1. fresh \in SUBSET Receiver /\ free \in SUBSET Slot
    OBVIOUS
  <2>. QED BY <2>1, SlotsFinite DEF Unset
<1>2. \A d \in fresh : Rank(fresh, d) \in Nat \ {0}
  BY <1>1, RankIs, FS_CardinalityType
<1>3. \A d \in Receiver : h[d] = IF d \in fresh THEN NthOr(free, Rank(fresh, d)) ELSE g[d]
  BY DEF Assign
<1>4. h = [d \in Receiver |-> IF d \in fresh THEN NthOr(free, Rank(fresh, d)) ELSE g[d]]
  BY DEF Assign
<1>5. \A d \in fresh : \/ h[d] = Unset
                       \/ h[d] \in free /\ Rank(free, h[d]) = Rank(fresh, d)
  <2>1. \A d \in fresh : d \in Receiver
    OBVIOUS
  <2>. HIDE DEF h, fresh, free
  <2>. TAKE d \in fresh
  <2>2. h[d] = NthOr(free, Rank(fresh, d))
    BY <1>3, <2>1
  <2>3. Rank(fresh, d) \in Nat \ {0}
    BY <1>2
  <2>. QED BY <1>1, <2>2, <2>3, NthOrIs
<1>6. \A d \in Receiver : d \notin fresh => h[d] = g[d]
  BY <1>3
<1>7. \A d \in Receiver : g[d] # Unset => d \notin fresh
  OBVIOUS
<1>8. \A n \in free : n \in Slot /\ \A d \in Receiver : g[d] # n
  OBVIOUS
<1>9. h \in [Receiver -> Slot \cup {Unset}]
  <2>1. \A d \in Receiver : h[d] \in Slot \cup {Unset}
    <3>. HIDE DEF h, fresh, free
    <3>. QED BY <1>5, <1>6, <1>8
  <2>2. h = [d \in Receiver |-> h[d]]
    BY DEF Assign
  <2>. HIDE DEF h
  <2>. QED BY <2>1, <2>2
<1>10. ASSUME NEW d \in Receiver, NEW e \in Receiver, h[d] # Unset, h[d] = h[e]
       PROVE  d = e
  <2>. HIDE DEF h, fresh, free
  <2>1. CASE d \in fresh /\ e \in fresh
    <3>1. Rank(fresh, d) = Rank(fresh, e)
      BY <2>1, <1>10, <1>5
    <3>. QED BY <3>1, <2>1, <1>1, RankOnce
  <2>2. CASE d \in fresh /\ e \notin fresh
    BY <2>2, <1>10, <1>5, <1>6, <1>8
  <2>3. CASE d \notin fresh /\ e \in fresh
    BY <2>3, <1>10, <1>5, <1>6, <1>8
  <2>4. CASE d \notin fresh /\ e \notin fresh
    BY <2>4, <1>10, <1>6
  <2>. QED BY <2>1, <2>2, <2>3, <2>4
<1>. HIDE DEF h, fresh, free
<1>11. /\ h \in [Receiver -> Slot \cup {Unset}]
       /\ \A d \in Receiver : g[d] # Unset => h[d] = g[d]
       /\ \A d, e \in Receiver : h[d] # Unset /\ h[d] = h[e] => d = e
  BY <1>6, <1>7, <1>9, <1>10
<1>. QED BY <1>11 DEF h

LEMMA SlotsStart == SlotsInit => SlotsIInv
<1>. SUFFICES ASSUME SlotsInit PROVE SlotsIInv
  OBVIOUS
<1>1. SlotsTypeOK
  BY DEF SlotsInit, SlotsTypeOK, Nothing
<1>2. GivenOnce
  BY DEF SlotsInit, GivenOnce
<1>3. CardIsGiven
  BY DEF SlotsInit, CardIsGiven, Nothing, Surface
<1>4. MappingIsOwn
  BY DEF SlotsInit, MappingIsOwn, Nothing
<1>. QED BY <1>1, <1>2, <1>3, <1>4 DEF SlotsIInv

\* The explicit ids: of receivers, none twice.
LEMMA SlotIdsAre ==
  ASSUME SlotsTypeOK
  PROVE  /\ Len(slotIds) \in Nat
         /\ \A n \in Slot : n <= Len(slotIds) => slotIds[n] \in Receiver
         /\ \A m, n \in Slot : m <= Len(slotIds) /\ n <= Len(slotIds) /\ slotIds[m] = slotIds[n]
                             => m = n
         /\ slotIds = <<>> => Len(slotIds) = 0
<1>1. slotIds \in Seq(Receiver) /\ \A i, j \in DOMAIN slotIds : slotIds[i] = slotIds[j] => i = j
  BY SlotsAssumption DEF SlotsAssumption, SlotsTypeOK
<1>2. Len(slotIds) \in Nat /\ DOMAIN slotIds = 1..Len(slotIds)
  BY <1>1
<1>3. \A n \in Slot : n \in Nat /\ n >= 1
  BY SlotsAssumption DEF SlotsAssumption, Slot
<1>4. \A n \in Slot : n <= Len(slotIds) => n \in DOMAIN slotIds
  BY <1>2, <1>3
<1>5. \A n \in DOMAIN slotIds : slotIds[n] \in Receiver
  BY <1>1
<1>. QED BY <1>1, <1>2, <1>4, <1>5

\* What a surface draws: with explicit ids theirs, without each receiver where
\* it was given a slot; and a slot that was given stays given.
LEMMA DrawIs ==
  ASSUME SlotsIInv, NEW s \in Surface, Draw(s)
  PROVE  /\ given' \in [Surface -> [Receiver -> Slot \cup {Unset}]]
         /\ card' \in [Surface -> [Slot -> Receiver \cup {Unset}]]
         /\ \A u \in Surface \ {s} : given'[u] = given[u] /\ card'[u] = card[u]
         /\ \A d \in Receiver : given[s][d] # Unset => given'[s][d] = given[s][d]
         /\ \A d, e \in Receiver : given'[s][d] # Unset /\ given'[s][d] = given'[s][e] => d = e
         /\ \A n \in Slot : card'[s][n] # Unset =>
              IF slotIds = <<>> THEN given'[s][card'[s][n]] = n
              ELSE n <= Len(slotIds) /\ card'[s][n] = slotIds[n]
<1>1. /\ given \in [Surface -> [Receiver -> Slot \cup {Unset}]]
      /\ card \in [Surface -> [Slot -> Receiver \cup {Unset}]]
      /\ latest \in SUBSET Receiver
      /\ \A d, e \in Receiver : given[s][d] # Unset /\ given[s][d] = given[s][e] => d = e
  BY DEF SlotsIInv, SlotsTypeOK, GivenOnce
<1>2. Unset \notin Receiver /\ Unset \notin Slot
  BY SlotsFinite DEF Unset
<1>3. CASE slotIds # <<>>
  <2>. DEFINE row == [n \in Slot |->
                       IF n <= Len(slotIds) /\ slotIds[n] \in latest THEN slotIds[n] ELSE Unset]
  <2>1. given' = given /\ card' = [card EXCEPT ![s] = row]
    BY <1>3 DEF Draw, Allocate
  <2>2. row \in [Slot -> Receiver \cup {Unset}]
    BY <1>1
  <2>3. \A n \in Slot : row[n] # Unset => n <= Len(slotIds) /\ row[n] = slotIds[n]
    OBVIOUS
  <2>. HIDE DEF row
  <2>4. card'[s] = row /\ \A u \in Surface \ {s} : card'[u] = card[u]
    BY <1>1, <2>1
  <2>5. card' \in [Surface -> [Slot -> Receiver \cup {Unset}]]
    BY <1>1, <2>1, <2>2
  <2>. QED BY <1>1, <1>3, <2>1, <2>3, <2>4, <2>5
<1>4. CASE slotIds = <<>>
  <2>. DEFINE h == Assign(given[s], latest)
              row == [n \in Slot |-> IF \E d \in latest : h[d] = n
                                      THEN CHOOSE d \in latest : h[d] = n ELSE Unset]
  <2>1. given' = [given EXCEPT ![s] = h] /\ card' = [card EXCEPT ![s] = row]
    BY <1>4 DEF Draw, Allocate
  <2>2. given[s] \in [Receiver -> Slot \cup {Unset}]
    BY <1>1
  <2>3. /\ h \in [Receiver -> Slot \cup {Unset}]
        /\ \A d \in Receiver : given[s][d] # Unset => h[d] = given[s][d]
        /\ \A d, e \in Receiver : h[d] # Unset /\ h[d] = h[e] => d = e
    BY <1>1, <2>2, AssignIs
  <2>. HIDE DEF h
  <2>4. \A n \in Slot : row[n] = Unset \/ (row[n] \in latest /\ h[row[n]] = n)
    OBVIOUS
  <2>5. row \in [Slot -> Receiver \cup {Unset}]
    BY <1>1
  <2>. HIDE DEF row
  <2>6. /\ given'[s] = h /\ card'[s] = row
        /\ \A u \in Surface \ {s} : card'[u] = card[u] /\ given'[u] = given[u]
    BY <1>1, <2>1
  <2>7. /\ card' \in [Surface -> [Slot -> Receiver \cup {Unset}]]
        /\ given' \in [Surface -> [Receiver -> Slot \cup {Unset}]]
    BY <1>1, <2>1, <2>3, <2>5
  <2>. QED BY <1>4, <2>3, <2>4, <2>6, <2>7
<1>. QED BY <1>3, <1>4

LEMMA SlotsStep == SlotsIInv /\ [SlotsNext]_slotVars => SlotsIInv'
<1>. SUFFICES ASSUME SlotsIInv, [SlotsNext]_slotVars PROVE SlotsIInv'
  OBVIOUS
<1>1. SlotsTypeOK /\ GivenOnce /\ CardIsGiven /\ MappingIsOwn
  BY DEF SlotsIInv
<1>2. CASE PublishNodes
  <2>1. SlotsTypeOK'
    BY <1>1, <1>2 DEF SlotsTypeOK, PublishNodes
  <2>. QED BY <1>1, <1>2, <2>1
        DEF PublishNodes, SlotsIInv, GivenOnce, CardIsGiven, MappingIsOwn
<1>3. CASE RequestTraining
  <2>1. taken["cards"] \in SUBSET Receiver
    BY <1>1 DEF SlotsTypeOK, Surface
  <2>2. \A n \in Slot : NthOr(taken["cards"], n) \in Receiver \cup {Unset}
    BY <2>1, NthReceiverOr, SlotsFinite
  <2>3. mapping' = [n \in Slot |-> IF n <= Len(slotIds) THEN slotIds[n]
                                   ELSE NthOr(taken["cards"], n)]
    BY <1>3 DEF RequestTraining, MappingOf
  <2>4. mapping' \in [Slot -> Receiver \cup {Unset}]
    BY <1>1, <2>2, <2>3, SlotIdsAre
  <2>5. MappingIsOwn'
    BY <2>3, <1>3 DEF MappingIsOwn, RequestTraining
  <2>6. SlotsTypeOK'
    BY <1>1, <1>3, <2>4 DEF SlotsTypeOK, RequestTraining
  <2>. QED BY <1>1, <1>3, <2>5, <2>6 DEF RequestTraining, SlotsIInv, GivenOnce, CardIsGiven
<1>4. ASSUME NEW s \in Surface, Draw(s) PROVE SlotsIInv'
  <2>1. /\ slotIds' = slotIds /\ latest' = latest /\ mapping' = mapping
        /\ taken' = [taken EXCEPT ![s] = latest]
    BY <1>4 DEF Draw
  <2>2. SlotsTypeOK'
    BY <1>1, <1>4, <2>1, DrawIs DEF SlotsTypeOK
  <2>3. GivenOnce'
    BY <1>1, <1>4, DrawIs DEF GivenOnce
  <2>4. CardIsGiven'
    BY <1>1, <1>4, <2>1, DrawIs DEF CardIsGiven
  <2>5. MappingIsOwn'
    BY <1>1, <2>1 DEF MappingIsOwn
  <2>. QED BY <2>2, <2>3, <2>4, <2>5 DEF SlotsIInv
<1>5. CASE UNCHANGED slotVars
  BY <1>1, <1>5 DEF slotVars, SlotsIInv, SlotsTypeOK, GivenOnce, CardIsGiven, MappingIsOwn
<1>. QED BY <1>2, <1>3, <1>4, <1>5 DEF SlotsNext

\* Every slot is of one receiver, for every number of slots and receivers and
\* every order of snapshots (allocateSlots, assignSlots, sourceMappings).
THEOREM SlotsSafe == SlotsSpec => []SlotsIInv
BY SlotsStart, SlotsStep, PTL DEF SlotsSpec

\* With slotDeviceIds a letter means one receiver on the cards, on the map and
\* in the training request (allocateSlots, assignSlots, sourceMappings).
THEOREM LettersAgree == SlotsSpec => []SlotsAgree
<1>1. ASSUME SlotsIInv PROVE SlotsAgree
  <2>. SUFFICES ASSUME NEW n \in DOMAIN slotIds \cap Slot
                PROVE  {card["cards"][n], card["map"][n], mapping[n]} \subseteq {slotIds[n], Unset}
    BY DEF SlotsAgree
  <2>1. SlotsTypeOK /\ CardIsGiven /\ MappingIsOwn
    BY <1>1 DEF SlotsIInv
  <2>2. slotIds \in Seq(Receiver)
    BY <2>1, SlotsAssumption DEF SlotsAssumption, SlotsTypeOK
  <2>3. slotIds # <<>> /\ n <= Len(slotIds)
    BY <2>2
  <2>4. \A s \in Surface : card[s][n] \in {slotIds[n], Unset}
    BY <2>1, <2>3 DEF CardIsGiven
  <2>5. mapping[n] \in {slotIds[n], Unset}
    BY <2>1, <2>3 DEF MappingIsOwn
  <2>. QED BY <2>4, <2>5 DEF Surface
<1>. QED BY <1>1, SlotsSafe, PTL

\* A receiver never moves to another slot of a surface, nor does another take
\* its slot, however receivers come and go (allocateSlots, assignSlots).
THEOREM CardsKeepReceivers == SlotsSpec => CardKeepsReceiver
<1>1. ASSUME SlotsIInv, SlotsIInv', [SlotsNext]_slotVars,
             NEW s \in Surface, NEW n \in Slot, card[s][n] # Unset
      PROVE  /\ card'[s][n] \in {card[s][n], Unset}
             /\ \A m \in Slot \ {n} : card'[s][m] # card[s][n]
  <2>1. /\ SlotsTypeOK /\ CardIsGiven /\ SlotsTypeOK' /\ GivenOnce' /\ CardIsGiven' /\ GivenOnce
    BY <1>1 DEF SlotsIInv
  <2>2. slotIds' = slotIds
    BY <1>1 DEF SlotsNext, PublishNodes, RequestTraining, Draw, slotVars
  <2>. DEFINE d == card[s][n]
  <2>3. d \in Receiver /\ Unset \notin Slot
    BY <1>1, <2>1, SlotsFinite DEF SlotsTypeOK, Unset
  <2>4. \A m \in Slot : card'[s][m] \in Receiver \cup {Unset}
    BY <2>1 DEF SlotsTypeOK
  <2>5. CASE slotIds # <<>>
    <3>1. n <= Len(slotIds) /\ d = slotIds[n]
      BY <1>1, <2>1, <2>5 DEF CardIsGiven
    <3>2. \A m \in Slot : card'[s][m] # Unset => m <= Len(slotIds) /\ card'[s][m] = slotIds[m]
      BY <2>1, <2>2, <2>5 DEF CardIsGiven
    <3>. HIDE DEF d
    <3>3. card'[s][n] \in {d, Unset}
      BY <3>1, <3>2
    <3>4. ASSUME NEW m \in Slot \ {n} PROVE card'[s][m] # d
      <4>1. SUFFICES ASSUME card'[s][m] = d PROVE FALSE
        OBVIOUS
      <4>2. d # Unset
        BY <2>3, SlotsFinite DEF Unset
      <4>3. m <= Len(slotIds) /\ slotIds[m] = slotIds[n]
        BY <4>1, <4>2, <3>1, <3>2
      <4>4. m = n
        BY <4>3, <3>1, <2>1, SlotIdsAre
      <4>. QED BY <4>4
    <3>. QED BY <3>3, <3>4 DEF d
  <2>6. CASE slotIds = <<>>
    <3>1. given[s][d] = n /\ given[s][d] # Unset
      BY <1>1, <2>1, <2>3, <2>6 DEF CardIsGiven
    <3>2. \A m \in Slot : card'[s][m] # Unset => given'[s][card'[s][m]] = m
      BY <2>1, <2>2, <2>6 DEF CardIsGiven
    <3>3. given'[s][d] = n
      <4>1. CASE \E u \in Surface : Draw(u)
        <5>1. PICK u \in Surface : Draw(u)
          BY <4>1
        <5>. HIDE DEF d
        <5>. QED BY <1>1, <2>3, <3>1, <5>1, DrawIs
      <4>2. CASE given' = given
        BY <3>1, <4>2
      <4>. QED BY <1>1, <4>1, <4>2 DEF SlotsNext, PublishNodes, RequestTraining, slotVars
    <3>. HIDE DEF d
    <3>4. card'[s][n] \in {d, Unset}
      <4>1. ASSUME card'[s][n] # Unset PROVE card'[s][n] = d
        <5>1. card'[s][n] \in Receiver /\ given'[s][card'[s][n]] = n
          BY <4>1, <2>4, <3>2
        <5>. QED BY <5>1, <2>1, <2>3, <3>3 DEF GivenOnce
      <4>. QED BY <4>1
    <3>5. ASSUME NEW m \in Slot \ {n} PROVE card'[s][m] # d
      BY <2>3, <3>2, <3>3, SlotsFinite DEF Unset
    <3>. QED BY <3>4, <3>5 DEF d
  <2>. QED BY <2>5, <2>6
<1>2. ASSUME SlotsIInv, SlotsIInv', [SlotsNext]_slotVars
      PROVE  [\A s \in Surface, n \in Slot :
               card[s][n] # Unset =>
                 /\ card'[s][n] \in {card[s][n], Unset}
                 /\ \A m \in Slot \ {n} : card'[s][m] # card[s][n]]_slotVars
  BY <1>1, <1>2
<1>. QED BY <1>2, SlotsSafe, PTL DEF SlotsSpec, CardKeepsReceiver

-----------------------------------------------------------------------------
(* The log of the single device.                                           *)

\* The order of lines.
LEMMA OlderIs ==
  ASSUME NEW a \in Line, NEW b \in Line, NEW c \in Line
  PROVE  /\ Older(a, b) /\ Older(b, c) => Older(a, c)
         /\ ~Older(b, a) /\ Older(b, c) => Older(a, c)
         /\ Older(a, b) /\ ~Older(c, b) => Older(a, c)
         /\ ~Older(b, a) /\ ~Older(c, b) => ~Older(c, a)
         /\ Older(a, b) => ~Older(b, a)
         /\ ~Older(a, a)
<1>1. /\ a[1] \in Nat /\ a[2] \in Nat /\ b[1] \in Nat /\ b[2] \in Nat
      /\ c[1] \in Nat /\ c[2] \in Nat
  BY DEF Line
<1>. QED BY <1>1 DEF Older

\* The lines the device gives: of this boot, in order, beyond the one named.
LEMMA ReadIsInOrder ==
  ASSUME dev.boot \in Nat, dev.next \in Nat \ {0}, NEW after \in Nat
  PROVE  /\ ReadSince(after) \in Seq(Line)
         /\ \A i \in DOMAIN ReadSince(after) : ReadSince(after)[i][1] = dev.boot
         /\ \A i, j \in DOMAIN ReadSince(after) :
              i < j => ReadSince(after)[i][2] < ReadSince(after)[j][2]
<1>. DEFINE end == dev.next - 1
            oldest == IF end >= LogRing THEN end - LogRing + 1 ELSE 1
            first == IF after >= oldest THEN after + 1 ELSE oldest
            stop == IF end < first + LogLimit THEN end ELSE first + LogLimit - 1
            n == stop + 1 - first
            r == [i \in 1..n |-> <<dev.boot, first + i - 1>>]
<1>1. end \in Nat /\ LogRing \in Nat \ {0} /\ LogLimit \in Nat
  BY LogAssumption DEF LogAssumption
<1>2. oldest \in Nat \ {0}
  BY <1>1
<1>3. first \in Nat \ {0}
  BY <1>2
<1>4. stop \in Int
  BY <1>1, <1>3
<1>5. n \in Int
  BY <1>3, <1>4
<1>6. ReadSince(after) = r
  BY DEF ReadSince
<1>. HIDE DEF end, oldest, first, stop
<1>7. \A i \in 1..n : first + i - 1 \in Nat
  BY <1>3, <1>5
<1>. HIDE DEF n
<1>8. r \in [1..n -> Line]
  BY <1>7 DEF Line
<1>9. r \in Seq(Line)
  <2>1. CASE n \in Nat
    BY <1>8, <2>1
  <2>2. CASE n \notin Nat
    <3>1. 1..n = 1..0
      BY <1>5, <2>2
    <3>2. r \in [1..0 -> Line]
      BY <1>8, <3>1
    <3>. HIDE DEF r
    <3>. QED BY <3>2
  <2>. QED BY <2>1, <2>2
<1>10. \A i, j \in 1..n : i < j => first + i - 1 < first + j - 1
  BY <1>3, <1>5
<1>. QED BY <1>6, <1>9, <1>10

\* What a poll adds: lines beyond all that are kept, in order.
FreshLines ==
  Sublist(ReadSince(mon.last),
          {i \in DOMAIN ReadSince(mon.last) : ReadSince(mon.last)[i][2] > mon.last})

LEMMA FreshIs ==
  ASSUME MonitorTypeOK, KeptInOrder
  PROVE  /\ FreshLines \in Seq(Line) /\ Newest \in Line
         /\ \A i \in 1..Len(FreshLines) :
              Older(Newest, FreshLines[i]) /\ FreshLines[i][1] = dev.boot
         /\ \A i, j \in 1..Len(FreshLines) : i < j => Older(FreshLines[i], FreshLines[j])
<1>. DEFINE read == ReadSince(mon.last)
            places == {i \in DOMAIN read : read[i][2] > mon.last}
            fresh == Sublist(read, places)
<1>1. /\ dev.boot \in Nat /\ dev.next \in Nat \ {0} /\ mon.last \in Nat
      /\ mon.logs \in Seq(Line)
  BY DEF MonitorTypeOK
<1>2. /\ read \in Seq(Line)
      /\ \A i \in DOMAIN read : read[i][1] = dev.boot
      /\ \A i, j \in DOMAIN read : i < j => read[i][2] < read[j][2]
  BY <1>1, ReadIsInOrder
<1>3. Newest \in Line
  BY <1>1 DEF Newest, NoLine, Line, Last
<1>4. Newest[1] <= dev.boot /\ Newest[2] = mon.last
  BY DEF KeptInOrder
<1>. HIDE DEF read
<1>5. places \in SUBSET DOMAIN read /\ \A i \in places : read[i][2] > mon.last
  OBVIOUS
<1>. HIDE DEF places
<1>6. /\ fresh \in Seq(Line) /\ Len(fresh) = Cardinality(places)
      /\ \A i \in 1..Cardinality(places) :
           Nth(places, i) \in places /\ fresh[i] = read[Nth(places, i)]
      /\ \A i, j \in 1..Cardinality(places) : i < j => Nth(places, i) < Nth(places, j)
  BY <1>2, <1>5, SublistIs
<1>. HIDE DEF fresh
<1>7. \A i \in 1..Len(fresh) : fresh[i] \in Line /\ fresh[i][1] = dev.boot /\ fresh[i][2] > mon.last
  BY <1>2, <1>5, <1>6
<1>8. \A i \in 1..Len(fresh) : Older(Newest, fresh[i])
  BY <1>1, <1>3, <1>4, <1>7 DEF Older, Line
<1>9. \A i, j \in 1..Len(fresh) : i < j => Older(fresh[i], fresh[j])
  BY <1>2, <1>5, <1>6, <1>7 DEF Older
<1>10. FreshLines = fresh
  BY DEF FreshLines, fresh, places, read
<1>. QED BY <1>3, <1>6, <1>7, <1>8, <1>9, <1>10

LEMMA MonitorStarts == MonitorInit => MonitorIInv
<1>. SUFFICES ASSUME MonitorInit PROVE MonitorIInv
  OBVIOUS
<1>1. MonitorTypeOK
  BY DEF MonitorInit, MonitorTypeOK, Offline, Telemetry, Line
<1>2. KeptInOrder
  BY DEF MonitorInit, KeptInOrder, Newest, NoLine
<1>3. FeedInOrder
  BY DEF MonitorInit, FeedInOrder
<1>4. PageBehind /\ LinesInOrder
  BY DEF MonitorInit, PageBehind, LinesInOrder, Newest, NoLine, Older
<1>. QED BY <1>1, <1>2, <1>3, <1>4 DEF MonitorIInv

\* All lines of the log: what the page draws at once.
LEMMA DrawnAtOnce ==
  ASSUME MonitorTypeOK, KeptInOrder, view.line = NoLine, view.sorted
  PROVE  ShownAll(view, mon.logs) = [view EXCEPT !.line = Newest]
<1>1. mon.logs \in Seq(Line) /\ view.line \in Line /\ NoLine \in Line
  BY DEF MonitorTypeOK, NoLine, Line
<1>2. /\ \A i \in 1..Len(mon.logs) : Older(NoLine, mon.logs[i])
      /\ \A i \in 2..Len(mon.logs) : Older(mon.logs[i - 1], mon.logs[i])
  BY DEF KeptInOrder
<1>3. view \in [stage : {"logs", "stream", "running"}, open : BOOLEAN,
               device : Telemetry, line : Line, sorted : BOOLEAN]
  BY DEF MonitorTypeOK
<1>4. CASE mon.logs = <<>>
  <2>1. ShownAll(view, mon.logs) = view /\ Newest = NoLine
    BY <1>4 DEF ShownAll, Newest
  <2>2. [view EXCEPT !.line = NoLine] = view
    BY <1>3
  <2>. QED BY <2>1, <2>2
<1>5. CASE mon.logs # <<>>
  <2>1. Older(view.line, Head(mon.logs))
    BY <1>1, <1>2, <1>5
  <2>2. ShownAll(view, mon.logs) = [view EXCEPT !.line = Last(mon.logs), !.sorted = TRUE]
    BY <1>2, <1>5, <2>1 DEF ShownAll
  <2>3. [view EXCEPT !.line = Last(mon.logs), !.sorted = TRUE] = [view EXCEPT !.line = Last(mon.logs)]
    BY <1>3
  <2>. QED BY <1>5, <2>2, <2>3 DEF Newest
<1>. QED BY <1>4, <1>5

\* What the polls send to the page.
LEMMA MonitorSends ==
  ASSUME NEW fresh \in Seq(Line), NEW d \in Telemetry
  PROVE  LET messages == [i \in DOMAIN fresh |-> [log |-> fresh[i]]] \o <<[device |-> d]>>
         IN  /\ messages \in Seq(Message) /\ Len(messages) = Len(fresh) + 1
             /\ \A i \in 1..Len(messages) :
                  IF i <= Len(fresh) THEN messages[i] = [log |-> fresh[i]]
                  ELSE messages[i] = [device |-> d]
<1>. DEFINE lines == [i \in DOMAIN fresh |-> [log |-> fresh[i]]]
<1>1. [device |-> d] \in Message /\ \A l \in Line : [log |-> l] \in Message
  BY DEF Message
<1>2. lines \in Seq(Message) /\ Len(lines) = Len(fresh) /\ Len(fresh) \in Nat
  BY <1>1
<1>3. \A i \in 1..Len(fresh) : lines[i] = [log |-> fresh[i]]
  OBVIOUS
<1>. HIDE DEF lines
<1>4. /\ lines \o <<[device |-> d]>> \in Seq(Message)
      /\ Len(lines \o <<[device |-> d]>>) = Len(fresh) + 1
      /\ \A i \in 1..(Len(fresh) + 1) : (lines \o <<[device |-> d]>>)[i] =
           IF i <= Len(fresh) THEN lines[i] ELSE [device |-> d]
  BY <1>1, <1>2
<1>5. \A i \in 1..(Len(fresh) + 1) : i <= Len(fresh) => i \in 1..Len(fresh)
  BY <1>2
<1>6. \A i \in 1..(Len(fresh) + 1) :
        IF i <= Len(fresh) THEN (lines \o <<[device |-> d]>>)[i] = [log |-> fresh[i]]
        ELSE (lines \o <<[device |-> d]>>)[i] = [device |-> d]
  BY <1>3, <1>4, <1>5
<1>. QED BY <1>4, <1>6 DEF lines

LEMMA RebootedIs ==
  ASSUME NEW P, NEW d \in [up : BOOLEAN, capture : BOOLEAN, boot : P, next : P],
         1 \in P, d.boot + 1 \in P
  PROVE  Rebooted(d) \in [up : BOOLEAN, capture : BOOLEAN, boot : P, next : P]
<1>1. PICK n \in P : n = d.boot + 1
  OBVIOUS
<1>2. Rebooted(d) = [d EXCEPT !.up = FALSE, !.capture = FALSE, !.boot = n, !.next = 1]
  BY <1>1 DEF Rebooted
<1>. QED BY <1>2

LEMMA MonitorTypes ==
  ASSUME MonitorIInv, [MonitorNext]_monitorVars
  PROVE  MonitorTypeOK'
<1>1. MonitorTypeOK /\ KeptInOrder /\ PageBehind /\ LinesInOrder
  BY DEF MonitorIInv
<1>2. /\ dev \in [up : BOOLEAN, capture : BOOLEAN, boot : Nat \ {0}, next : Nat \ {0}]
      /\ mon \in [at : {"idle", "logs"}, device : Telemetry, last : Nat, logs : Seq(Line)]
      /\ feed \in Seq(Message)
      /\ view \in [stage : {"logs", "stream", "running"}, open : BOOLEAN,
                   device : Telemetry, line : Line, sorted : BOOLEAN]
      /\ events \in [outages : Nat, clicks : Nat, cuts : Nat]
  BY <1>1 DEF MonitorTypeOK
<1>3. \A d \in Telemetry : [device |-> d] \in Message
  BY DEF Message
<1>4. Rebooted(dev) \in [up : BOOLEAN, capture : BOOLEAN, boot : Nat \ {0}, next : Nat \ {0}]
  <2>1. dev.boot + 1 \in Nat \ {0} /\ 1 \in Nat \ {0}
    BY <1>2
  <2>. QED BY <1>2, <2>1, RebootedIs
<1>5. CASE WriteLine
  BY <1>2, <1>5 DEF WriteLine, MonitorTypeOK
<1>6. CASE ComeUp
  BY <1>2, <1>6 DEF ComeUp, MonitorTypeOK
<1>7. CASE GoDown
  <2>1. dev' = [dev EXCEPT !.up = FALSE] \/ dev' = Rebooted(dev)
    BY <1>7 DEF GoDown
  <2>2. dev' \in [up : BOOLEAN, capture : BOOLEAN, boot : Nat \ {0}, next : Nat \ {0}]
    <3>1. [dev EXCEPT !.up = FALSE] \in [up : BOOLEAN, capture : BOOLEAN, boot : Nat \ {0}, next : Nat \ {0}]
      BY <1>2
    <3>. QED BY <1>4, <2>1, <3>1
  <2>3. events' = [events EXCEPT !.outages = @ + 1] /\ UNCHANGED <<mon, feed, view>>
    BY <1>7 DEF GoDown
  <2>. QED BY <1>2, <2>2, <2>3 DEF MonitorTypeOK
<1>8. CASE PollDevice
  BY <1>2, <1>8 DEF PollDevice, MonitorTypeOK, Telemetry
<1>9. CASE PollLogs
  <2>1. FreshLines \in Seq(Line)
    BY <1>1, FreshIs
  <2>2. /\ mon' = [mon EXCEPT !.at = "idle", !.logs = mon.logs \o FreshLines,
                     !.last = IF FreshLines = <<>> THEN mon.last ELSE Last(FreshLines)[2]]
        /\ feed' = Sent([i \in DOMAIN FreshLines |-> [log |-> FreshLines[i]]] \o <<[device |-> mon.device]>>)
        /\ UNCHANGED <<dev, view, events>>
    BY <1>9 DEF PollLogs, FreshLines
  <2>3. mon.logs \o FreshLines \in Seq(Line)
    BY <1>2, <2>1
  <2>4. (IF FreshLines = <<>> THEN mon.last ELSE Last(FreshLines)[2]) \in Nat
    <3>1. FreshLines # <<>> => Last(FreshLines) \in Line
      BY <2>1 DEF Last
    <3>. QED BY <1>2, <3>1 DEF Line
  <2>5. mon' \in [at : {"idle", "logs"}, device : Telemetry, last : Nat, logs : Seq(Line)]
    BY <1>2, <2>2, <2>3, <2>4
  <2>6. feed' \in Seq(Message)
    <3>1. [i \in DOMAIN FreshLines |-> [log |-> FreshLines[i]]] \o <<[device |-> mon.device]>>
            \in Seq(Message)
      BY <1>2, <2>1, MonitorSends
    <3>. QED BY <1>2, <2>2, <3>1 DEF Sent
  <2>. QED BY <1>2, <2>2, <2>5, <2>6 DEF MonitorTypeOK
<1>10. CASE PollFails
  <2>1. mon' = [mon EXCEPT !.device.connected = FALSE, !.at = "idle"]
    BY <1>10 DEF PollFails
  <2>2. mon' \in [at : {"idle", "logs"}, device : Telemetry, last : Nat, logs : Seq(Line)]
    BY <1>2, <2>1 DEF Telemetry
  <2>3. feed' \in Seq(Message)
    <3>1. feed' = Sent(<<[device |-> mon'.device]>>)
      BY <1>10 DEF PollFails
    <3>2. <<[device |-> mon'.device]>> \in Seq(Message)
      BY <1>3, <2>2
    <3>. QED BY <1>2, <3>1, <3>2 DEF Sent
  <2>. QED BY <1>2, <1>10, <2>2, <2>3 DEF PollFails, MonitorTypeOK
<1>11. CASE BootPage
  <2>1. CASE view.stage = "logs"
    <3>1. view' = [ShownAll(view, mon.logs) EXCEPT !.stage = "stream", !.device = mon.device]
          /\ UNCHANGED <<dev, mon, events, feed>>
      BY <1>11, <2>1 DEF BootPage
    <3>2. ShownAll(view, mon.logs) = [view EXCEPT !.line = Newest]
      BY <1>1, <2>1, DrawnAtOnce DEF PageBehind, LinesInOrder
    <3>3. Newest \in Line
      BY <1>1, FreshIs
    <3>. QED BY <1>2, <3>1, <3>2, <3>3 DEF MonitorTypeOK
  <2>2. CASE view.stage # "logs"
    <3>1. view' = [view EXCEPT !.stage = "running", !.open = TRUE]
          /\ feed' = <<[device |-> mon.device]>> /\ UNCHANGED <<dev, mon, events>>
      BY <1>11, <2>2 DEF BootPage
    <3>2. feed' \in Seq(Message)
      BY <1>2, <1>3, <3>1
    <3>. QED BY <1>2, <3>1, <3>2 DEF MonitorTypeOK
  <2>. QED BY <2>1, <2>2
<1>12. CASE Render
  <2>1. /\ feed # <<>> /\ feed' = Tail(feed) /\ UNCHANGED <<dev, mon, events>>
        /\ view' = IF "log" \in DOMAIN Head(feed) THEN Shown(view, Head(feed).log)
                   ELSE [view EXCEPT !.device = Head(feed).device]
    BY <1>12 DEF Render
  <2>2. Head(feed) \in Message /\ Tail(feed) \in Seq(Message)
    BY <1>2, <2>1
  <2>3. CASE "log" \in DOMAIN Head(feed)
    <3>1. Head(feed).log \in Line
      BY <2>2, <2>3 DEF Message
    <3>2. view' = [view EXCEPT !.line = Head(feed).log, !.sorted = view.sorted /\ Older(view.line, Head(feed).log)]
      BY <2>1, <2>3 DEF Shown
    <3>3. (view.sorted /\ Older(view.line, Head(feed).log)) \in BOOLEAN
      BY <1>2
    <3>. QED BY <1>2, <2>1, <2>2, <3>1, <3>2, <3>3 DEF MonitorTypeOK
  <2>4. CASE "log" \notin DOMAIN Head(feed)
    <3>1. Head(feed).device \in Telemetry
      BY <2>2, <2>4 DEF Message
    <3>. QED BY <1>2, <2>1, <2>2, <2>4, <3>1 DEF MonitorTypeOK
  <2>. QED BY <2>3, <2>4
<1>13. CASE CutOff
  <2>1. /\ feed' = <<>> /\ view' = [view EXCEPT !.open = FALSE]
        /\ events' = [events EXCEPT !.cuts = @ + 1] /\ UNCHANGED <<dev, mon>>
    BY <1>13 DEF CutOff
  <2>2. feed' \in Seq(Message)
    BY <2>1
  <2>3. view' \in [stage : {"logs", "stream", "running"}, open : BOOLEAN,
                   device : Telemetry, line : Line, sorted : BOOLEAN]
    BY <1>2, <2>1
  <2>4. events' \in [outages : Nat, clicks : Nat, cuts : Nat]
    BY <1>2, <2>1
  <2>. QED BY <1>2, <2>1, <2>2, <2>3, <2>4 DEF MonitorTypeOK
<1>14. CASE Resume
  <2>1. feed' \in Seq(Message)
    BY <1>2, <1>3, <1>14 DEF Resume
  <2>. QED BY <1>2, <1>14, <2>1 DEF Resume, MonitorTypeOK
<1>15. ASSUME NEW action \in Controls, Control(action) PROVE MonitorTypeOK'
  <2>1. dev' \in [up : BOOLEAN, capture : BOOLEAN, boot : Nat \ {0}, next : Nat \ {0}]
    BY <1>2, <1>4, <1>15 DEF Control
  <2>. QED BY <1>2, <1>15, <2>1 DEF Control, MonitorTypeOK
<1>16. CASE UNCHANGED monitorVars
  BY <1>2, <1>16 DEF monitorVars, MonitorTypeOK
<1>. QED BY <1>5, <1>6, <1>7, <1>8, <1>9, <1>10, <1>11, <1>12, <1>13, <1>14, <1>15, <1>16
        DEF MonitorNext

\* After a poll the server's lines are in order and so are those under way.
LEMMA PollKeepsOrder ==
  ASSUME MonitorIInv, PollLogs
  PROVE  KeptInOrder' /\ FeedInOrder' /\ ~Older(Newest', view.line)
<1>1. MonitorTypeOK /\ KeptInOrder /\ FeedInOrder /\ PageBehind
  BY DEF MonitorIInv
<1>2. /\ dev.boot \in Nat /\ mon.last \in Nat /\ mon.logs \in Seq(Line) /\ feed \in Seq(Message)
      /\ view.line \in Line /\ mon.device \in Telemetry
      /\ mon \in [at : {"idle", "logs"}, device : Telemetry, last : Nat, logs : Seq(Line)]
  BY <1>1 DEF MonitorTypeOK
<1>3. /\ FreshLines \in Seq(Line) /\ Newest \in Line
      /\ \A i \in 1..Len(FreshLines) :
           Older(Newest, FreshLines[i]) /\ FreshLines[i][1] = dev.boot
      /\ \A i, j \in 1..Len(FreshLines) : i < j => Older(FreshLines[i], FreshLines[j])
  BY <1>1, FreshIs
<1>4. /\ mon' = [mon EXCEPT !.at = "idle", !.logs = mon.logs \o FreshLines,
                   !.last = IF FreshLines = <<>> THEN mon.last ELSE Last(FreshLines)[2]]
      /\ feed' = Sent([i \in DOMAIN FreshLines |-> [log |-> FreshLines[i]]] \o <<[device |-> mon.device]>>)
      /\ UNCHANGED <<dev, view, events>>
  BY DEF PollLogs, FreshLines
<1>. DEFINE messages == [i \in DOMAIN FreshLines |-> [log |-> FreshLines[i]]] \o <<[device |-> mon.device]>>
<1>5. /\ messages \in Seq(Message) /\ Len(messages) = Len(FreshLines) + 1
      /\ \A i \in 1..Len(messages) :
           IF i <= Len(FreshLines) THEN messages[i] = [log |-> FreshLines[i]]
           ELSE messages[i] = [device |-> mon.device]
  BY <1>2, <1>3, MonitorSends
<1>6. PICK fresh \in Seq(Line) : fresh = FreshLines
  BY <1>3
<1>7. PICK m \in Seq(Message) : m = messages
  BY <1>5
<1>. HIDE DEF messages
<1>8. /\ Len(fresh) \in Nat /\ Len(m) = Len(fresh) + 1
      /\ \A i \in 1..Len(m) :
           IF i <= Len(fresh) THEN m[i] = [log |-> fresh[i]] ELSE m[i] = [device |-> mon.device]
  BY <1>5, <1>6, <1>7
<1>9. mon'.logs = mon.logs \o fresh /\ mon'.last = IF fresh = <<>> THEN mon.last ELSE Last(fresh)[2]
  BY <1>2, <1>4, <1>6
<1>10. PICK newest \in Line : newest = Newest
  BY <1>3
<1>11. /\ \A i \in 1..Len(fresh) : Older(newest, fresh[i]) /\ fresh[i][1] = dev.boot
       /\ \A i, j \in 1..Len(fresh) : i < j => Older(fresh[i], fresh[j])
       /\ \A i \in 1..Len(fresh) : fresh[i] \in Line
  BY <1>3, <1>6, <1>10
<1>12. /\ \A i \in 1..Len(mon.logs) : Older(NoLine, mon.logs[i]) /\ mon.logs[i] \in Line
       /\ \A i \in 2..Len(mon.logs) : Older(mon.logs[i - 1], mon.logs[i])
       /\ mon.last = newest[2] /\ newest[1] <= dev.boot
       /\ newest = IF mon.logs = <<>> THEN NoLine ELSE mon.logs[Len(mon.logs)]
  BY <1>1, <1>2, <1>10 DEF KeptInOrder, Newest, Last
<1>13. Newest' = IF fresh = <<>> THEN newest ELSE fresh[Len(fresh)]
  <2>1. Newest' = IF mon.logs \o fresh = <<>> THEN NoLine
                  ELSE (mon.logs \o fresh)[Len(mon.logs \o fresh)]
    BY <1>9 DEF Newest, Last, NoLine
  <2>2. CASE fresh = <<>>
    <3>1. mon.logs \o fresh = mon.logs
      BY <1>2, <2>2
    <3>. QED BY <1>12, <2>1, <2>2, <3>1
  <2>3. CASE fresh # <<>>
    <3>1. Len(fresh) > 0 /\ Len(mon.logs) \in Nat
      BY <1>2, <2>3
    <3>2. (mon.logs \o fresh)[Len(mon.logs) + Len(fresh)] = fresh[Len(fresh)]
          /\ Len(mon.logs \o fresh) = Len(mon.logs) + Len(fresh)
          /\ mon.logs \o fresh # <<>>
      BY <1>2, <3>1
    <3>. QED BY <2>1, <2>3, <3>2
  <2>. QED BY <2>2, <2>3
<1>14. Newest' = newest \/ Older(newest, Newest')
  BY <1>8, <1>11, <1>13
<1>15. Newest' \in Line
  BY <1>8, <1>11, <1>13
<1>16. NoLine \in Line /\ (newest = NoLine \/ Older(NoLine, newest))
  <2>1. NoLine \in Line
    BY DEF NoLine, Line
  <2>2. mon.logs # <<>> => Len(mon.logs) \in 1..Len(mon.logs)
    BY <1>2
  <2>. QED BY <1>12, <2>1, <2>2
<1>17. KeptInOrder'
  <2>1. \A i \in 1..Len(fresh) : Older(NoLine, fresh[i])
    BY <1>11, <1>16, OlderIs
  <2>2. PICK a \in Seq(Line) : a = mon.logs
    BY <1>2
  <2>3. PICK all \in Seq(Line) : all = a \o fresh
    <3>1. a \o fresh \in Seq(Line)
      BY <1>6, <2>2
    <3>. QED BY <3>1
  <2>4. /\ Len(a) \in Nat /\ Len(fresh) \in Nat /\ Len(all) = Len(a) + Len(fresh)
        /\ \A i \in 1..Len(a) : all[i] = a[i]
        /\ \A i \in 1..Len(fresh) : all[Len(a) + i] = fresh[i]
    BY <2>3
  <2>5. /\ \A i \in 1..Len(a) : Older(NoLine, a[i])
        /\ \A i \in 2..Len(a) : Older(a[i - 1], a[i])
        /\ a # <<>> => newest = a[Len(a)]
    BY <1>12, <2>2
  <2>6. \A i \in 1..Len(all) : Older(NoLine, all[i])
    <3>. SUFFICES ASSUME NEW i \in 1..Len(all) PROVE Older(NoLine, all[i])
      OBVIOUS
    <3>1. CASE i <= Len(a)
      BY <2>4, <2>5, <3>1
    <3>2. CASE i > Len(a)
      <4>1. PICK k \in 1..Len(fresh) : i = Len(a) + k
        <5>1. i - Len(a) \in 1..Len(fresh) /\ i = Len(a) + (i - Len(a))
          BY <2>4, <3>2
        <5>. QED BY <5>1
      <4>. QED BY <2>1, <2>4, <4>1
    <3>. QED BY <2>4, <3>1, <3>2
  <2>7. \A i \in 2..Len(all) : Older(all[i - 1], all[i])
    <3>. SUFFICES ASSUME NEW i \in 2..Len(all) PROVE Older(all[i - 1], all[i])
      OBVIOUS
    <3>1. CASE i <= Len(a)
      <4>1. i \in 2..Len(a) /\ i - 1 \in 1..Len(a) /\ i \in 1..Len(a)
        BY <2>4, <3>1
      <4>2. all[i] = a[i] /\ all[i - 1] = a[i - 1]
        BY <2>4, <4>1
      <4>. QED BY <2>5, <4>1, <4>2
    <3>2. CASE i = Len(a) + 1
      <4>1. i - 1 = Len(a) /\ Len(a) \in 1..Len(a) /\ 1 \in 1..Len(fresh) /\ a # <<>>
        BY <2>4, <3>2
      <4>2. all[i - 1] = a[Len(a)] /\ all[i] = fresh[1]
        BY <2>4, <3>2, <4>1
      <4>. QED BY <1>11, <2>5, <4>1, <4>2
    <3>3. CASE i > Len(a) + 1
      <4>1. PICK k \in 2..Len(fresh) : i = Len(a) + k
        <5>1. i - Len(a) \in 2..Len(fresh) /\ i = Len(a) + (i - Len(a))
          BY <2>4, <3>3
        <5>. QED BY <5>1
      <4>2. k - 1 \in 1..Len(fresh) /\ k \in 1..Len(fresh) /\ k - 1 < k /\ i - 1 = Len(a) + (k - 1)
        BY <2>4, <4>1
      <4>3. all[i] = fresh[k] /\ all[i - 1] = fresh[k - 1]
        BY <2>4, <4>1, <4>2
      <4>4. Older(fresh[k - 1], fresh[k])
        BY <1>11, <4>2
      <4>. QED BY <4>3, <4>4
    <3>4. i \in Int /\ Len(a) \in Int
      BY <2>4
    <3>5. i <= Len(a) \/ i = Len(a) + 1 \/ i > Len(a) + 1
      BY <3>4
    <3>. QED BY <3>1, <3>2, <3>3, <3>5
  <2>8. mon'.last = (Newest')[2] /\ (Newest')[1] <= dev.boot
    <3>1. CASE fresh = <<>>
      BY <1>9, <1>12, <1>13, <3>1
    <3>2. CASE fresh # <<>>
      <4>1. Len(fresh) \in 1..Len(fresh)
        BY <2>4, <3>2
      <4>2. Newest' = fresh[Len(fresh)] /\ mon'.last = fresh[Len(fresh)][2]
        BY <1>9, <1>13, <3>2 DEF Last
      <4>. QED BY <1>2, <1>11, <4>1, <4>2
    <3>. QED BY <3>1, <3>2
  <2>9. mon'.logs = all /\ dev' = dev
    BY <1>4, <1>9, <2>2, <2>3
  <2>. QED BY <2>6, <2>7, <2>8, <2>9 DEF KeptInOrder, NoLine
<1>18. ~Older(Newest', view.line)
  <2>1. ~Older(newest, view.line)
    BY <1>1, <1>10 DEF PageBehind
  <2>. QED BY <1>2, <1>14, <1>15, <2>1, OlderIs
<1>19. FeedInOrder'
  <2>1. CASE ~view.open
    <3>1. feed' = <<>>
      BY <1>1, <1>4, <2>1 DEF PageBehind, Sent
    <3>. QED BY <3>1 DEF FeedInOrder
  <2>2. CASE view.open
    <3>1. feed' = feed \o m
      BY <1>4, <1>7, <2>2 DEF Sent, messages
    <3>2. Len(feed) \in Nat /\ Len(feed') = Len(feed) + Len(m)
          /\ \A i \in 1..Len(feed') : feed'[i] = IF i <= Len(feed) THEN feed[i] ELSE m[i - Len(feed)]
      BY <1>2, <3>1
    <3>3. \A i \in 1..Len(m) : "log" \in DOMAIN m[i] => i <= Len(fresh) /\ m[i].log = fresh[i]
      BY <1>8
    <3>4. ASSUME NEW i \in 1..Len(feed'), "log" \in DOMAIN feed'[i]
          PROVE  \/ /\ i \in 1..Len(feed) /\ feed'[i] = feed[i]
                    /\ feed[i].log \in Line /\ Older(view.line, feed[i].log) /\ ~Older(newest, feed[i].log)
                 \/ i > Len(feed) /\ i - Len(feed) \in 1..Len(fresh) /\ feed'[i].log = fresh[i - Len(feed)]
      <4>1. CASE i <= Len(feed)
        <5>1. i \in 1..Len(feed) /\ feed'[i] = feed[i]
          BY <3>2, <4>1
        <5>2. feed[i] \in Message
          BY <1>2, <5>1
        <5>3. feed[i].log \in Line
          BY <3>4, <5>1, <5>2 DEF Message
        <5>. QED BY <1>1, <1>10, <3>4, <5>1, <5>3 DEF FeedInOrder
      <4>2. CASE i > Len(feed)
        <5>1. i - Len(feed) \in 1..Len(m) /\ feed'[i] = m[i - Len(feed)]
          BY <1>8, <3>2, <4>2
        <5>. QED BY <1>8, <3>2, <3>3, <3>4, <4>2, <5>1
      <4>. QED BY <3>2, <4>1, <4>2
    <3>5. ASSUME NEW i \in 1..Len(feed'), "log" \in DOMAIN feed'[i]
          PROVE  Older(view.line, feed'[i].log) /\ ~Older(Newest', feed'[i].log)
      <4>1. CASE i \in 1..Len(feed) /\ feed'[i] = feed[i]
                 /\ feed[i].log \in Line /\ Older(view.line, feed[i].log) /\ ~Older(newest, feed[i].log)
        <5>. PICK l \in Line : l = feed[i].log
          BY <4>1
        <5>. QED BY <1>14, <1>15, <4>1, OlderIs
      <4>2. CASE i > Len(feed) /\ i - Len(feed) \in 1..Len(fresh) /\ feed'[i].log = fresh[i - Len(feed)]
        <5>1. PICK k \in 1..Len(fresh) : k = i - Len(feed)
          BY <4>2
        <5>2. Older(newest, fresh[k]) /\ fresh[k] \in Line /\ ~Older(newest, view.line)
          BY <1>1, <1>10, <1>11, <5>1 DEF PageBehind
        <5>3. Older(view.line, fresh[k])
          BY <1>2, <5>2, OlderIs
        <5>4. ~Older(Newest', fresh[k])
          <6>1. Newest' = fresh[Len(fresh)] /\ Len(fresh) \in 1..Len(fresh)
            BY <1>8, <1>13, <5>1
          <6>2. k = Len(fresh) \/ Older(fresh[k], fresh[Len(fresh)])
            BY <1>8, <1>11, <5>1, <6>1
          <6>. QED BY <1>15, <5>2, <6>1, <6>2, OlderIs
        <5>. QED BY <4>2, <5>1, <5>3, <5>4
      <4>. QED BY <3>4, <3>5, <4>1, <4>2
    <3>6. ASSUME NEW i \in 1..Len(feed'), NEW j \in 1..Len(feed'), i < j,
                 "log" \in DOMAIN feed'[i], "log" \in DOMAIN feed'[j]
          PROVE  Older(feed'[i].log, feed'[j].log)
      <4>1. CASE i > Len(feed)
        <5>1. i - Len(feed) \in 1..Len(fresh) /\ feed'[i].log = fresh[i - Len(feed)]
              /\ j - Len(feed) \in 1..Len(fresh) /\ feed'[j].log = fresh[j - Len(feed)]
          BY <3>2, <3>4, <3>6, <4>1
        <5>2. i - Len(feed) < j - Len(feed)
          BY <3>2, <3>6
        <5>. QED BY <1>11, <5>1, <5>2
      <4>2. CASE j <= Len(feed)
        <5>1. i \in 1..Len(feed) /\ j \in 1..Len(feed) /\ feed'[i] = feed[i] /\ feed'[j] = feed[j]
          BY <3>2, <3>6, <4>2
        <5>. QED BY <1>1, <3>6, <5>1 DEF FeedInOrder
      <4>3. CASE i <= Len(feed) /\ j > Len(feed)
        <5>1. feed'[i] = feed[i] /\ feed[i].log \in Line /\ ~Older(newest, feed[i].log)
          BY <3>2, <3>4, <3>6, <4>3
        <5>2. PICK k \in 1..Len(fresh) : feed'[j].log = fresh[k]
          BY <3>2, <3>4, <3>6, <4>3
        <5>3. PICK l \in Line : l = feed[i].log
          BY <5>1
        <5>4. Older(newest, fresh[k]) /\ fresh[k] \in Line
          BY <1>11, <5>2
        <5>5. Older(l, fresh[k])
          BY <5>1, <5>3, <5>4, OlderIs
        <5>. QED BY <5>1, <5>2, <5>3, <5>5
      <4>. QED BY <3>2, <4>1, <4>2, <4>3
    <3>7. view' = view
      BY <1>4
    <3>. QED BY <3>5, <3>6, <3>7 DEF FeedInOrder
  <2>. QED BY <2>1, <2>2
<1>. QED BY <1>17, <1>18, <1>19

\* Every step keeps the lines in their order, at the server, under way and
\* on the page.
LEMMA MonitorSteps == MonitorIInv /\ [MonitorNext]_monitorVars => MonitorIInv'
<1>. SUFFICES ASSUME MonitorIInv, [MonitorNext]_monitorVars PROVE MonitorIInv'
  OBVIOUS
<1>1. MonitorTypeOK /\ KeptInOrder /\ FeedInOrder /\ PageBehind /\ LinesInOrder
  BY DEF MonitorIInv
<1>2. /\ dev.boot \in Nat \ {0} /\ dev.next \in Nat \ {0} /\ mon.last \in Nat
      /\ mon.logs \in Seq(Line) /\ feed \in Seq(Message) /\ view.line \in Line
      /\ dev \in [up : BOOLEAN, capture : BOOLEAN, boot : Nat \ {0}, next : Nat \ {0}]
      /\ mon \in [at : {"idle", "logs"}, device : Telemetry, last : Nat, logs : Seq(Line)]
      /\ view \in [stage : {"logs", "stream", "running"}, open : BOOLEAN,
                   device : Telemetry, line : Line, sorted : BOOLEAN]
  BY <1>1 DEF MonitorTypeOK
<1>3. Newest \in Line /\ Newest[1] \in Nat
  <2>1. Newest \in Line
    BY <1>1, FreshIs
  <2>. QED BY <2>1 DEF Line
<1>4. MonitorTypeOK'
  BY MonitorTypes
<1>5. ASSUME UNCHANGED mon, dev'.boot \in Nat, dev.boot <= dev'.boot
      PROVE  KeptInOrder' /\ Newest' = Newest
  <2>1. Newest' = Newest
    BY <1>5 DEF Newest
  <2>2. (Newest')[1] <= dev'.boot
    BY <1>1, <1>2, <1>3, <1>5, <2>1 DEF KeptInOrder
  <2>. QED BY <1>1, <1>5, <2>1, <2>2 DEF KeptInOrder
<1>6. ASSUME UNCHANGED <<mon, feed, view>>, dev'.boot \in Nat, dev.boot <= dev'.boot
      PROVE  MonitorIInv'
  <2>1. KeptInOrder' /\ Newest' = Newest
    BY <1>5, <1>6
  <2>2. FeedInOrder' /\ PageBehind' /\ LinesInOrder'
    BY <1>1, <1>6, <2>1 DEF FeedInOrder, PageBehind, LinesInOrder
  <2>. QED BY <1>4, <2>1, <2>2 DEF MonitorIInv
<1>7. (Rebooted(dev)).boot = dev.boot + 1
  BY <1>2 DEF Rebooted
<1>8. CASE WriteLine
  BY <1>2, <1>6, <1>8 DEF WriteLine
<1>9. CASE ComeUp
  BY <1>2, <1>6, <1>9 DEF ComeUp
<1>10. CASE GoDown
  <2>1. dev'.boot = dev.boot \/ dev'.boot = dev.boot + 1
    BY <1>2, <1>7, <1>10 DEF GoDown
  <2>. QED BY <1>2, <1>6, <1>10, <2>1 DEF GoDown
<1>11. ASSUME mon'.logs = mon.logs, mon'.last = mon.last, dev' = dev
       PROVE  KeptInOrder' /\ Newest' = Newest
  <2>1. Newest' = Newest
    BY <1>11 DEF Newest
  <2>. QED BY <1>1, <1>11, <2>1 DEF KeptInOrder
<1>12. CASE PollDevice
  <2>1. mon'.logs = mon.logs /\ mon'.last = mon.last /\ UNCHANGED <<dev, feed, view>>
    BY <1>2, <1>12 DEF PollDevice
  <2>2. KeptInOrder' /\ Newest' = Newest
    BY <1>11, <2>1
  <2>3. FeedInOrder' /\ PageBehind' /\ LinesInOrder'
    BY <1>1, <2>1, <2>2 DEF FeedInOrder, PageBehind, LinesInOrder
  <2>. QED BY <1>4, <2>2, <2>3 DEF MonitorIInv
<1>13. CASE PollLogs
  <2>1. KeptInOrder' /\ FeedInOrder' /\ ~Older(Newest', view.line)
    BY <1>13, PollKeepsOrder
  <2>2. view' = view /\ (~view.open => feed' = feed)
    BY <1>13 DEF PollLogs, Sent
  <2>3. PageBehind' /\ LinesInOrder'
    BY <1>1, <2>1, <2>2 DEF PageBehind, LinesInOrder
  <2>. QED BY <1>4, <2>1, <2>3 DEF MonitorIInv
<1>14. CASE PollFails
  <2>1. mon'.logs = mon.logs /\ mon'.last = mon.last /\ UNCHANGED <<dev, view>>
    BY <1>2, <1>14 DEF PollFails
  <2>2. KeptInOrder' /\ Newest' = Newest
    BY <1>11, <2>1
  <2>3. feed' = feed \/ (view.open /\ feed' = feed \o <<[device |-> mon'.device]>>)
    BY <1>14 DEF PollFails, Sent
  <2>4. FeedInOrder'
    <3>1. CASE feed' = feed
      BY <1>1, <2>1, <2>2, <3>1 DEF FeedInOrder
    <3>2. CASE feed' = feed \o <<[device |-> mon'.device]>>
      <4>1. Len(feed') = Len(feed) + 1 /\ Len(feed) \in Nat
            /\ (\A i \in 1..Len(feed) : feed'[i] = feed[i])
            /\ feed'[Len(feed) + 1] = [device |-> mon'.device]
        BY <1>2, <3>2
      <4>2. \A i \in 1..Len(feed') : "log" \in DOMAIN feed'[i] => i \in 1..Len(feed) /\ feed'[i] = feed[i]
        BY <4>1
      <4>. QED BY <1>1, <2>1, <2>2, <4>2 DEF FeedInOrder
    <3>. QED BY <2>3, <3>1, <3>2
  <2>5. PageBehind' /\ LinesInOrder'
    BY <1>1, <2>1, <2>2, <2>3 DEF PageBehind, LinesInOrder
  <2>. QED BY <1>4, <2>2, <2>4, <2>5 DEF MonitorIInv
<1>15. CASE BootPage
  <2>1. UNCHANGED <<dev, mon, events>>
    BY <1>15 DEF BootPage
  <2>2. KeptInOrder' /\ Newest' = Newest
    BY <1>11, <2>1
  <2>3. CASE view.stage = "logs"
    <3>1. view.line = NoLine /\ view.sorted /\ ~view.open /\ feed = <<>> /\ feed' = <<>>
      BY <1>1, <1>15, <2>3 DEF BootPage, PageBehind, LinesInOrder
    <3>2. ShownAll(view, mon.logs) = [view EXCEPT !.line = Newest]
      BY <1>1, <3>1, DrawnAtOnce
    <3>3. view' = [[view EXCEPT !.line = Newest] EXCEPT !.stage = "stream", !.device = mon.device]
      BY <1>15, <2>3, <3>2 DEF BootPage
    <3>4. view'.line = Newest /\ view'.stage = "stream" /\ view'.sorted /\ ~view'.open
      BY <1>2, <3>1, <3>3
    <3>5. ~Older(Newest, Newest)
      BY <1>3, OlderIs
    <3>6. FeedInOrder' /\ PageBehind' /\ LinesInOrder'
      BY <2>2, <3>1, <3>4, <3>5 DEF FeedInOrder, PageBehind, LinesInOrder
    <3>. QED BY <1>4, <2>2, <3>6 DEF MonitorIInv
  <2>4. CASE view.stage # "logs"
    <3>1. view' = [view EXCEPT !.stage = "running", !.open = TRUE] /\ feed' = <<[device |-> mon.device]>>
      BY <1>15, <2>4 DEF BootPage
    <3>2. view'.line = view.line /\ view'.stage = "running" /\ view'.sorted = view.sorted /\ view'.open
      BY <1>2, <3>1
    <3>3. \A i \in 1..Len(feed') : "log" \notin DOMAIN feed'[i]
      BY <3>1
    <3>4. FeedInOrder' /\ PageBehind' /\ LinesInOrder'
      BY <1>1, <2>2, <3>2, <3>3 DEF FeedInOrder, PageBehind, LinesInOrder
    <3>. QED BY <1>4, <2>2, <3>4 DEF MonitorIInv
  <2>. QED BY <2>3, <2>4
<1>16. CASE Render
  <2>1. /\ view.open /\ feed # <<>> /\ feed' = Tail(feed) /\ UNCHANGED <<dev, mon, events>>
        /\ view' = IF "log" \in DOMAIN Head(feed) THEN Shown(view, Head(feed).log)
                   ELSE [view EXCEPT !.device = Head(feed).device]
    BY <1>16 DEF Render
  <2>2. KeptInOrder' /\ Newest' = Newest
    BY <1>11, <2>1
  <2>3. /\ Len(feed) \in Nat \ {0} /\ Head(feed) = feed[1] /\ Len(feed') = Len(feed) - 1
        /\ \A i \in 1..Len(feed') : feed'[i] = feed[i + 1] /\ i + 1 \in 1..Len(feed)
    BY <1>2, <2>1
  <2>4. \A i \in 1..Len(feed') : "log" \in DOMAIN feed'[i] =>
          /\ Older(view.line, feed'[i].log) /\ ~Older(Newest, feed'[i].log)
          /\ "log" \in DOMAIN feed[1] => Older(feed[1].log, feed'[i].log)
    <3>. SUFFICES ASSUME NEW i \in 1..Len(feed'), "log" \in DOMAIN feed'[i]
                  PROVE  /\ Older(view.line, feed'[i].log) /\ ~Older(Newest, feed'[i].log)
                         /\ "log" \in DOMAIN feed[1] => Older(feed[1].log, feed'[i].log)
      OBVIOUS
    <3>1. PICK k \in 1..Len(feed) : k = i + 1
      BY <2>3
    <3>2. 1 \in 1..Len(feed) /\ 1 < k /\ feed'[i] = feed[k]
      BY <2>3, <3>1
    <3>. QED BY <1>1, <3>2 DEF FeedInOrder
  <2>5. \A i, j \in 1..Len(feed') :
          i < j /\ "log" \in DOMAIN feed'[i] /\ "log" \in DOMAIN feed'[j]
            => Older(feed'[i].log, feed'[j].log)
    <3>. SUFFICES ASSUME NEW i \in 1..Len(feed'), NEW j \in 1..Len(feed'), i < j,
                         "log" \in DOMAIN feed'[i], "log" \in DOMAIN feed'[j]
                  PROVE  Older(feed'[i].log, feed'[j].log)
      OBVIOUS
    <3>1. PICK k \in 1..Len(feed) : k = i + 1
      BY <2>3
    <3>2. PICK l \in 1..Len(feed) : l = j + 1
      BY <2>3
    <3>3. k < l /\ feed'[i] = feed[k] /\ feed'[j] = feed[l]
      BY <2>3, <3>1, <3>2
    <3>. QED BY <1>1, <3>3 DEF FeedInOrder
  <2>6. CASE "log" \in DOMAIN feed[1]
    <3>1. Older(view.line, feed[1].log) /\ ~Older(Newest, feed[1].log)
      BY <1>1, <2>3, <2>6 DEF FeedInOrder
    <3>2. view' = [view EXCEPT !.line = feed[1].log, !.sorted = view.sorted /\ Older(view.line, feed[1].log)]
      BY <2>1, <2>3, <2>6 DEF Shown
    <3>3. view'.line = feed[1].log /\ view'.sorted = (view.sorted /\ Older(view.line, feed[1].log))
          /\ view'.open = view.open /\ view'.stage = view.stage
      BY <1>2, <3>2
    <3>4. FeedInOrder'
      BY <2>2, <2>4, <2>5, <2>6, <3>3 DEF FeedInOrder
    <3>5. LinesInOrder'
      BY <1>1, <3>1, <3>3 DEF LinesInOrder
    <3>6. PageBehind'
      BY <1>1, <2>1, <2>2, <3>1, <3>3 DEF PageBehind
    <3>. QED BY <1>4, <2>2, <3>4, <3>5, <3>6 DEF MonitorIInv
  <2>7. CASE "log" \notin DOMAIN feed[1]
    <3>1. view' = [view EXCEPT !.device = feed[1].device]
      BY <2>1, <2>3, <2>7
    <3>2. view'.line = view.line /\ view'.sorted = view.sorted
          /\ view'.open = view.open /\ view'.stage = view.stage
      BY <1>2, <3>1
    <3>3. FeedInOrder'
      BY <2>2, <2>4, <2>5, <3>2 DEF FeedInOrder
    <3>4. LinesInOrder' /\ PageBehind'
      BY <1>1, <2>1, <2>2, <3>2 DEF LinesInOrder, PageBehind
    <3>. QED BY <1>4, <2>2, <3>3, <3>4 DEF MonitorIInv
  <2>. QED BY <2>6, <2>7
<1>17. CASE CutOff
  <2>1. feed' = <<>> /\ view' = [view EXCEPT !.open = FALSE] /\ UNCHANGED <<dev, mon>>
    BY <1>17 DEF CutOff
  <2>2. KeptInOrder' /\ Newest' = Newest
    BY <1>11, <2>1
  <2>3. view'.line = view.line /\ view'.sorted = view.sorted /\ view'.open = FALSE /\ view'.stage = view.stage
    BY <1>2, <2>1
  <2>4. FeedInOrder' /\ PageBehind' /\ LinesInOrder'
    BY <1>1, <2>1, <2>2, <2>3 DEF FeedInOrder, PageBehind, LinesInOrder
  <2>. QED BY <1>4, <2>2, <2>4 DEF MonitorIInv
<1>18. CASE Resume
  <2>1. view' = [view EXCEPT !.open = TRUE] /\ feed' = <<[device |-> mon.device]>>
        /\ view.stage = "running" /\ UNCHANGED <<dev, mon>>
    BY <1>18 DEF Resume
  <2>2. KeptInOrder' /\ Newest' = Newest
    BY <1>11, <2>1
  <2>3. view'.line = view.line /\ view'.sorted = view.sorted /\ view'.open /\ view'.stage = "running"
    BY <1>2, <2>1
  <2>4. \A i \in 1..Len(feed') : "log" \notin DOMAIN feed'[i]
    BY <2>1
  <2>5. FeedInOrder' /\ PageBehind' /\ LinesInOrder'
    BY <1>1, <2>2, <2>3, <2>4 DEF FeedInOrder, PageBehind, LinesInOrder
  <2>. QED BY <1>4, <2>2, <2>5 DEF MonitorIInv
<1>19. ASSUME NEW action \in Controls, Control(action) PROVE MonitorIInv'
  <2>1. dev'.boot = dev.boot \/ dev'.boot = dev.boot + 1
    BY <1>2, <1>7, <1>19 DEF Control
  <2>. QED BY <1>2, <1>6, <1>19, <2>1 DEF Control
<1>20. CASE UNCHANGED monitorVars
  BY <1>2, <1>6, <1>20 DEF monitorVars
<1>. QED BY <1>8, <1>9, <1>10, <1>12, <1>13, <1>14, <1>15, <1>16, <1>17, <1>18, <1>19, <1>20
        DEF MonitorNext

\* The page shows each line of the device's log once and in the order they
\* were written, whatever the poll reads at a time, however often the device
\* restarts and the stream to the page breaks (pollLogs, boot, renderLog).
THEOREM LogStaysInOrder == MonitorSpec => []LinesInOrder
<1>1. MonitorIInv => LinesInOrder
  BY DEF MonitorIInv
<1>. QED BY <1>1, MonitorStarts, MonitorSteps, PTL DEF MonitorSpec
=============================================================================
