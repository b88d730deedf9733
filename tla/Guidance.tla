------------------------------- MODULE Guidance -------------------------------
(***************************************************************************)
(* What the dashboard tells its user to do next, why there is no dot, and  *)
(* whether there is one.  The room set-up is in the page's local storage,  *)
(* written by the set-up form (four-node-dashboard.html); the snapshot and *)
(* the model come from the server (dashboard-stream.js,                    *)
(* four-node-dashboard.js, room-setup-state.ts, multi-node-engine.ts).     *)
(***************************************************************************)
EXTENDS Naturals, FiniteSets

CONSTANTS MaxZones, MaxEmpty  \* bounds

VARIABLES setup,  \* the saved room set-up
          seen,   \* the snapshot received last
          loaded  \* the model the page believes loaded, by its target

guidanceVars == <<setup, seen, loaded>>

\* configured: saved at all; named: room, person and every zone; sized: both
\* lengths are positive; placed: every zone lies inside the room; distinct: two
\* zones have labels, and no two the same; zones and covered: how many there
\* are, and have a stationary recording.
NoSetup == [configured |-> FALSE, named |-> FALSE, sized |-> FALSE, placed |-> FALSE,
            distinct |-> TRUE, empties |-> 0, zones |-> 0, covered |-> 0]
\* dot: fused.position is null, accepted or rejected.
NoSnapshot == [here |-> FALSE, ready |-> FALSE, state |-> "waiting", target |-> "none", dot |-> "none"]

GuidanceInit == setup = NoSetup /\ seen = NoSnapshot /\ loaded = "none"

-----------------------------------------------------------------------------
(* The set-up's gates, as the dashboard and as room-setup-state.ts see them.*)

\* roomIsValid leaves zones without a label aside and asks for no other name and
\* no coordinates; roomDefinitionValid asks for them all.
RoomIsValid == setup.configured /\ setup.sized /\ setup.zones >= 2 /\ setup.distinct
RoomDefinitionValid == RoomIsValid /\ setup.named /\ setup.placed
ZonesComplete == setup.zones >= 2 /\ setup.covered = setup.zones
MissingZones == setup.zones - setup.covered

\* deriveRoomSetupGate: the first gate that is not passed blocks.
Blocker ==
  CASE ~RoomDefinitionValid -> "room"
    [] RoomDefinitionValid /\ ~seen.ready -> "receivers"
    [] RoomDefinitionValid /\ seen.ready /\ setup.empties < 2 -> "empty"
    [] RoomDefinitionValid /\ seen.ready /\ setup.empties >= 2 /\ ~ZonesComplete -> "zones"
    [] OTHER -> IF loaded = "none" THEN "model" ELSE "complete"

\* gates of the form: it lets the user train with two zones recorded.
FormTrains == RoomDefinitionValid /\ seen.ready /\ setup.empties >= 2 /\ setup.covered >= 2

\* Mutant: a zone is enough to train with.
NextActionAnyZone ==
  CASE ~seen.here -> "connect"
    [] seen.here /\ ~RoomIsValid -> "room"
    [] seen.here /\ RoomIsValid /\ ~seen.ready -> "receivers"
    [] seen.ready /\ RoomIsValid /\ setup.empties < 2 -> "empty"
    [] seen.ready /\ RoomIsValid /\ setup.empties >= 2 /\ setup.covered = 0 -> "zones"
    [] OTHER -> IF loaded = "none" THEN "model"
                ELSE IF seen.state # "clear" /\ seen.dot # "accepted" THEN "position" ELSE "validate"

\* nextDashboardAction; without a set-up and with an invalid one it asks for
\* the room.
NextAction ==
  CASE ~seen.here -> "connect"
    [] seen.here /\ ~RoomIsValid -> "room"
    [] seen.here /\ RoomIsValid /\ ~seen.ready -> "receivers"
    [] seen.ready /\ RoomIsValid /\ setup.empties < 2 -> "empty"
    [] seen.ready /\ RoomIsValid /\ setup.empties >= 2 /\ MissingZones > 0 -> "zones"
    [] OTHER -> IF loaded = "none" THEN "model"
                ELSE IF seen.state # "clear" /\ seen.dot # "accepted" THEN "position" ELSE "validate"

\* renderSetupHealthChecklist: the items that are ticked.
Checklist ==
  {i \in {"room", "receivers", "empty", "zones", "model"} :
     CASE i = "room" -> RoomIsValid
       [] i = "receivers" -> seen.ready
       [] i = "empty" -> setup.empties >= 2
       [] i = "zones" -> setup.zones > 0 /\ MissingZones = 0
       [] i = "model" -> loaded # "none"}

-----------------------------------------------------------------------------
(* The dot.                                                                *)

\* renderPositionSnapshot and renderRoomPosition draw an accepted position
\* when the snapshot or the page knows of a position model.
DotDrawn ==
  seen.dot = "accepted" /\ {seen.target, loaded} \cap {"zones", "continuous-xy"} # {}

\* whyNoDotMessage: the reason it gives, or that the dot is visible.
WhyNoDot ==
  CASE ~seen.here -> "no snapshot"
    [] seen.here /\ seen.state = "clear" -> "clear"
    [] seen.here /\ seen.state # "clear" /\ ~setup.configured -> "no set-up"
    [] OTHER -> IF loaded = "none" /\ seen.target = "none" THEN "no model"
                ELSE IF seen.dot = "accepted" THEN "visible" ELSE "rejected"

-----------------------------------------------------------------------------
(* What changes them.                                                      *)

\* The form saves the room, at first with its four default zones, adds a zone,
\* or removes one when there are more than two.
SaveRoom ==
  /\ \E named, sized, placed, distinct \in BOOLEAN :
       setup' = [setup EXCEPT !.configured = TRUE, !.named = named, !.sized = sized,
                              !.placed = placed, !.distinct = distinct,
                              !.zones = IF setup.configured THEN @ ELSE 4]
  /\ UNCHANGED <<seen, loaded>>

ChangeZones ==
  /\ setup.configured
  /\ \/ setup.zones < MaxZones /\ setup' = [setup EXCEPT !.zones = @ + 1]
     \/ setup.zones > 2 /\ MissingZones > 0 /\ setup' = [setup EXCEPT !.zones = @ - 1]
     \/ /\ setup.zones > 2 /\ setup.covered > 0
        /\ setup' = [setup EXCEPT !.zones = @ - 1, !.covered = @ - 1]
  /\ UNCHANGED <<seen, loaded>>

\* A recording of the empty room or of a zone ends with frames in it.
Captured ==
  /\ setup.configured
  /\ \/ setup.empties < MaxEmpty /\ setup' = [setup EXCEPT !.empties = @ + 1]
     \/ MissingZones > 0 /\ setup' = [setup EXCEPT !.covered = @ + 1]
  /\ UNCHANGED <<seen, loaded>>

\* fuse: without a ready receiver the state is waiting or baseline.  A joint
\* prediction replaces the position and the target and leaves the state
\* (JointPositionEngine.snapshot).
ReceiveState ==
  /\ \E ready \in BOOLEAN, state \in {"waiting", "clear", "active"},
        target \in {"none", "zones", "continuous-xy"}, dot \in {"none", "accepted", "rejected"} :
       /\ ready => state # "waiting"
       /\ target = "none" => dot = "none"
       /\ state = "waiting" /\ target = "zones" => dot = "none"
       /\ seen' = [here |-> TRUE, ready |-> ready, state |-> state, target |-> target, dot |-> dot]
  /\ UNCHANGED <<setup, loaded>>

\* trainPositionWithFallback: XY, or zones if that fails, or nothing changes;
\* a model event; a server that starts again without one.
ModelChanges ==
  /\ loaded' \in {"none", "zones", "continuous-xy"}
  /\ UNCHANGED <<setup, seen>>

GuidanceNext == SaveRoom \/ ChangeZones \/ Captured \/ ReceiveState \/ ModelChanges
GuidanceSpec == GuidanceInit /\ [][GuidanceNext]_guidanceVars

-----------------------------------------------------------------------------
\* The page's three accounts of the set-up agree: the next action is the gate
\* that blocks, once the room has its names and its zones a place; a live
\* validation is proposed only with the whole checklist ticked; and no gate
\* before the one proposed is unticked (nextDashboardAction,
\* renderSetupHealthChecklist, deriveRoomSetupGate).
GuidanceAgrees ==
  /\ seen.here /\ (RoomIsValid => setup.named /\ setup.placed) =>
       NextAction = Blocker \/ (Blocker = "complete" /\ NextAction \in {"position", "validate"})
  /\ NextAction = "validate" => Checklist = {"room", "receivers", "empty", "zones", "model"}
  /\ NextAction = "model" => Checklist = {"room", "receivers", "empty", "zones"}

\* Where the form lets the user train, the next action asks for nothing that
\* comes before the training.
FormAgrees ==
  FormTrains => NextAction \notin {"connect", "room", "receivers", "empty", "zones"}

\* "No dot because ..." is said only when no dot is drawn.
WhyNoDotIsTrue == DotDrawn => WhyNoDot = "visible"

-----------------------------------------------------------------------------
(* The inductive invariant.                                                *)

GuidanceTypeOK ==
  /\ setup \in [configured : BOOLEAN, named : BOOLEAN, sized : BOOLEAN, placed : BOOLEAN,
                distinct : BOOLEAN, empties : Nat, zones : Nat, covered : Nat]
  /\ seen \in [here : BOOLEAN, ready : BOOLEAN, state : {"waiting", "clear", "active"},
               target : {"none", "zones", "continuous-xy"},
               dot : {"none", "accepted", "rejected"}]
  /\ loaded \in {"none", "zones", "continuous-xy"}

\* Recordings are of zones that are there, once the room is saved, and
\* readiness comes by a snapshot.
GuidanceIInv ==
  /\ GuidanceTypeOK
  /\ setup.covered <= setup.zones
  /\ ~setup.configured => setup.covered = 0
  /\ seen.ready => seen.here
=============================================================================
