-------------------------- MODULE CalibrationWizard --------------------------
(***************************************************************************)
(* The guided calibration page (apps/dashboard/public/fleet.js, guide      *)
(* "calibrate"): it starts a recording per step, counts the step when the  *)
(* event stream says a recording has ended, trains after the last step, and*)
(* walks the zones for a live validation.  Other pages use the same server.*)
(***************************************************************************)
EXTENDS Naturals, Sequences, FiniteSets, SequencesExt

CONSTANTS
  BaseSteps,   \* the labels of baseSteps after "empty", in order
  MaxStart, MaxOther, MaxWalk  \* bounds

ASSUME WizardAssumption == BaseSteps \in Seq(STRING)

VARIABLES
  rec,      \* the server: who records what now, and the statuses on the stream
  posts,    \* the page's start requests the server has not answered yet
  refusals, \* answers that refuse a start, on their way to the page
  wiz,      \* the page's variables
  kept,     \* for each step counted in this pass, how it was recorded (ghost)
  disturbed, \* other recordings have met the step that is captured (ghost)
  walk,     \* the zones compared since the model was trained (ghost)
  counts    \* starts, interventions (refusals too) and validation clicks so far

serverSide == <<rec, posts, refusals>>
pageSide == <<wiz, kept, disturbed, walk>>
wizardVars == <<serverSide, pageSide, counts>>

Steps == <<"empty">> \o BaseSteps
Nobody == <<"nobody", "none">>
Mine(step) == <<"wizard", step>>

WizardInit ==
  /\ rec = [by |-> Nobody, last |-> Nobody, wire |-> <<>>]
  /\ posts = {} /\ refusals = 0
  /\ wiz = [running |-> FALSE, waiting |-> FALSE, disabled |-> FALSE, steps |-> Steps,
            at |-> 0, pass |-> 1, button |-> "start", model |-> 0,
            validate |-> 0, confused |-> {}, says |-> "none", recapture |-> FALSE]
  /\ kept = <<>> /\ disturbed = FALSE /\ walk = {}
  /\ counts = [starts |-> 0, others |-> 0, walks |-> 0]

-----------------------------------------------------------------------------
(* The server, as fully modelled in DashboardRecorder and DashboardServer. *)

\* A start request is answered: started, which changes nothing on the page;
\* refused, while one is active, the receivers are not ready or start throws
\* before the recording is active; or both, when start throws after.
ServeStart ==
  \E p \in posts :
    /\ posts' = posts \ {p}
    /\ \/ rec.by = Nobody /\ rec' = [rec EXCEPT !.by = Mine(p.step)]
          /\ UNCHANGED <<refusals, counts>>
       \/ /\ counts.others < MaxOther /\ counts' = [counts EXCEPT !.others = @ + 1]
          /\ refusals' = refusals + 1
          /\ \/ UNCHANGED rec
             \/ rec.by = Nobody /\ rec' = [rec EXCEPT !.by = Mine(p.step)]
    /\ UNCHANGED pageSide

\* A recording ends, by itself or stopped by any page, and its status is
\* broadcast, unless stop threw.
EndRecording ==
  /\ rec.by # Nobody
  /\ \E wire \in {Append(rec.wire, rec.by), rec.wire} :
       rec' = [by |-> Nobody, last |-> rec.by, wire |-> wire]
  /\ UNCHANGED <<posts, refusals, pageSide, counts>>

\* Another page starts a recording, or asks to stop when nothing is recorded,
\* which broadcasts the status of the last one.
OtherPage ==
  /\ rec.by = Nobody /\ counts.others < MaxOther
  /\ counts' = [counts EXCEPT !.others = @ + 1]
  /\ \/ rec' = [rec EXCEPT !.by = <<"other", "none">>]
     \/ rec' = [rec EXCEPT !.wire = Append(@, rec.last)]
  /\ disturbed' = TRUE
  /\ UNCHANGED <<posts, refusals, wiz, kept, walk>>

\* The stream breaks and is opened again: the server sends the status of its
\* last recording, if none is active, and what was on its way is lost.
Reopen ==
  /\ counts.others < MaxOther /\ counts' = [counts EXCEPT !.others = @ + 1]
  /\ rec' = [rec EXCEPT !.wire = IF rec.by = Nobody THEN <<rec.last>> ELSE <<>>]
  /\ disturbed' = TRUE
  /\ UNCHANGED <<posts, refusals, wiz, kept, walk>>

-----------------------------------------------------------------------------
(* Capturing.                                                              *)

\* Mutant: the recapture button of the last validation stays.
BegunRecapturable(w) == [w EXCEPT !.running = TRUE, !.at = 0, !.button = "capture"]

\* beginPass.
Begun(w) == [w EXCEPT !.running = TRUE, !.at = 0, !.button = "capture", !.recapture = FALSE]

\* captureStep: blocked while receivers are unready, while a step is waited
\* for, and after the last step.
Capture ==
  /\ ~wiz.disabled
  /\ LET w == IF wiz.running THEN wiz ELSE Begun(wiz)
     IN  IF ~wiz.waiting /\ w.at < Len(w.steps) /\ counts.starts < MaxStart
           THEN /\ wiz' = [w EXCEPT !.disabled = TRUE, !.waiting = TRUE]
                /\ posts' = posts \cup {[step |-> w.steps[w.at + 1], nth |-> counts.starts]}
                /\ counts' = [counts EXCEPT !.starts = @ + 1]
                /\ kept' = IF wiz.running THEN kept ELSE <<>>
                /\ disturbed' = ~(posts = {} /\ rec.by = Nobody /\ rec.wire = <<>>)
           ELSE UNCHANGED <<wiz, posts, counts, kept, disturbed>>
  /\ UNCHANGED <<rec, refusals, walk>>

\* A start was refused: the button is released, whatever step is waited for by
\* now.
TakeRefusal ==
  /\ refusals > 0 /\ refusals' = refusals - 1
  /\ wiz' = [wiz EXCEPT !.waiting = FALSE, !.disabled = FALSE]
  /\ UNCHANGED <<rec, posts, kept, disturbed, walk, counts>>

\* The stream says that a recording has ended: if a step is waited for it is
\* counted, and after the last one the model is trained.
HearEnd ==
  /\ rec.wire # <<>> /\ rec' = [rec EXCEPT !.wire = Tail(@)]
  /\ IF ~wiz.running \/ ~wiz.waiting THEN UNCHANGED <<wiz, kept>>
     ELSE LET last == wiz.at + 1 = Len(wiz.steps)
          IN  /\ kept' = Append(kept, [own |-> Head(rec.wire) = Mine(wiz.steps[wiz.at + 1]),
                                       disturbed |-> disturbed])
              /\ wiz' = [wiz EXCEPT !.waiting = FALSE, !.at = @ + 1, !.disabled = @ /\ last,
                           !.button = IF last THEN "training" ELSE @]
  /\ UNCHANGED <<posts, refusals, disturbed, walk, counts>>

\* trainPass: the pass is over with a new model, or the button says "Retry
\* training" while the page still thinks it is in the pass.
TrainPass ==
  /\ wiz.button = "training"
  /\ \/ wiz' = [wiz EXCEPT !.running = FALSE, !.at = 0, !.steps = Steps, !.disabled = FALSE,
                  !.pass = 2, !.button = IF wiz.pass = 1 THEN "second" ELSE "again",
                  !.model = IF @ < 2 THEN @ + 1 ELSE @]
        /\ walk' = {}
     \/ wiz' = [wiz EXCEPT !.button = "retry", !.disabled = FALSE] /\ UNCHANGED walk
  /\ UNCHANGED <<serverSide, kept, disturbed, counts>>

-----------------------------------------------------------------------------
(* Validating.                                                             *)

\* validateNextZone: a click compares the zone asked for before with what the
\* page shows (that zone, another, or none that is accepted), asks for the next,
\* and after the last says how it went.
ValidateNext ==
  /\ wiz.button = "again"
  /\ counts.walks < MaxWalk /\ counts' = [counts EXCEPT !.walks = @ + 1]
  /\ \E seen \in ToSet(BaseSteps) \cup {"unknown"} :
       LET next == wiz.validate + 1
           over == next > Len(BaseSteps)
           prior == BaseSteps[next - 1]
           wrong == IF next > 1 /\ seen # prior THEN {prior, seen} \ {"unknown"} ELSE {}
       IN  /\ walk' = IF next = 1 THEN {} ELSE IF over THEN walk ELSE walk \cup {prior}
           /\ wiz' = IF over
                THEN [wiz EXCEPT !.validate = 0, !.recapture = wiz.confused # {},
                        !.says = IF wiz.confused = {} THEN "passed" ELSE "mistakes"]
                ELSE [wiz EXCEPT !.validate = next, !.says = "walking",
                        !.confused = @ \cup wrong]
  /\ UNCHANGED <<serverSide, kept, disturbed>>

\* The recapture button starts a pass over the confused zones alone: those
\* asked for and those seen in their place.
Recapture ==
  /\ wiz.recapture
  /\ wiz' = [Begun(wiz) EXCEPT !.steps = SelectSeq(Steps, LAMBDA s : s \in wiz.confused)]
  /\ kept' = <<>>
  /\ UNCHANGED <<serverSide, disturbed, walk, counts>>

WizardNext ==
  \/ ServeStart \/ EndRecording \/ OtherPage \/ Reopen
  \/ Capture \/ TakeRefusal \/ HearEnd \/ TrainPass \/ ValidateNext \/ Recapture

WizardSpec == WizardInit /\ [][WizardNext]_wizardVars

-----------------------------------------------------------------------------
\* Every step counted as captured was recorded under its own label, whatever
\* the order of replies and events, of starts refused or failing half way, of
\* passes begun anew and zones captured again, unless other recordings met this
\* very step: one was under way, or its end on the stream, when it was captured,
\* or another page or a stream reopened came between (captureStep, the recording
\* listener).  The steps after it are the page's own again.
CapturedIsRecorded == \A i \in DOMAIN kept : kept[i].own \/ kept[i].disturbed

\* Without the exception.
CapturedIsOwn == \A i \in DOMAIN kept : kept[i].own

\* "Live validation passed" is said when every zone was compared with the
\* model that is running.
PassedMeansWalked == wiz.says = "passed" => walk = ToSet(BaseSteps)

-----------------------------------------------------------------------------
(* The inductive invariant.                                                *)

\* The page's variables, with the steps it has.
Wizard(steps) ==
  [running : BOOLEAN, waiting : BOOLEAN, disabled : BOOLEAN, steps : {steps}, at : Nat,
   pass : {1, 2}, button : {"start", "capture", "training", "retry", "second", "again"},
   model : 0..2, validate : Nat, confused : SUBSET ToSet(BaseSteps),
   says : {"none", "walking", "passed", "mistakes"}, recapture : BOOLEAN]

Account == [own : BOOLEAN, disturbed : BOOLEAN]

WizardTypeOK ==
  /\ wiz \in Wizard(wiz.steps) /\ disturbed \in BOOLEAN /\ refusals \in Nat
  /\ kept \in Seq(Account)
  /\ counts \in [starts : Nat, others : Nat, walks : Nat]
  /\ rec = [by |-> rec.by, last |-> rec.last, wire |-> rec.wire]

\* The buttons shown and the handlers' flags: a step is waited for only within a
\* pass that still has it, and validation and recapture begin outside one.
ButtonsAgree ==
  /\ wiz.waiting => wiz.running
  /\ wiz.button \in {"start", "second", "again"} \/ wiz.recapture => ~wiz.running
  /\ wiz.button = "training" => ~wiz.waiting /\ ~(wiz.at < Len(wiz.steps))

Current == wiz.steps[wiz.at + 1]

\* An undisturbed step that is waited for is at one place: in the request, with
\* the recorder, on the stream, or refused or lost.
Requested ==
  /\ \E p \in posts : posts = {p} /\ p.step = Current
  /\ rec.by = Nobody /\ rec.wire = <<>>
Recorded == posts = {} /\ rec.by = Mine(Current) /\ rec.wire = <<>>
Announced == posts = {} /\ rec.by = Nobody /\ rec.wire = <<Mine(Current)>>
Refused == posts = {} /\ rec.by = Nobody /\ rec.wire = <<>>

OnePlace == wiz.waiting /\ ~disturbed => Requested \/ Recorded \/ Announced \/ Refused

WizardIInv == WizardTypeOK /\ ButtonsAgree /\ OnePlace /\ CapturedIsRecorded
=============================================================================
