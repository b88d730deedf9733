---------------------------- MODULE ReceiverSetup ----------------------------
(***************************************************************************)
(* The tools that set receivers up, side by side on the same receivers:    *)
(* the USB flasher (tools/flash-configured.mjs), the launcher (tools/rf.mjs*)
(* ), the CLI's configure (tools/cli/src/configure.ts) and the four-       *)
(* receiver script (tools/hardware/configure-four-receivers.mjs), with the *)
(* receiver's saved configuration, the one it booted with and its deferred *)
(* restart (ControlApi.cpp, ConfigStore.cpp, Provisioning.cpp).            *)
(***************************************************************************)
EXTENDS Naturals, FiniteSets

CONSTANTS
  Board, Host, Tool,       \* receivers, collector hosts, tool processes
  MaxRun, MaxUpset  \* bounds: tool runs; power cuts and set-up resets

\* The names this module gives to what is not a host or a tool.
ASSUME SetupAssumption ==
  "none" \notin Host /\ "blank" \notin Host /\ "gone" \notin Tool

VARIABLES
  dev,      \* per receiver: app image, saved configuration, the one in effect
  tool,     \* the tool processes
  applying, \* per receiver, who saved and has no restart accepted (a ghost)
  promise,  \* per receiver, the host of the tool that succeeded last (a ghost)
  events    \* runs, and power cuts and set-up resets, so far

setupVars == <<dev, tool, applying, promise, events>>

\* A configuration: its collector, and whether its capture mode and ping rate
\* are the ones the four-receiver script asks for.
Setting == [host : Host, tuned : BOOLEAN]
Blank == [host |-> "blank", tuned |-> FALSE]
Gone == "gone"
NoHost == "none"
Idle == [job |-> "none", host |-> NoHost, at |-> "idle", all |-> {}, todo |-> {}, changed |-> {},
         seen |-> [d \in Board |-> Blank], spoiled |-> {}]

SetupInit ==
  /\ \E app \in [Board -> {"none", "whole"}] :  \* new, or flashed before
       dev = [d \in Board |-> [app |-> app[d], saved |-> Blank, active |-> Blank,
                               up |-> FALSE, due |-> FALSE]]
  /\ tool = [t \in Tool |-> Idle]
  /\ applying = [d \in Board |-> {}] /\ promise = [d \in Board |-> NoHost]
  /\ events = [runs |-> 0, upsets |-> 0]

-----------------------------------------------------------------------------
(* The receiver.                                                           *)

Off(r) == [r EXCEPT !.up = FALSE, !.due = FALSE, !.active = Blank]

\* It boots with what is saved; nothing saved is the SoftAP set-up.
Boot(d) ==
  /\ ~dev[d].up /\ dev[d].app = "whole"
  /\ dev' = [dev EXCEPT ![d].up = TRUE, ![d].active = dev[d].saved]
  /\ applying' = [applying EXCEPT ![d] = {}]
  /\ UNCHANGED <<tool, promise, events>>

\* deferredRebootTask, half a second after the answer; or the power goes.
Restart(d) ==
  /\ dev[d].up
  /\ \/ dev[d].due /\ UNCHANGED events
     \/ events.upsets < MaxUpset /\ events' = [events EXCEPT !.upsets = @ + 1]
  /\ dev' = [dev EXCEPT ![d] = Off(@)]
  /\ UNCHANGED <<tool, applying, promise>>

\* What is saved changes, by a tool or not: nothing promised before holds, and
\* the other tools' view of this receiver is out of date.
Rewrites(d, by) ==
  /\ promise' = [promise EXCEPT ![d] = NoHost]
  /\ applying' = [applying EXCEPT ![d] = @ \cup {by}]
Spoil(d, by) == [t \in Tool |-> IF t = by THEN tool[t] ELSE [tool[t] EXCEPT !.spoiled = @ \cup {d}]]

\* savePost of the set-up portal, which then restarts.
Provision(d) ==
  /\ dev[d].up /\ dev[d].active = Blank /\ ~dev[d].due
  /\ \E h \in Host :
       dev' = [dev EXCEPT ![d].saved = [host |-> h, tuned |-> FALSE], ![d].due = TRUE]
  /\ promise' = [promise EXCEPT ![d] = NoHost] /\ tool' = Spoil(d, Gone)
  /\ UNCHANGED <<applying, events>>

\* The control API answers once the receiver has booted with a configuration.
Answers(d) == dev[d].up /\ dev[d].active # Blank

\* provisioningResetPost.
ClearProvisioning(d) ==
  /\ Answers(d) /\ events.upsets < MaxUpset /\ events' = [events EXCEPT !.upsets = @ + 1]
  /\ dev' = [dev EXCEPT ![d].saved = Blank, ![d].due = TRUE]
  /\ promise' = [promise EXCEPT ![d] = NoHost] /\ tool' = Spoil(d, Gone)
  /\ UNCHANGED applying

-----------------------------------------------------------------------------
(* A tool's run.                                                           *)

StartTool(t) ==
  /\ tool[t].at = "idle" /\ events.runs < MaxRun
  /\ events' = [events EXCEPT !.runs = @ + 1]
  /\ \E h \in Host, d \in Board, job \in {"flash", "rf", "cli", "four"} :
       LET all == IF job = "four" THEN Board ELSE {d}
       IN  tool' = [tool EXCEPT ![t] = [Idle EXCEPT !.job = job, !.host = h, !.all = all, !.todo = all,
                      !.at = CASE job = "flash" -> "erase" [] job = "cli" -> "save"
                               [] OTHER -> "inventory"]]
  /\ UNCHANGED <<dev, applying, promise>>

\* It ends well: from now on it has promised its host on the receivers nobody
\* else rewrote, unless someone saved one and has not had it restarted.
Succeed(t) ==
  /\ tool' = [tool EXCEPT ![t] = Idle]
  /\ promise' = [d \in Board |->
       IF d \in tool[t].all \ tool[t].spoiled /\ applying[d] = {} THEN tool[t].host ELSE promise[d]]

\* A command exits with an error, a request fails or times out, or somebody
\* presses Ctrl-C: nothing is undone.
Abandon(t) ==
  /\ tool[t].at # "idle"
  /\ tool' = [tool EXCEPT ![t] = Idle]
  /\ applying' = [d \in Board |-> IF t \in applying[d] THEN (applying[d] \ {t}) \cup {Gone}
                                  ELSE applying[d]]
  /\ UNCHANGED <<dev, promise, events>>

-----------------------------------------------------------------------------
(* flash-configured.mjs: every esptool command resets the board.           *)

At(t, where, d) == tool[t].at = where /\ d \in tool[t].todo

\* flash_id and erase_flash, or without the latter with ESP_ERASE=0.
FlashErase(t, d) ==
  /\ At(t, "erase", d)
  /\ \/ /\ dev' = [dev EXCEPT ![d] = [Off(@) EXCEPT !.app = "none", !.saved = Blank]]
        /\ promise' = [promise EXCEPT ![d] = NoHost]
        /\ tool' = [Spoil(d, t) EXCEPT ![t].at = "image"]
     \/ /\ dev' = [dev EXCEPT ![d] = Off(@)]
        /\ tool' = [tool EXCEPT ![t].at = "image"] /\ UNCHANGED promise
  /\ UNCHANGED <<applying, events>>

\* write_flash 0x0: the combined image fills the gap where the configuration
\* is.  It may stop half-way.
FlashImage(t, d) ==
  /\ At(t, "image", d)
  /\ \E app \in {"whole", "part"} :
       /\ dev' = [dev EXCEPT ![d] = [Off(@) EXCEPT !.app = app, !.saved = Blank]]
       /\ tool' = [Spoil(d, t) EXCEPT ![t] = IF app = "whole" THEN [@ EXCEPT !.at = "nvs"] ELSE Idle]
  /\ promise' = [promise EXCEPT ![d] = NoHost]
  /\ UNCHANGED <<applying, events>>

\* write_flash 0x9000: the configuration; then read_mac, and it is done.
FlashConfig(t, d) ==
  /\ At(t, "nvs", d)
  /\ dev' = [dev EXCEPT ![d] = [Off(@) EXCEPT !.saved = [host |-> tool[t].host, tuned |-> TRUE]]]
  /\ tool' = [Spoil(d, t) EXCEPT ![t].at = "check"]
  /\ promise' = [promise EXCEPT ![d] = NoHost]
  /\ applying' = [applying EXCEPT ![d] = {}]
  /\ UNCHANGED events

FlashDone(t, d) ==
  /\ At(t, "check", d) /\ dev' = [dev EXCEPT ![d] = Off(@)]
  /\ Succeed(t) /\ UNCHANGED <<applying, events>>

-----------------------------------------------------------------------------
(* The tools that use the control API.                                     *)

\* GET /api/v1/config answers with what is saved.  The launcher is done if its
\* host is there; the script reads all receivers before it goes on.
Inventory(t, d) ==
  /\ At(t, "inventory", d) /\ Answers(d)
  /\ IF tool[t].job = "rf" /\ dev[d].saved.host = tool[t].host
       THEN Succeed(t)
       ELSE /\ UNCHANGED promise
            /\ tool' = [tool EXCEPT ![t] =
                 [tool[t] EXCEPT
                           !.seen[d] = dev[d].saved,
                           !.todo = IF @ = {d} THEN tool[t].all ELSE @ \ {d},
                           !.at = IF tool[t].todo = {d} THEN "save" ELSE @]]
  /\ UNCHANGED <<dev, applying, events>>

\* What POST /api/v1/config is to change: the CLI and the launcher give the
\* host, the script what differed in its inventory.
Wanted(t, d) ==
  LET s == dev[d].saved
  IN  IF tool[t].job # "four" THEN [s EXCEPT !.host = tool[t].host]
      ELSE [host  |-> IF tool[t].seen[d].host = tool[t].host THEN s.host ELSE tool[t].host,
            tuned |-> s.tuned \/ ~tool[t].seen[d].tuned]

\* The next receiver, or the next step with those that were changed.
Saved(t, d, changed) ==
  LET left == tool[t].todo \ {d}
      all == tool[t].changed \cup changed
  IN  [tool[t] EXCEPT !.changed = all, !.todo = IF left = {} THEN all ELSE left,
         !.at = IF left # {} THEN @ ELSE IF tool[t].job = "cli" THEN "verify"
                ELSE IF all = {} THEN "report" ELSE "reboot"]

\* configPost; a receiver whose configuration was cleared refuses it.
Save(t, d) ==
  /\ At(t, "save", d) /\ Answers(d)
  /\ IF tool[t].job = "four" /\ tool[t].seen[d] = [host |-> tool[t].host, tuned |-> TRUE]
       THEN /\ tool' = [tool EXCEPT ![t] = Saved(t, d, {})]
            /\ UNCHANGED <<dev, applying, promise>>
       ELSE /\ dev[d].saved # Blank
            /\ dev' = [dev EXCEPT ![d].saved = Wanted(t, d)]
            /\ Rewrites(d, t)
            /\ tool' = [Spoil(d, t) EXCEPT ![t] = Saved(t, d, {d})]
  /\ UNCHANGED events

\* The CLI reads the configuration back.
Verify(t, d) ==
  /\ At(t, "verify", d) /\ Answers(d) /\ dev[d].saved.host = tool[t].host
  /\ tool' = [tool EXCEPT ![t].at = "reboot"]
  /\ UNCHANGED <<dev, applying, promise, events>>

\* Mutant: the CLI is done once the configuration is verified.
RebootUnasked(t, d) ==
  /\ At(t, "reboot", d) /\ Answers(d)
  /\ applying' = [applying EXCEPT ![d] = @ \ {t}]
  /\ tool' = [tool EXCEPT ![t].at = "report", ![t].todo = tool[t].changed]
  /\ UNCHANGED <<dev, promise, events>>

\* rebootPost: accepted, and carried out half a second later.
RequestReboot(t, d) ==
  /\ At(t, "reboot", d) /\ Answers(d)
  /\ dev' = [dev EXCEPT ![d].due = TRUE]
  /\ applying' = [applying EXCEPT ![d] = @ \ {t}]
  /\ LET left == tool[t].todo \ {d}
     IN  tool' = [tool EXCEPT ![t].todo = IF left = {} THEN tool[t].changed ELSE left,
                              ![t].at = IF left = {} THEN "report" ELSE @]
  /\ UNCHANGED <<promise, events>>

\* The CLI is done at once.  The launcher first waits for a second, until the
\* restart has begun; the script asks for the health at once, and takes an
\* answer from before the restart too.
Report(t) ==
  /\ tool[t].at = "report"
  /\ tool[t].job = "cli" \/ \A d \in tool[t].all : Answers(d) /\ (tool[t].job = "rf" => ~dev[d].due)
  /\ Succeed(t) /\ UNCHANGED <<dev, applying, events>>

SetupNext ==
  \/ \E d \in Board : Boot(d) \/ Restart(d) \/ Provision(d) \/ ClearProvisioning(d)
  \/ \E t \in Tool : StartTool(t) \/ Abandon(t) \/ Report(t)
  \/ \E t \in Tool, d \in Board :
       \/ FlashErase(t, d) \/ FlashImage(t, d) \/ FlashConfig(t, d) \/ FlashDone(t, d)
       \/ Inventory(t, d) \/ Save(t, d) \/ Verify(t, d) \/ RequestReboot(t, d)

SetupSpec == SetupInit /\ [][SetupNext]_setupVars

-----------------------------------------------------------------------------
\* A receiver a tool was done with is configured for that tool's collector and
\* streams to it, or is about to restart so that it will: over tools that
\* overlap or are abandoned half-way, power cuts and set-up resets, as long as
\* nobody wrote its configuration since and none of those who wrote it before
\* left it without a restart (ensureCollectorConfiguration, configure.ts,
\* configure-four-receivers.mjs, flash-configured.mjs, deferredRebootTask).
ConfiguredTakesEffect ==
  \A d \in Board : promise[d] # NoHost =>
    /\ dev[d].app = "whole" /\ dev[d].saved.host = promise[d]
    /\ dev[d].up /\ ~dev[d].due => dev[d].active.host = promise[d]

\* A launcher that finds its collector saved and does no more leaves the receiver
\* streaming there, or about to restart so that it will, unless the tool that
\* saved it is still at work (ensureCollectorConfiguration's early return).
SavedMeansRunning ==
  [][\A t \in Tool, d \in Board :
       tool[t].job = "rf" /\ Inventory(t, d) /\ tool'[t].at = "idle" =>
         dev[d].active.host = tool[t].host \/ dev[d].due \/ applying[d] \cap Tool # {}]_setupVars

-----------------------------------------------------------------------------
(* The inductive invariant.                                                *)

Receiver == [app : {"none", "part", "whole"}, saved : Setting \cup {Blank},
             active : Setting \cup {Blank}, up : BOOLEAN, due : BOOLEAN]
Job == [job : {"none", "flash", "rf", "cli", "four"}, host : Host \cup {NoHost},
        at : {"idle", "erase", "image", "nvs", "check", "inventory", "save", "verify",
              "reboot", "report"},
        all : SUBSET Board, todo : SUBSET Board, changed : SUBSET Board,
        seen : [Board -> Setting \cup {Blank}], spoiled : SUBSET Board]

SetupTypeOK ==
  /\ dev \in [Board -> Receiver]
  /\ tool \in [Tool -> Job]
  /\ applying \in [Board -> SUBSET (Tool \cup {Gone})]
  /\ promise \in [Board -> Host \cup {NoHost}]

\* What a tool is at: its job's steps, on receivers of its own choice.
OnCourse(t) ==
  /\ tool[t].at # "idle" => tool[t].host \in Host
  /\ tool[t].todo \subseteq tool[t].all /\ tool[t].changed \subseteq tool[t].all
  /\ tool[t].at \in {"erase", "image", "nvs", "check"} => tool[t].job = "flash"
  /\ tool[t].job \in {"flash", "rf", "cli"} => \E d \in Board : tool[t].all = {d}

\* What a tool makes of a receiver.
Made(t, d) == dev[d].app = "whole" /\ dev[d].saved.host = tool[t].host

\* What a tool knows of a receiver that nobody else has rewritten: one it is done
\* with is as it made it, one it has read is as it saw it.
Knows(t, d) ==
  /\ tool[t].at = "nvs" => dev[d].app = "whole"
  /\ tool[t].at \in {"check", "verify", "reboot", "report"} => Made(t, d)
  /\ tool[t].at = "save" =>
       IF d \notin tool[t].todo THEN Made(t, d)
       ELSE tool[t].job = "four" => tool[t].seen[d] = dev[d].saved
  /\ tool[t].at = "inventory" /\ d \notin tool[t].todo => tool[t].seen[d] = dev[d].saved

\* A receiver that runs has its image; it runs what is saved, unless someone
\* who saved has no restart accepted, or the restart is due.
RunsSaved(d) ==
  dev[d].up => /\ dev[d].app = "whole"
               /\ applying[d] = {} /\ ~dev[d].due => dev[d].active = dev[d].saved

\* What was promised is saved, and nobody has saved since.
PromiseIsSaved(d) ==
  promise[d] # NoHost =>
    dev[d].app = "whole" /\ dev[d].saved.host = promise[d] /\ applying[d] = {}

SetupIInv ==
  /\ SetupTypeOK
  /\ \A t \in Tool : OnCourse(t) /\ \A d \in tool[t].all \ tool[t].spoiled : Knows(t, d)
  /\ \A d \in Board : RunsSaved(d) /\ PromiseIsSaved(d)
=============================================================================
