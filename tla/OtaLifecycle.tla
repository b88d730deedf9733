---------------------------- MODULE OtaLifecycle ----------------------------
(***************************************************************************)
(* The update lifecycle of one receiver: OtaManager's check and apply,     *)
(* BootGuard's verification of a freshly installed image, the supervisor   *)
(* task and the HTTP handlers that drive them, and the bootloader's choice *)
(* of slot, under resets (crash, power loss, requested reboot) at any      *)
(* point.                                                                  *)
(*                                                                         *)
(* Kept: every guard, return path and persisted write, and every point at  *)
(* which another task or a reset can intervene.  Abstracted: an image is   *)
(* its version number, and every content that does not hash to the         *)
(* manifest's digest is Partial; the manifest is the version it offers     *)
(* (ManifestPolicy treats its fields).                                     *)
(***************************************************************************)
EXTENDS Naturals

CONSTANTS MaxVersion,    \* versions are 1..MaxVersion; 1 is flashed over USB
          Threshold,     \* RF_SENSE_BOOTLOOP_THRESHOLD
          VerifyPeriod,  \* health samples of a trial (kVerifyPeriodS)
          MaxAttempts,   \* bound on the apply attempts of a behaviour
          ApplyTask,     \* the tasks POST /ota/apply may have spawned
          Httpd,         \* the HTTP server task
          Supervisor     \* the supervisor task

ASSUME OtaAssumption ==
  /\ MaxVersion \in Nat \ {0}
  /\ Threshold \in Nat /\ Threshold > 1
  /\ VerifyPeriod \in Nat \ {0}
  /\ MaxAttempts \in Nat
  /\ Httpd # Supervisor
  /\ Httpd \notin ApplyTask /\ Supervisor \notin ApplyTask

Task == ApplyTask \cup {Httpd, Supervisor}
Slot == {0, 1}
Other(s) == 1 - s
Version == 1..MaxVersion
Partial == 0             \* erased, half written or not matching the digest

\* The state of a slot's otadata entry.
Entry == {"blank", "none", "new", "pending", "valid", "invalid", "aborted"}

VARIABLES
  image, entry, newest,           \* flash: slot contents, otadata, latest entry
  failedBoots,                    \* NVS: consecutiveFailedBoots, up to Threshold
  attempts, successes, failures,  \* NVS: the OTA counters
  power, running,                 \* "off", "starting", "portal" (serving the
                                  \* set-up page only) or "up"; the slot that runs
  pendingVerify, sup, tick, verdict,   \* BootGuard and the supervisor's progress
  wifi, capturing,                \* station connected; CSI capture active
  busy, state, offered, pc, noted,     \* OtaManager and the tasks inside it
  cut, trialBoots                 \* history: applies cut short, boots of this image

flashVars == <<image, entry, newest>>
counterVars == <<attempts, successes, failures>>
verifyVars == <<pendingVerify, sup, tick, verdict>>
otaVars == <<busy, state, offered, pc, noted>>
vars == <<flashVars, failedBoots, counterVars, power, running, verifyVars,
          wifi, capturing, otaVars, cut, trialBoots>>

PC == {"idle", "noting", "checking", "spawned", "maintenance", "begin",
       "writing", "received", "verified", "switched", "restart"}
OtaState == {"idle", "checking", "update_available", "applying",
             "ready_to_reboot", "failed"}

\* The tasks that hold the single-flight lock, and those past recordOtaAttempt
\* whose outcome is not recorded yet.
Inside == {t \in Task : pc[t] \notin {"idle", "noting", "spawned"}}
Outstanding == {t \in Task : pc[t] \in {"maintenance", "begin", "writing",
                                        "received", "verified", "switched"}}
InFlight == IF Outstanding = {} THEN 0 ELSE 1

FlagsOK == /\ pendingVerify \in BOOLEAN /\ wifi \in BOOLEAN
           /\ capturing \in BOOLEAN /\ busy \in BOOLEAN

StoreOK ==
  /\ image \in [Slot -> Version \cup {Partial}]
  /\ entry \in [Slot -> Entry]
  /\ newest \in Slot /\ running \in Slot
  /\ failedBoots \in 0..Threshold
  /\ attempts \in 0..MaxAttempts
  /\ successes \in Nat /\ failures \in Nat /\ cut \in Nat
  /\ power \in {"off", "starting", "portal", "up"}
  /\ sup \in {"verify", "clear", "capture", "loop"}
  /\ tick \in 0..VerifyPeriod
  /\ verdict \in {"ok", "offline", "bootloop"}
  /\ state \in OtaState
  /\ offered \in Version \cup {Partial}
  /\ pc \in [Task -> PC]
  /\ noted \in [Task -> OtaState]
  /\ trialBoots \in 0..Threshold

TypeOK == FlagsOK /\ StoreOK

-----------------------------------------------------------------------------
(* The bootloader (ESP-IDF, with CONFIG_BOOTLOADER_APP_ROLLBACK_ENABLE).   *)

Bootable(e) == e \in {"blank", "new", "pending", "valid"}

\* The slot the next boot runs: an image still on trial forfeits.
BootSlot == IF entry[newest] \in {"blank", "new", "valid"}
            THEN newest ELSE Other(newest)

SatInc(n) == IF n < Threshold THEN n + 1 ELSE n

\* A bootable slot is chosen; a trial that reset before being confirmed is
\* aborted, and a new image is marked as being on trial.
Bootloader ==
  /\ power = "off"
  /\ power' = "starting"
  /\ running' = BootSlot
  /\ entry' = [s \in Slot |->
                 IF entry[s] = "pending" THEN "aborted"
                 ELSE IF s = BootSlot /\ entry[s] = "new" THEN "pending"
                 ELSE entry[s]]
  /\ UNCHANGED <<image, newest, failedBoots, counterVars, verifyVars, wifi,
                 capturing, otaVars, cut, trialBoots>>

\* BootGuard::begin, then app_main up to the creation of the supervisor task; a
\* receiver that is not provisioned gets its set-up page and no supervisor.
BootGuardBegin ==
  /\ power = "starting"
  /\ power' \in {"up", "portal"}
  /\ failedBoots' = SatInc(failedBoots)
  /\ pendingVerify' = (entry[running] = "pending")
  /\ trialBoots' = SatInc(trialBoots)
  /\ UNCHANGED <<flashVars, counterVars, running, sup, tick, verdict, wifi,
                 capturing, otaVars, cut>>

\* Everything in RAM is back to its initial value.
PowerOff ==
  /\ power' = "off"
  /\ pendingVerify' = FALSE /\ sup' = "verify" /\ tick' = 0 /\ verdict' = "ok"
  /\ wifi' = FALSE /\ capturing' = FALSE
  /\ busy' = FALSE /\ state' = "idle" /\ offered' = Partial
  /\ pc' = [t \in Task |-> "idle"] /\ noted' = [t \in Task |-> "idle"]
  /\ cut' = cut + InFlight

\* Crash, brown-out, POST /reboot or a provisioning reset.
Reset ==
  /\ power # "off"
  /\ PowerOff
  /\ UNCHANGED <<flashVars, failedBoots, counterVars, running, trialBoots>>

WifiChange ==
  /\ power = "up"
  /\ wifi' = ~wifi
  /\ UNCHANGED <<flashVars, failedBoots, counterVars, power, running,
                 verifyVars, capturing, otaVars, cut, trialBoots>>

-----------------------------------------------------------------------------
(* The supervisor: confirmPostOtaHealth, then capture, then its loop.      *)

InBootLoop == failedBoots >= Threshold

SkipVerify ==
  /\ power = "up" /\ sup = "verify" /\ ~pendingVerify
  /\ sup' = "capture"
  /\ UNCHANGED <<flashVars, failedBoots, counterVars, power, running, wifi,
                 pendingVerify, tick, verdict, capturing, otaVars, cut, trialBoots>>

\* Mutant: a sample waits for Wi-Fi instead of noting its absence.
VerifyTickWaits ==
  /\ power = "up" /\ sup = "verify" /\ pendingVerify /\ wifi
  /\ tick < VerifyPeriod
  /\ tick' = tick + 1
  /\ UNCHANGED <<flashVars, failedBoots, counterVars, power, running, wifi,
                 pendingVerify, sup, verdict, capturing, otaVars, cut, trialBoots>>

\* One second of the verification window.
VerifyTick ==
  /\ power = "up" /\ sup = "verify" /\ pendingVerify
  /\ tick < VerifyPeriod
  /\ IF InBootLoop
       THEN tick' = VerifyPeriod /\ verdict' = "bootloop"
       ELSE tick' = tick + 1 /\ verdict' = IF wifi THEN verdict ELSE "offline"
  /\ UNCHANGED <<flashVars, failedBoots, counterVars, power, running, wifi,
                 pendingVerify, sup, capturing, otaVars, cut, trialBoots>>

Healthy == verdict = "ok" /\ wifi

VerifyDone == power = "up" /\ sup = "verify" /\ pendingVerify /\ tick = VerifyPeriod

\* confirmHealthy: the image is marked valid ...
Confirm ==
  /\ VerifyDone /\ Healthy
  /\ entry' = [entry EXCEPT ![running] = "valid"]
  /\ pendingVerify' = FALSE
  /\ sup' = "clear"
  /\ UNCHANGED <<image, newest, failedBoots, counterVars, power, running, tick,
                 verdict, wifi, capturing, otaVars, cut, trialBoots>>

\* ... and then the boot-loop counter is cleared.
ClearBoots ==
  /\ power = "up" /\ sup = "clear"
  /\ failedBoots' = 0
  /\ sup' = "capture"
  /\ UNCHANGED <<flashVars, counterVars, power, running, pendingVerify, tick,
                 verdict, wifi, capturing, otaVars, cut, trialBoots>>

\* rollbackNow: the image is marked invalid and the device restarts.
RollbackNow ==
  /\ VerifyDone /\ ~Healthy
  /\ Bootable(entry[Other(running)])
  /\ entry' = [entry EXCEPT ![running] = "invalid"]
  /\ PowerOff
  /\ UNCHANGED <<image, newest, failedBoots, counterVars, running, trialBoots>>

\* Either esp_ota_mark_app call can return an error; nothing is cleared then,
\* and the supervisor goes on as if the trial were over.
MarkFails ==
  /\ VerifyDone
  /\ sup' = "capture"
  /\ UNCHANGED <<flashVars, failedBoots, counterVars, power, running, wifi,
                 pendingVerify, tick, verdict, capturing, otaVars, cut, trialBoots>>

\* captureStart from the supervisor; it returns early when already active and
\* may fail.
SupervisorCapture ==
  /\ power = "up" /\ sup = "capture"
  /\ capturing' \in {capturing, TRUE}
  /\ sup' = "loop"
  /\ UNCHANGED <<flashVars, failedBoots, counterVars, power, running, wifi,
                 pendingVerify, tick, verdict, otaVars, cut, trialBoots>>

\* POST /capture/start and /capture/stop, served whenever the device is up.
HttpCapture ==
  /\ power = "up" /\ pc[Httpd] = "idle"
  /\ capturing' = ~capturing
  /\ UNCHANGED <<flashVars, failedBoots, counterVars, power, running,
                 verifyVars, wifi, otaVars, cut, trialBoots>>
-----------------------------------------------------------------------------
(* OtaManager.  Every operation first wins the single-flight flag.         *)

\* What an OtaManager step leaves alone.
OtaFrame == UNCHANGED <<failedBoots, running, verifyVars, wifi, trialBoots>>

Goto(t, l) == pc' = [pc EXCEPT ![t] = l]

\* A task that finds the manager busy evaluates state_ ...
Refused(t) ==
  /\ busy
  /\ Goto(t, "noting")
  /\ noted' = [noted EXCEPT ![t] = state]
  /\ UNCHANGED <<busy, state, offered>>

\* ... and setMessage stores that value back.
NoteBusy(t) ==
  /\ power = "up" /\ pc[t] = "noting"
  /\ state' = noted[t]
  /\ Goto(t, "idle")
  /\ noted' = [noted EXCEPT ![t] = "idle"]
  /\ OtaFrame
  /\ UNCHANGED <<flashVars, counterVars, power, capturing, busy, offered, cut>>

\* check(): from POST /ota/check, or from the supervisor when it is scheduled;
\* the supervisor's isBusy() test comes earlier, so it can still be refused.
StartCheck(t) ==
  /\ power = "up" /\ pc[t] = "idle"
  /\ t = Httpd \/ (t = Supervisor /\ sup = "loop")
  /\ \/ Refused(t)
     \/ /\ ~busy
        /\ busy' = TRUE /\ state' = "checking" /\ offered' = Partial
        /\ Goto(t, "checking")
        /\ UNCHANGED noted
  /\ OtaFrame
  /\ UNCHANGED <<flashVars, counterVars, power, capturing, cut>>

\* Mutant: a failed check keeps the single-flight flag.
CheckFailsBusy(t) ==
  /\ power = "up" /\ pc[t] = "checking"
  /\ state' \in {"failed", "idle"}
  /\ Goto(t, "idle")
  /\ OtaFrame
  /\ UNCHANGED <<flashVars, counterVars, power, capturing, busy, offered, noted, cut>>

\* The manifest is not downloaded, not parsed or rejected (NotNewer is no error).
CheckFails(t) ==
  /\ power = "up" /\ pc[t] = "checking"
  /\ state' \in {"failed", "idle"}
  /\ busy' = FALSE
  /\ Goto(t, "idle")
  /\ OtaFrame
  /\ UNCHANGED <<flashVars, counterVars, power, capturing, offered, noted, cut>>

\* Mutant: a manifest offering the running version passes for newer.
CheckNotOlder(t) ==
  /\ power = "up" /\ pc[t] = "checking"
  /\ \E v \in Version : v >= image[running] /\ offered' = v
  /\ state' = "update_available"
  /\ busy' = FALSE
  /\ Goto(t, "idle")
  /\ OtaFrame
  /\ UNCHANGED <<flashVars, counterVars, power, capturing, noted, cut>>

\* A manifest newer than the running version is kept.  The supervisor applies
\* it at once when auto-apply is configured and the device is not capturing.
CheckSucceeds(t) ==
  /\ power = "up" /\ pc[t] = "checking"
  /\ \E v \in Version : v > image[running] /\ offered' = v
  /\ state' = "update_available"
  /\ busy' = FALSE
  /\ \/ Goto(t, "idle")
     \/ t = Supervisor /\ ~capturing /\ Goto(t, "spawned")
  /\ OtaFrame
  /\ UNCHANGED <<flashVars, counterVars, power, capturing, noted, cut>>

\* POST /ota/apply: 202 and a new task, if an update is known and nothing runs.
ApplyPost(t) ==
  /\ power = "up" /\ pc[Httpd] = "idle" /\ pc[t] = "idle"
  /\ offered # Partial /\ ~busy
  /\ Goto(t, "spawned")
  /\ OtaFrame
  /\ UNCHANGED <<flashVars, counterVars, power, capturing, busy, state, offered,
                 noted, cut>>

\* Mutant: the flag is set without being tested.
StartApplyUnlocked(t) ==
  /\ power = "up" /\ pc[t] = "spawned"
  /\ offered # Partial /\ attempts < MaxAttempts
  /\ busy' = TRUE /\ state' = "applying"
  /\ attempts' = attempts + 1
  /\ Goto(t, "maintenance")
  /\ UNCHANGED <<successes, failures, offered, noted>>
  /\ OtaFrame
  /\ UNCHANGED <<flashVars, power, capturing, cut>>

\* apply(): the lock, the validated manifest, the heap, then the attempt counter.
StartApply(t) ==
  /\ power = "up" /\ pc[t] = "spawned"
  /\ \/ Refused(t) /\ UNCHANGED counterVars
     \/ /\ ~busy                        \* no manifest, or too little heap
        /\ state' = "failed"
        /\ Goto(t, "idle")
        /\ UNCHANGED <<counterVars, busy, offered, noted>>
     \/ /\ ~busy /\ offered # Partial /\ attempts < MaxAttempts
        /\ busy' = TRUE /\ state' = "applying"
        /\ attempts' = attempts + 1
        /\ Goto(t, "maintenance")
        /\ UNCHANGED <<successes, failures, offered, noted>>
  /\ OtaFrame
  /\ UNCHANGED <<flashVars, power, capturing, cut>>

\* The maintenance hook stops capture and the streamer.
Maintenance(t) ==
  /\ power = "up" /\ pc[t] = "maintenance"
  /\ capturing' = FALSE
  /\ Goto(t, "begin")
  /\ OtaFrame
  /\ UNCHANGED <<flashVars, counterVars, power, busy, state, offered, noted, cut>>

\* Every failing return records the failure and releases the lock.
ApplyFails(t) ==
  /\ failures' = failures + 1
  /\ state' = "failed"
  /\ busy' = FALSE
  /\ Goto(t, "idle")
  /\ UNCHANGED <<attempts, successes, offered, noted>>

\* Mutant: an update may begin while the running image is on trial.
BeginOnTrial(t) ==
  /\ power = "up" /\ pc[t] = "begin"
  /\ \/ ApplyFails(t) /\ UNCHANGED image
     \/ /\ image' = [image EXCEPT ![Other(running)] = Partial]
        /\ Goto(t, "writing")
        /\ UNCHANGED <<counterVars, busy, state, offered, noted>>
  /\ OtaFrame
  /\ UNCHANGED <<entry, newest, power, capturing, cut>>

\* esp_https_ota_begin erases the inactive slot; it refuses while the running
\* image is on trial, and may fail for the network or TLS.
Begin(t) ==
  /\ power = "up" /\ pc[t] = "begin"
  /\ \/ ApplyFails(t) /\ UNCHANGED image
     \/ /\ entry[running] # "pending"
        /\ image' = [image EXCEPT ![Other(running)] = Partial]
        /\ Goto(t, "writing")
        /\ UNCHANGED <<counterVars, busy, state, offered, noted>>
  /\ OtaFrame
  /\ UNCHANGED <<entry, newest, power, capturing, cut>>

\* esp_https_ota_perform to the end: an error, or all bytes, right or wrong.
Perform(t) ==
  /\ power = "up" /\ pc[t] = "writing"
  /\ \/ ApplyFails(t) /\ UNCHANGED image
     \/ /\ \E c \in {offered, Partial} :
             image' = [image EXCEPT ![Other(running)] = c]
        /\ Goto(t, "received")
        /\ UNCHANGED <<counterVars, busy, state, offered, noted>>
  /\ OtaFrame
  /\ UNCHANGED <<entry, newest, power, capturing, cut>>

\* Mutant: the digest is computed but not compared.
VerifySkipped(t) ==
  /\ power = "up" /\ pc[t] = "received"
  /\ Goto(t, "verified")
  /\ UNCHANGED <<counterVars, busy, state, offered, noted>>
  /\ OtaFrame
  /\ UNCHANGED <<flashVars, power, capturing, cut>>

\* The digest of the streamed bytes against the manifest's.
Verify(t) ==
  /\ power = "up" /\ pc[t] = "received"
  /\ IF image[Other(running)] # offered
       THEN ApplyFails(t)
       ELSE /\ Goto(t, "verified")
            /\ UNCHANGED <<counterVars, busy, state, offered, noted>>
  /\ OtaFrame
  /\ UNCHANGED <<flashVars, power, capturing, cut>>

\* esp_https_ota_finish switches the boot slot, or fails and does not.
Finish(t) ==
  /\ power = "up" /\ pc[t] = "verified"
  /\ \/ ApplyFails(t) /\ UNCHANGED <<entry, newest, trialBoots>>
     \/ /\ entry' = [entry EXCEPT ![Other(running)] = "new"]
        /\ newest' = Other(running)
        /\ trialBoots' = 0
        /\ Goto(t, "switched")
        /\ UNCHANGED <<counterVars, busy, state, offered, noted>>
  /\ UNCHANGED <<image, failedBoots, running, verifyVars, wifi, power,
                 capturing, cut>>

RecordSuccess(t) ==
  /\ power = "up" /\ pc[t] = "switched"
  /\ successes' = successes + 1
  /\ state' = "ready_to_reboot"
  /\ Goto(t, "restart")
  /\ OtaFrame
  /\ UNCHANGED <<flashVars, attempts, failures, power, capturing, busy, offered,
                 noted, cut>>

Restart(t) ==
  /\ power = "up" /\ pc[t] = "restart"
  /\ PowerOff
  /\ UNCHANGED <<flashVars, failedBoots, counterVars, running, trialBoots>>

ApplyStep(t) == \/ StartApply(t) \/ Maintenance(t) \/ Begin(t) \/ Perform(t)
                \/ Verify(t) \/ Finish(t) \/ RecordSuccess(t) \/ Restart(t)

CheckStep(t) == CheckFails(t) \/ CheckSucceeds(t)

-----------------------------------------------------------------------------
\* A device just flashed over USB: version 1 in slot 0, otadata erased.
Init ==
  /\ image = [s \in Slot |-> IF s = 0 THEN 1 ELSE Partial]
  /\ entry = [s \in Slot |-> IF s = 0 THEN "blank" ELSE "none"]
  /\ newest = 0 /\ running = 0
  /\ failedBoots = 0 /\ trialBoots = 0 /\ cut = 0
  /\ attempts = 0 /\ successes = 0 /\ failures = 0
  /\ power = "off"
  /\ pendingVerify = FALSE /\ sup = "verify" /\ tick = 0 /\ verdict = "ok"
  /\ wifi = FALSE /\ capturing = FALSE
  /\ busy = FALSE /\ state = "idle" /\ offered = Partial
  /\ pc = [t \in Task |-> "idle"] /\ noted = [t \in Task |-> "idle"]

SupervisorStep == SkipVerify \/ VerifyTick \/ Confirm \/ ClearBoots
                  \/ RollbackNow \/ MarkFails \/ SupervisorCapture

Next ==
  \/ Bootloader \/ BootGuardBegin \/ Reset \/ WifiChange
  \/ SupervisorStep \/ HttpCapture
  \/ \E t \in Task : NoteBusy(t) \/ StartCheck(t) \/ CheckStep(t) \/ ApplyStep(t)
  \/ \E t \in ApplyTask : ApplyPost(t)

Spec == Init /\ [][Next]_vars

\* FreeRTOS runs every ready task; the HTTP client has timeouts; the device is
\* switched back on.  Nothing obliges a client, the Wi-Fi or a reset.
Fairness ==
  /\ WF_vars(Bootloader) /\ WF_vars(BootGuardBegin) /\ WF_vars(SupervisorStep)
  /\ \A t \in Task : WF_vars(NoteBusy(t)) /\ WF_vars(CheckStep(t))
                     /\ WF_vars(ApplyStep(t))

FairSpec == Spec /\ Fairness

-----------------------------------------------------------------------------
(* Properties.                                                             *)

\* OtaManager + bootloader: cut the power at any instant, and the slot the
\* bootloader would then choose holds a complete image whose digest matched.
AlwaysBootable == image[BootSlot] \in Version

\* BootGuard: while an image is on trial, the other slot keeps a complete image
\* that was proven before and that the bootloader accepts.
FallbackKept ==
  \A s \in Slot : entry[s] \in {"new", "pending"} =>
    /\ image[Other(s)] \in Version
    /\ entry[Other(s)] \in {"blank", "valid"}

\* recordOta*: every attempt the device counted is a success, a failure, one cut
\* short by a reset, or the one in flight; no return path of apply() forgets.
AttemptsAccounted ==
  attempts = successes + failures + cut + InFlight

\* apply() and check() exclude one another whoever calls them, and the flag is
\* up exactly while one of them is inside.
SingleFlight ==
  /\ \A t, u \in Inside : t = u
  /\ busy <=> Inside # {}

\* The slot being erased and written is never one the device depends on: not the
\* running one, not the one it would boot, and not a fallback of a trial.
WritesOnlySpare ==
  (\E t \in Task : pc[t] \in {"writing", "received"}) =>
     /\ BootSlot = running
     /\ entry[running] \in {"blank", "valid"}

\* The promise of ota-recovery.md as a refinement: one proven version, a newer
\* candidate beside it, which is committed or discarded.
OnTrial == entry[newest] \in {"new", "pending"}
Guarantee == INSTANCE RollbackGuarantee WITH
  NoVersion <- Partial,
  proven <- IF OnTrial THEN image[Other(newest)] ELSE image[BootSlot],
  candidate <- IF OnTrial THEN image[newest] ELSE Partial
ImplementsGuarantee == Guarantee!Spec

\* BootGuard: unless the device keeps resetting, the trial of a provisioned
\* receiver comes to a decision: the supervisor leaves verification.
OnSupervisedTrial == power = "up" /\ pendingVerify /\ sup = "verify"
TrialDecided ==
  <>[][~Reset]_vars => OnSupervisedTrial ~> (sup # "verify" \/ power = "off")

\* OtaManager: unless the device keeps resetting, the single-flight lock is
\* always released (or the device restarts), so a later check can run.
LockReleased == <>[][~Reset]_vars => (busy ~> ~busy)

\* OtaManager.h: check() is "safe to call repeatedly; single-flight", so a
\* refused call leaves no trace: with nothing in flight the reported state is
\* not one of the two that say something is.
IdleStateReported == ~busy => state \notin {"checking", "applying"}

\* ota-recovery.md: the boot-loop counter "catches an image that resets
\* repeatedly"; an image is called a boot loop after Threshold boots of its own.
BootLoopIsOwn == verdict = "bootloop" => trialBoots >= Threshold

\* ota-deployment.md: "an OTA is refused while an experiment/capture is active".
RefusedWhileCapturing ==
  [][attempts' > attempts => ~capturing]_vars

\* ota-deployment.md step 8: capture resumes only after the image is healthy.
CaptureOnlyWhenProven == capturing => ~pendingVerify

-----------------------------------------------------------------------------
(* The inductive invariant behind the safety properties.                   *)

Steady(s) == entry[s] \in {"blank", "valid"} /\ image[s] \in Version

\* The latest entry is proven, on trial over a proven older one, or given up
\* for a proven one; the earlier entry is never on trial.
FlashInv ==
  /\ \/ Steady(newest)
     \/ /\ OnTrial /\ image[newest] \in Version
        /\ Steady(Other(newest)) /\ image[newest] > image[Other(newest)]
     \/ entry[newest] \in {"invalid", "aborted"} /\ Steady(Other(newest))
  /\ entry[Other(newest)] \notin {"new", "pending"}

\* What runs is what the bootloader chose, until an apply switches slots.
RunningInv ==
  power # "off" =>
    \/ running = newest /\ entry[newest] \in {"blank", "valid", "pending"}
    \/ running = Other(newest) /\ entry[newest] \in {"invalid", "aborted"}
    \/ /\ running = Other(newest) /\ entry[newest] = "new"
       /\ \E t \in Task : pc[t] \in {"switched", "restart"}

\* RAM is empty unless the application is up; what is offered is newer than
\* what runs, and an apply never outlives its offer.
RamInv ==
  /\ power # "up" => /\ \A t \in Task : pc[t] = "idle"
                     /\ ~busy /\ offered = Partial
  /\ power \in {"off", "starting"} => ~pendingVerify
  /\ pendingVerify => entry[running] = "pending"
  /\ offered # Partial => offered > image[running]

ApplyInv ==
  \A t \in Task :
    /\ pc[t] \in {"maintenance", "begin", "writing", "received", "verified"}
         => offered \in Version
    /\ pc[t] \in {"writing", "received", "verified"}
         => entry[running] \in {"blank", "valid"}
    /\ pc[t] = "verified" => image[Other(running)] = offered

\* FlashInv ... ApplyInv strengthen the safety properties above to a formula
\* that every step of the code preserves.
IInv == TypeOK /\ SingleFlight /\ AttemptsAccounted /\ FlashInv /\ RunningInv
        /\ RamInv /\ ApplyInv
=============================================================================
