------------------------- MODULE OtaLifecycleProofs -------------------------
(***************************************************************************)
(* Proofs about OtaLifecycle: its type invariant, the inductive invariant  *)
(* IInv, the safety properties that follow from it, and the refinement of  *)
(* RollbackGuarantee, for any number of versions, tasks and attempts.      *)
(* Flags are proved apart from the rest (Zenon reasons about Booleans, SMT *)
(* about arithmetic), and every preservation proof has one step per action.*)
(***************************************************************************)
EXTENDS OtaLifecycle, TLAPS

\* The flags of the device are Booleans after every step.
LEMMA FlagsStep == FlagsOK /\ [Next]_vars => FlagsOK'
<1> USE DEF FlagsOK, flashVars, counterVars, verifyVars, otaVars, OtaFrame, Goto
<1> SUFFICES ASSUME FlagsOK, [Next]_vars PROVE FlagsOK'
  OBVIOUS
<1> QED
  <2>1. ASSUME Bootloader PROVE FlagsOK'
    BY <2>1, Zenon DEF Bootloader, BootSlot
  <2>2. ASSUME BootGuardBegin PROVE FlagsOK'
    BY <2>2, Zenon DEF BootGuardBegin, SatInc
  <2>3. ASSUME Reset PROVE FlagsOK'
    BY <2>3, Zenon DEF Reset, PowerOff, InFlight
  <2>4. ASSUME WifiChange PROVE FlagsOK'
    BY <2>4, Zenon DEF WifiChange
  <2>5. ASSUME SkipVerify PROVE FlagsOK'
    BY <2>5, Zenon DEF SkipVerify
  <2>6. ASSUME VerifyTick PROVE FlagsOK'
    BY <2>6, Zenon DEF VerifyTick, InBootLoop
  <2>7. ASSUME Confirm PROVE FlagsOK'
    BY <2>7, Zenon DEF Confirm, VerifyDone
  <2>8. ASSUME RollbackNow PROVE FlagsOK'
    BY <2>8, Zenon DEF RollbackNow, VerifyDone, PowerOff, InFlight
  <2>9. ASSUME MarkFails PROVE FlagsOK'
    BY <2>9, Zenon DEF MarkFails, VerifyDone
  <2>9a. ASSUME ClearBoots PROVE FlagsOK'
    BY <2>9a, Zenon DEF ClearBoots
  <2>10. ASSUME SupervisorCapture PROVE FlagsOK'
    BY <2>10, Zenon DEF SupervisorCapture
  <2>11. ASSUME HttpCapture PROVE FlagsOK'
    BY <2>11, Zenon DEF HttpCapture
  <2>12. ASSUME NEW t \in Task, NoteBusy(t) PROVE FlagsOK'
    BY <2>12, Zenon DEF NoteBusy
  <2>13. ASSUME NEW t \in Task, StartCheck(t) PROVE FlagsOK'
    BY <2>13, Zenon DEF StartCheck, Refused
  <2>14. ASSUME NEW t \in Task, CheckFails(t) PROVE FlagsOK'
    BY <2>14, Zenon DEF CheckFails
  <2>15. ASSUME NEW t \in Task, CheckSucceeds(t) PROVE FlagsOK'
    BY <2>15, Zenon DEF CheckSucceeds
  <2>16. ASSUME NEW t \in ApplyTask, ApplyPost(t) PROVE FlagsOK'
    BY <2>16, Zenon DEF ApplyPost, Task
  <2>17. ASSUME NEW t \in Task, StartApply(t) PROVE FlagsOK'
    BY <2>17, Zenon DEF StartApply, Refused
  <2>18. ASSUME NEW t \in Task, Maintenance(t) PROVE FlagsOK'
    BY <2>18, Zenon DEF Maintenance
  <2>19. ASSUME NEW t \in Task, Begin(t) PROVE FlagsOK'
    BY <2>19, Zenon DEF Begin, ApplyFails
  <2>20. ASSUME NEW t \in Task, Perform(t) PROVE FlagsOK'
    BY <2>20, Zenon DEF Perform, ApplyFails
  <2>21. ASSUME NEW t \in Task, Verify(t) PROVE FlagsOK'
    BY <2>21, Zenon DEF Verify, ApplyFails
  <2>22. ASSUME NEW t \in Task, Finish(t) PROVE FlagsOK'
    BY <2>22, Zenon DEF Finish, ApplyFails
  <2>23. ASSUME NEW t \in Task, RecordSuccess(t) PROVE FlagsOK'
    BY <2>23, Zenon DEF RecordSuccess
  <2>24. ASSUME NEW t \in Task, Restart(t) PROVE FlagsOK'
    BY <2>24, Zenon DEF Restart, PowerOff, InFlight
  <2>25. CASE UNCHANGED vars
    BY <2>25, Zenon DEF vars
  <2>26. QED
    BY <2>1, <2>2, <2>3, <2>4, <2>5, <2>6, <2>7, <2>8, <2>9, <2>10, <2>11,
       <2>12, <2>13, <2>14, <2>15, <2>16, <2>17, <2>18, <2>19, <2>20,
       <2>21, <2>22, <2>23, <2>24, <2>25, <2>9a
       DEF Next, SupervisorStep, CheckStep, ApplyStep

\* Slots, otadata, counters and tasks keep their types.
LEMMA StoreStep == StoreOK /\ [Next]_vars => StoreOK'
<1> USE OtaAssumption DEF StoreOK, Slot, Other, Version, Partial, Entry, PC, OtaState,
        flashVars, counterVars, verifyVars, otaVars, OtaFrame, Goto
<1> SUFFICES ASSUME StoreOK, [Next]_vars PROVE StoreOK'
  OBVIOUS
<1> QED
  <2>1. ASSUME Bootloader PROVE StoreOK'
    BY <2>1 DEF Bootloader, BootSlot
  <2>2. ASSUME BootGuardBegin PROVE StoreOK'
    BY <2>2 DEF BootGuardBegin, SatInc
  <2>3. ASSUME Reset PROVE StoreOK'
    BY <2>3 DEF Reset, PowerOff, InFlight
  <2>4. ASSUME WifiChange PROVE StoreOK'
    BY <2>4 DEF WifiChange
  <2>5. ASSUME SkipVerify PROVE StoreOK'
    BY <2>5 DEF SkipVerify
  <2>6. ASSUME VerifyTick PROVE StoreOK'
    BY <2>6 DEF VerifyTick, InBootLoop
  <2>7. ASSUME Confirm PROVE StoreOK'
    BY <2>7 DEF Confirm, VerifyDone
  <2>8. ASSUME RollbackNow PROVE StoreOK'
    BY <2>8 DEF RollbackNow, VerifyDone, PowerOff, InFlight
  <2>9. ASSUME MarkFails PROVE StoreOK'
    BY <2>9 DEF MarkFails, VerifyDone
  <2>9a. ASSUME ClearBoots PROVE StoreOK'
    BY <2>9a DEF ClearBoots
  <2>10. ASSUME SupervisorCapture PROVE StoreOK'
    BY <2>10 DEF SupervisorCapture
  <2>11. ASSUME HttpCapture PROVE StoreOK'
    BY <2>11 DEF HttpCapture
  <2>12. ASSUME NEW t \in Task, NoteBusy(t) PROVE StoreOK'
    BY <2>12 DEF NoteBusy
  <2>13. ASSUME NEW t \in Task, StartCheck(t) PROVE StoreOK'
    BY <2>13 DEF StartCheck, Refused
  <2>14. ASSUME NEW t \in Task, CheckFails(t) PROVE StoreOK'
    BY <2>14 DEF CheckFails
  <2>15. ASSUME NEW t \in Task, CheckSucceeds(t) PROVE StoreOK'
    BY <2>15 DEF CheckSucceeds
  <2>16. ASSUME NEW t \in ApplyTask, ApplyPost(t) PROVE StoreOK'
    BY <2>16 DEF ApplyPost, Task
  <2>17. ASSUME NEW t \in Task, StartApply(t) PROVE StoreOK'
    BY <2>17 DEF StartApply, Refused
  <2>18. ASSUME NEW t \in Task, Maintenance(t) PROVE StoreOK'
    BY <2>18 DEF Maintenance
  <2>19. ASSUME NEW t \in Task, Begin(t) PROVE StoreOK'
    BY <2>19 DEF Begin, ApplyFails
  <2>20. ASSUME NEW t \in Task, Perform(t) PROVE StoreOK'
    BY <2>20 DEF Perform, ApplyFails
  <2>21. ASSUME NEW t \in Task, Verify(t) PROVE StoreOK'
    BY <2>21 DEF Verify, ApplyFails
  <2>22. ASSUME NEW t \in Task, Finish(t) PROVE StoreOK'
    BY <2>22 DEF Finish, ApplyFails
  <2>23. ASSUME NEW t \in Task, RecordSuccess(t) PROVE StoreOK'
    BY <2>23 DEF RecordSuccess
  <2>24. ASSUME NEW t \in Task, Restart(t) PROVE StoreOK'
    BY <2>24 DEF Restart, PowerOff, InFlight
  <2>25. CASE UNCHANGED vars
    BY <2>25 DEF vars
  <2>26. QED
    BY <2>1, <2>2, <2>3, <2>4, <2>5, <2>6, <2>7, <2>8, <2>9, <2>10, <2>11,
       <2>12, <2>13, <2>14, <2>15, <2>16, <2>17, <2>18, <2>19, <2>20,
       <2>21, <2>22, <2>23, <2>24, <2>25, <2>9a
       DEF Next, SupervisorStep, CheckStep, ApplyStep

\* Type correctness: the variables of the device stay in their declared sets.
THEOREM TypeCorrect == Spec => []TypeOK
<1>1. Init => FlagsOK
  BY Zenon DEF Init, FlagsOK
<1>2. Init => StoreOK
  BY OtaAssumption DEF Init, StoreOK, Slot, Version, Partial, Entry, PC, OtaState
<1>3. TypeOK /\ [Next]_vars => TypeOK'
  BY FlagsStep, StoreStep DEF TypeOK
<1>4. QED
  BY <1>1, <1>2, <1>3, PTL DEF Spec, TypeOK
-----------------------------------------------------------------------------
\* The lock: its holder is unique, and the flag says whether there is one.
LEMMA FlightStep ==
  IInv /\ [Next]_vars => SingleFlight'
<1> SUFFICES ASSUME IInv, [Next]_vars PROVE SingleFlight'
  OBVIOUS
<1> USE DEF IInv, TypeOK, StoreOK, SingleFlight, Inside, PC, flashVars, counterVars, verifyVars, otaVars, OtaFrame, Goto
<1> QED
  <2>1. ASSUME Bootloader PROVE SingleFlight'
    BY <2>1 DEF Bootloader, BootSlot
  <2>2. ASSUME BootGuardBegin PROVE SingleFlight'
    BY <2>2 DEF BootGuardBegin, SatInc
  <2>3. ASSUME Reset PROVE SingleFlight'
    BY <2>3 DEF Reset, PowerOff, InFlight
  <2>4. ASSUME WifiChange PROVE SingleFlight'
    BY <2>4 DEF WifiChange
  <2>5. ASSUME SkipVerify PROVE SingleFlight'
    BY <2>5 DEF SkipVerify
  <2>6. ASSUME VerifyTick PROVE SingleFlight'
    BY <2>6 DEF VerifyTick, InBootLoop
  <2>7. ASSUME Confirm PROVE SingleFlight'
    BY <2>7 DEF Confirm, VerifyDone
  <2>8. ASSUME RollbackNow PROVE SingleFlight'
    BY <2>8 DEF RollbackNow, VerifyDone, PowerOff, InFlight
  <2>9. ASSUME MarkFails PROVE SingleFlight'
    BY <2>9 DEF MarkFails, VerifyDone
  <2>9a. ASSUME ClearBoots PROVE SingleFlight'
    BY <2>9a DEF ClearBoots
  <2>10. ASSUME SupervisorCapture PROVE SingleFlight'
    BY <2>10 DEF SupervisorCapture
  <2>11. ASSUME HttpCapture PROVE SingleFlight'
    BY <2>11 DEF HttpCapture
  <2>12. ASSUME NEW t \in Task, NoteBusy(t) PROVE SingleFlight'
    BY <2>12 DEF NoteBusy
  <2>13. ASSUME NEW t \in Task, StartCheck(t) PROVE SingleFlight'
    BY <2>13 DEF StartCheck, Refused
  <2>14. ASSUME NEW t \in Task, CheckFails(t) PROVE SingleFlight'
    BY <2>14 DEF CheckFails
  <2>15. ASSUME NEW t \in Task, CheckSucceeds(t) PROVE SingleFlight'
    BY <2>15 DEF CheckSucceeds
  <2>16. ASSUME NEW t \in ApplyTask, ApplyPost(t) PROVE SingleFlight'
    BY <2>16 DEF ApplyPost, Task
  <2>17. ASSUME NEW t \in Task, StartApply(t) PROVE SingleFlight'
    BY <2>17 DEF StartApply, Refused
  <2>18. ASSUME NEW t \in Task, Maintenance(t) PROVE SingleFlight'
    BY <2>18 DEF Maintenance
  <2>19. ASSUME NEW t \in Task, Begin(t) PROVE SingleFlight'
    BY <2>19 DEF Begin, ApplyFails
  <2>20. ASSUME NEW t \in Task, Perform(t) PROVE SingleFlight'
    BY <2>20 DEF Perform, ApplyFails
  <2>21. ASSUME NEW t \in Task, Verify(t) PROVE SingleFlight'
    BY <2>21 DEF Verify, ApplyFails
  <2>22. ASSUME NEW t \in Task, Finish(t) PROVE SingleFlight'
    BY <2>22 DEF Finish, ApplyFails
  <2>23. ASSUME NEW t \in Task, RecordSuccess(t) PROVE SingleFlight'
    BY <2>23 DEF RecordSuccess
  <2>24. ASSUME NEW t \in Task, Restart(t) PROVE SingleFlight'
    BY <2>24 DEF Restart, PowerOff, InFlight
  <2>25. CASE UNCHANGED vars
    BY <2>25 DEF vars
  <2>26. QED
    BY <2>1, <2>2, <2>3, <2>4, <2>5, <2>6, <2>7, <2>8, <2>9, <2>10, <2>11,
       <2>12, <2>13, <2>14, <2>15, <2>16, <2>17, <2>18, <2>19, <2>20,
       <2>21, <2>22, <2>23, <2>24, <2>25, <2>9a
       DEF Next, SupervisorStep, CheckStep, ApplyStep

\* The attempt counters: every step that starts or ends an attempt counts it.
LEMMA AccountStep ==
  IInv /\ [Next]_vars => AttemptsAccounted'
<1> SUFFICES ASSUME IInv, [Next]_vars PROVE AttemptsAccounted'
  OBVIOUS
<1> USE DEF IInv, TypeOK, StoreOK, SingleFlight, AttemptsAccounted, Inside, InFlight, Outstanding, PC, flashVars, counterVars, verifyVars, otaVars, OtaFrame, Goto
<1> QED
  <2>1. ASSUME Bootloader PROVE AttemptsAccounted'
    BY <2>1 DEF Bootloader, BootSlot
  <2>2. ASSUME BootGuardBegin PROVE AttemptsAccounted'
    BY <2>2 DEF BootGuardBegin, SatInc
  <2>3. ASSUME Reset PROVE AttemptsAccounted'
    BY <2>3 DEF Reset, PowerOff, InFlight
  <2>4. ASSUME WifiChange PROVE AttemptsAccounted'
    BY <2>4 DEF WifiChange
  <2>5. ASSUME SkipVerify PROVE AttemptsAccounted'
    BY <2>5 DEF SkipVerify
  <2>6. ASSUME VerifyTick PROVE AttemptsAccounted'
    BY <2>6 DEF VerifyTick, InBootLoop
  <2>7. ASSUME Confirm PROVE AttemptsAccounted'
    BY <2>7 DEF Confirm, VerifyDone
  <2>8. ASSUME RollbackNow PROVE AttemptsAccounted'
    BY <2>8 DEF RollbackNow, VerifyDone, PowerOff, InFlight
  <2>9. ASSUME MarkFails PROVE AttemptsAccounted'
    BY <2>9 DEF MarkFails, VerifyDone
  <2>9a. ASSUME ClearBoots PROVE AttemptsAccounted'
    BY <2>9a DEF ClearBoots
  <2>10. ASSUME SupervisorCapture PROVE AttemptsAccounted'
    BY <2>10 DEF SupervisorCapture
  <2>11. ASSUME HttpCapture PROVE AttemptsAccounted'
    BY <2>11 DEF HttpCapture
  <2>12. ASSUME NEW t \in Task, NoteBusy(t) PROVE AttemptsAccounted'
    BY <2>12 DEF NoteBusy
  <2>13. ASSUME NEW t \in Task, StartCheck(t) PROVE AttemptsAccounted'
    BY <2>13 DEF StartCheck, Refused
  <2>14. ASSUME NEW t \in Task, CheckFails(t) PROVE AttemptsAccounted'
    BY <2>14 DEF CheckFails
  <2>15. ASSUME NEW t \in Task, CheckSucceeds(t) PROVE AttemptsAccounted'
    BY <2>15 DEF CheckSucceeds
  <2>16. ASSUME NEW t \in ApplyTask, ApplyPost(t) PROVE AttemptsAccounted'
    BY <2>16 DEF ApplyPost, Task
  <2>17. ASSUME NEW t \in Task, StartApply(t) PROVE AttemptsAccounted'
    <3>1. CASE UNCHANGED counterVars
      <4>1. Outstanding' = Outstanding
        BY <2>17, <3>1 DEF StartApply, Refused
      <4>2. cut' = cut
        BY <2>17 DEF StartApply
      <4> QED
        BY <3>1, <4>1, <4>2
    <3>2. CASE ~busy /\ pc' = [pc EXCEPT ![t] = "maintenance"]
               /\ attempts' = attempts + 1 /\ UNCHANGED <<successes, failures>>
      <4>1. Outstanding = {} /\ t \in Outstanding'
        BY <3>2
      <4>2. cut' = cut
        BY <2>17 DEF StartApply
      <4> QED
        BY <3>2, <4>1, <4>2
    <3> QED
      BY <2>17, <3>1, <3>2 DEF StartApply
  <2>18. ASSUME NEW t \in Task, Maintenance(t) PROVE AttemptsAccounted'
    BY <2>18 DEF Maintenance
  <2>19. ASSUME NEW t \in Task, Begin(t) PROVE AttemptsAccounted'
    BY <2>19 DEF Begin, ApplyFails
  <2>20. ASSUME NEW t \in Task, Perform(t) PROVE AttemptsAccounted'
    BY <2>20 DEF Perform, ApplyFails
  <2>21. ASSUME NEW t \in Task, Verify(t) PROVE AttemptsAccounted'
    BY <2>21 DEF Verify, ApplyFails
  <2>22. ASSUME NEW t \in Task, Finish(t) PROVE AttemptsAccounted'
    <3>1. cut' = cut /\ pc[t] = "verified"
      BY <2>22 DEF Finish
    <3>2. CASE ApplyFails(t)
      <4>1. t \in Outstanding /\ Outstanding' = {}
        BY <3>1, <3>2 DEF ApplyFails
      <4>2. failures' = failures + 1 /\ UNCHANGED <<attempts, successes>>
        BY <3>2 DEF ApplyFails
      <4> QED
        BY <3>1, <4>1, <4>2
    <3>3. CASE Goto(t, "switched") /\ UNCHANGED counterVars
      <4>1. Outstanding' = Outstanding
        BY <3>1, <3>3
      <4> QED
        BY <3>1, <3>3, <4>1
    <3> QED
      BY <2>22, <3>2, <3>3 DEF Finish
  <2>23. ASSUME NEW t \in Task, RecordSuccess(t) PROVE AttemptsAccounted'
    BY <2>23 DEF RecordSuccess
  <2>24. ASSUME NEW t \in Task, Restart(t) PROVE AttemptsAccounted'
    BY <2>24 DEF Restart, PowerOff, InFlight
  <2>25. CASE UNCHANGED vars
    BY <2>25 DEF vars
  <2>26. QED
    BY <2>1, <2>2, <2>3, <2>4, <2>5, <2>6, <2>7, <2>8, <2>9, <2>10, <2>11,
       <2>12, <2>13, <2>14, <2>15, <2>16, <2>17, <2>18, <2>19, <2>20,
       <2>21, <2>22, <2>23, <2>24, <2>25, <2>9a
       DEF Next, SupervisorStep, CheckStep, ApplyStep

\* The slots: no step leaves the device without a proven image to boot.
LEMMA FlashStep ==
  IInv /\ [Next]_vars => FlashInv'
<1> SUFFICES ASSUME IInv, [Next]_vars PROVE FlashInv'
  OBVIOUS
<1> USE OtaAssumption DEF IInv, TypeOK, StoreOK, FlashInv, ApplyInv, RunningInv, RamInv, Steady, OnTrial, Version, Partial, Entry, flashVars, counterVars, verifyVars, otaVars, OtaFrame, Goto, Slot, Other
<1> QED
  <2>1. ASSUME Bootloader PROVE FlashInv'
    BY <2>1 DEF Bootloader, BootSlot
  <2>2. ASSUME BootGuardBegin PROVE FlashInv'
    BY <2>2 DEF BootGuardBegin, SatInc
  <2>3. ASSUME Reset PROVE FlashInv'
    BY <2>3 DEF Reset, PowerOff, InFlight
  <2>4. ASSUME WifiChange PROVE FlashInv'
    BY <2>4 DEF WifiChange
  <2>5. ASSUME SkipVerify PROVE FlashInv'
    BY <2>5 DEF SkipVerify
  <2>6. ASSUME VerifyTick PROVE FlashInv'
    BY <2>6 DEF VerifyTick, InBootLoop
  <2>7. ASSUME Confirm PROVE FlashInv'
    BY <2>7 DEF Confirm, VerifyDone
  <2>8. ASSUME RollbackNow PROVE FlashInv'
    BY <2>8 DEF RollbackNow, VerifyDone, PowerOff, InFlight
  <2>9. ASSUME MarkFails PROVE FlashInv'
    BY <2>9 DEF MarkFails, VerifyDone
  <2>9a. ASSUME ClearBoots PROVE FlashInv'
    BY <2>9a DEF ClearBoots
  <2>10. ASSUME SupervisorCapture PROVE FlashInv'
    BY <2>10 DEF SupervisorCapture
  <2>11. ASSUME HttpCapture PROVE FlashInv'
    BY <2>11 DEF HttpCapture
  <2>12. ASSUME NEW t \in Task, NoteBusy(t) PROVE FlashInv'
    BY <2>12 DEF NoteBusy
  <2>13. ASSUME NEW t \in Task, StartCheck(t) PROVE FlashInv'
    BY <2>13 DEF StartCheck, Refused
  <2>14. ASSUME NEW t \in Task, CheckFails(t) PROVE FlashInv'
    BY <2>14 DEF CheckFails
  <2>15. ASSUME NEW t \in Task, CheckSucceeds(t) PROVE FlashInv'
    BY <2>15 DEF CheckSucceeds
  <2>16. ASSUME NEW t \in ApplyTask, ApplyPost(t) PROVE FlashInv'
    BY <2>16 DEF ApplyPost, Task
  <2>17. ASSUME NEW t \in Task, StartApply(t) PROVE FlashInv'
    BY <2>17 DEF StartApply, Refused
  <2>18. ASSUME NEW t \in Task, Maintenance(t) PROVE FlashInv'
    BY <2>18 DEF Maintenance
  <2>19. ASSUME NEW t \in Task, Begin(t) PROVE FlashInv'
    <3>1. pc[t] = "begin" /\ UNCHANGED <<entry, newest>>
      BY <2>19 DEF Begin
    <3>2. CASE UNCHANGED image
      BY <3>1, <3>2
    <3>3. CASE entry[running] # "pending"
               /\ image' = [image EXCEPT ![Other(running)] = Partial]
      <4>1. power = "up" /\ ~(\E u \in Task : pc[u] \in {"switched", "restart"})
        BY <2>19, <3>1 DEF Begin, SingleFlight, Inside
      <4>2. \/ running = newest /\ entry[newest] \in {"blank", "valid"}
            \/ running = Other(newest) /\ entry[newest] \in {"invalid", "aborted"}
        BY <3>3, <4>1
      <4> QED
        BY <3>1, <3>3, <4>2
    <3> QED
      BY <2>19, <3>2, <3>3 DEF Begin
  <2>20. ASSUME NEW t \in Task, Perform(t) PROVE FlashInv'
    <3>1. pc[t] = "writing" /\ UNCHANGED <<entry, newest>>
      BY <2>20 DEF Perform
    <3>2. CASE UNCHANGED image
      BY <3>1, <3>2
    <3>3. ASSUME NEW c \in {offered, Partial},
                 image' = [image EXCEPT ![Other(running)] = c]
          PROVE  FlashInv'
      <4>1. power = "up" /\ ~(\E u \in Task : pc[u] \in {"switched", "restart"})
        BY <2>20, <3>1 DEF Perform, SingleFlight, Inside
      <4>2. \/ running = newest /\ entry[newest] \in {"blank", "valid"}
            \/ running = Other(newest) /\ entry[newest] \in {"invalid", "aborted"}
        BY <3>1, <4>1
      <4> QED
        BY <3>1, <3>3, <4>2
    <3> QED
      BY <2>20, <3>2, <3>3 DEF Perform
  <2>21. ASSUME NEW t \in Task, Verify(t) PROVE FlashInv'
    BY <2>21 DEF Verify, ApplyFails
  <2>22. ASSUME NEW t \in Task, Finish(t) PROVE FlashInv'
    BY <2>22 DEF Finish, ApplyFails
  <2>23. ASSUME NEW t \in Task, RecordSuccess(t) PROVE FlashInv'
    BY <2>23 DEF RecordSuccess
  <2>24. ASSUME NEW t \in Task, Restart(t) PROVE FlashInv'
    BY <2>24 DEF Restart, PowerOff, InFlight
  <2>25. CASE UNCHANGED vars
    BY <2>25 DEF vars
  <2>26. QED
    BY <2>1, <2>2, <2>3, <2>4, <2>5, <2>6, <2>7, <2>8, <2>9, <2>10, <2>11,
       <2>12, <2>13, <2>14, <2>15, <2>16, <2>17, <2>18, <2>19, <2>20,
       <2>21, <2>22, <2>23, <2>24, <2>25, <2>9a
       DEF Next, SupervisorStep, CheckStep, ApplyStep

\* The running slot: the bootloader's choice, until an apply switches slots.
LEMMA RunningStep ==
  IInv /\ [Next]_vars => RunningInv'
<1> SUFFICES ASSUME IInv, [Next]_vars PROVE RunningInv'
  OBVIOUS
<1> USE OtaAssumption DEF IInv, TypeOK, StoreOK, FlashInv, RunningInv, ApplyInv, SingleFlight, Inside, RamInv, Entry, PC, flashVars, counterVars, verifyVars, otaVars, OtaFrame, Goto, Slot, Other
<1> QED
  <2>1. ASSUME Bootloader PROVE RunningInv'
    <3>1. CASE entry[newest] \in {"blank", "valid"}
      BY <2>1, <3>1 DEF Bootloader, BootSlot, Steady
    <3>2. CASE entry[newest] = "new"
      BY <2>1, <3>2 DEF Bootloader, BootSlot, Steady
    <3>3. CASE entry[newest] = "pending"
      BY <2>1, <3>3 DEF Bootloader, BootSlot, Steady, OnTrial
    <3>4. CASE entry[newest] \in {"invalid", "aborted"}
      BY <2>1, <3>4 DEF Bootloader, BootSlot, Steady
    <3> QED
      BY <3>1, <3>2, <3>3, <3>4 DEF Steady, OnTrial
  <2>2. ASSUME BootGuardBegin PROVE RunningInv'
    BY <2>2 DEF BootGuardBegin, SatInc
  <2>3. ASSUME Reset PROVE RunningInv'
    BY <2>3 DEF Reset, PowerOff, InFlight
  <2>4. ASSUME WifiChange PROVE RunningInv'
    BY <2>4 DEF WifiChange
  <2>5. ASSUME SkipVerify PROVE RunningInv'
    BY <2>5 DEF SkipVerify
  <2>6. ASSUME VerifyTick PROVE RunningInv'
    BY <2>6 DEF VerifyTick, InBootLoop
  <2>7. ASSUME Confirm PROVE RunningInv'
    BY <2>7 DEF Confirm, VerifyDone
  <2>8. ASSUME RollbackNow PROVE RunningInv'
    BY <2>8 DEF RollbackNow, VerifyDone, PowerOff, InFlight
  <2>9. ASSUME MarkFails PROVE RunningInv'
    BY <2>9 DEF MarkFails, VerifyDone
  <2>9a. ASSUME ClearBoots PROVE RunningInv'
    BY <2>9a DEF ClearBoots
  <2>10. ASSUME SupervisorCapture PROVE RunningInv'
    BY <2>10 DEF SupervisorCapture
  <2>11. ASSUME HttpCapture PROVE RunningInv'
    BY <2>11 DEF HttpCapture
  <2>12. ASSUME NEW t \in Task, NoteBusy(t) PROVE RunningInv'
    BY <2>12 DEF NoteBusy
  <2>13. ASSUME NEW t \in Task, StartCheck(t) PROVE RunningInv'
    BY <2>13 DEF StartCheck, Refused
  <2>14. ASSUME NEW t \in Task, CheckFails(t) PROVE RunningInv'
    BY <2>14 DEF CheckFails
  <2>15. ASSUME NEW t \in Task, CheckSucceeds(t) PROVE RunningInv'
    BY <2>15 DEF CheckSucceeds
  <2>16. ASSUME NEW t \in ApplyTask, ApplyPost(t) PROVE RunningInv'
    BY <2>16 DEF ApplyPost, Task
  <2>17. ASSUME NEW t \in Task, StartApply(t) PROVE RunningInv'
    BY <2>17 DEF StartApply, Refused
  <2>18. ASSUME NEW t \in Task, Maintenance(t) PROVE RunningInv'
    BY <2>18 DEF Maintenance
  <2>19. ASSUME NEW t \in Task, Begin(t) PROVE RunningInv'
    BY <2>19 DEF Begin, ApplyFails
  <2>20. ASSUME NEW t \in Task, Perform(t) PROVE RunningInv'
    BY <2>20 DEF Perform, ApplyFails
  <2>21. ASSUME NEW t \in Task, Verify(t) PROVE RunningInv'
    BY <2>21 DEF Verify, ApplyFails
  <2>22. ASSUME NEW t \in Task, Finish(t) PROVE RunningInv'
    BY <2>22 DEF Finish, ApplyFails
  <2>23. ASSUME NEW t \in Task, RecordSuccess(t) PROVE RunningInv'
    BY <2>23 DEF RecordSuccess
  <2>24. ASSUME NEW t \in Task, Restart(t) PROVE RunningInv'
    BY <2>24 DEF Restart, PowerOff, InFlight
  <2>25. CASE UNCHANGED vars
    BY <2>25 DEF vars
  <2>26. QED
    BY <2>1, <2>2, <2>3, <2>4, <2>5, <2>6, <2>7, <2>8, <2>9, <2>10, <2>11,
       <2>12, <2>13, <2>14, <2>15, <2>16, <2>17, <2>18, <2>19, <2>20,
       <2>21, <2>22, <2>23, <2>24, <2>25, <2>9a
       DEF Next, SupervisorStep, CheckStep, ApplyStep

\* RAM: empty unless the application is up, and an offer is newer than what runs.
LEMMA RamStep ==
  IInv /\ [Next]_vars => RamInv'
<1> SUFFICES ASSUME IInv, [Next]_vars PROVE RamInv'
  OBVIOUS
<1> USE OtaAssumption DEF IInv, TypeOK, StoreOK, RamInv, RunningInv, SingleFlight, Inside, Version, Partial, PC, flashVars, counterVars, verifyVars, otaVars, OtaFrame, Goto, Slot, Other
<1> QED
  <2>1. ASSUME Bootloader PROVE RamInv'
    BY <2>1 DEF Bootloader, BootSlot
  <2>2. ASSUME BootGuardBegin PROVE RamInv'
    BY <2>2 DEF BootGuardBegin, SatInc
  <2>3. ASSUME Reset PROVE RamInv'
    BY <2>3 DEF Reset, PowerOff, InFlight
  <2>4. ASSUME WifiChange PROVE RamInv'
    BY <2>4 DEF WifiChange
  <2>5. ASSUME SkipVerify PROVE RamInv'
    BY <2>5 DEF SkipVerify
  <2>6. ASSUME VerifyTick PROVE RamInv'
    BY <2>6 DEF VerifyTick, InBootLoop
  <2>7. ASSUME Confirm PROVE RamInv'
    BY <2>7 DEF Confirm, VerifyDone
  <2>8. ASSUME RollbackNow PROVE RamInv'
    BY <2>8 DEF RollbackNow, VerifyDone, PowerOff, InFlight
  <2>9. ASSUME MarkFails PROVE RamInv'
    BY <2>9 DEF MarkFails, VerifyDone
  <2>9a. ASSUME ClearBoots PROVE RamInv'
    BY <2>9a DEF ClearBoots
  <2>10. ASSUME SupervisorCapture PROVE RamInv'
    BY <2>10 DEF SupervisorCapture
  <2>11. ASSUME HttpCapture PROVE RamInv'
    BY <2>11 DEF HttpCapture
  <2>12. ASSUME NEW t \in Task, NoteBusy(t) PROVE RamInv'
    BY <2>12 DEF NoteBusy
  <2>13. ASSUME NEW t \in Task, StartCheck(t) PROVE RamInv'
    BY <2>13 DEF StartCheck, Refused
  <2>14. ASSUME NEW t \in Task, CheckFails(t) PROVE RamInv'
    BY <2>14 DEF CheckFails
  <2>15. ASSUME NEW t \in Task, CheckSucceeds(t) PROVE RamInv'
    BY <2>15 DEF CheckSucceeds
  <2>16. ASSUME NEW t \in ApplyTask, ApplyPost(t) PROVE RamInv'
    BY <2>16 DEF ApplyPost, Task
  <2>17. ASSUME NEW t \in Task, StartApply(t) PROVE RamInv'
    BY <2>17 DEF StartApply, Refused
  <2>18. ASSUME NEW t \in Task, Maintenance(t) PROVE RamInv'
    BY <2>18 DEF Maintenance
  <2>19. ASSUME NEW t \in Task, Begin(t) PROVE RamInv'
    BY <2>19 DEF Begin, ApplyFails
  <2>20. ASSUME NEW t \in Task, Perform(t) PROVE RamInv'
    BY <2>20 DEF Perform, ApplyFails
  <2>21. ASSUME NEW t \in Task, Verify(t) PROVE RamInv'
    BY <2>21 DEF Verify, ApplyFails
  <2>22. ASSUME NEW t \in Task, Finish(t) PROVE RamInv'
    BY <2>22 DEF Finish, ApplyFails
  <2>23. ASSUME NEW t \in Task, RecordSuccess(t) PROVE RamInv'
    BY <2>23 DEF RecordSuccess
  <2>24. ASSUME NEW t \in Task, Restart(t) PROVE RamInv'
    BY <2>24 DEF Restart, PowerOff, InFlight
  <2>25. CASE UNCHANGED vars
    BY <2>25 DEF vars
  <2>26. QED
    BY <2>1, <2>2, <2>3, <2>4, <2>5, <2>6, <2>7, <2>8, <2>9, <2>10, <2>11,
       <2>12, <2>13, <2>14, <2>15, <2>16, <2>17, <2>18, <2>19, <2>20,
       <2>21, <2>22, <2>23, <2>24, <2>25, <2>9a
       DEF Next, SupervisorStep, CheckStep, ApplyStep

\* The tasks inside apply: what each has established by the time it gets there.
LEMMA ApplyInvStep ==
  IInv /\ [Next]_vars => ApplyInv'
<1> SUFFICES ASSUME IInv, [Next]_vars PROVE ApplyInv'
  OBVIOUS
<1> USE OtaAssumption DEF IInv, TypeOK, StoreOK, ApplyInv, RamInv, RunningInv, SingleFlight, Inside, Version, Partial, Entry, PC, flashVars, counterVars, verifyVars, otaVars, OtaFrame, Goto, Slot, Other
<1> QED
  <2>1. ASSUME Bootloader PROVE ApplyInv'
    BY <2>1 DEF Bootloader, BootSlot
  <2>2. ASSUME BootGuardBegin PROVE ApplyInv'
    BY <2>2 DEF BootGuardBegin, SatInc
  <2>3. ASSUME Reset PROVE ApplyInv'
    BY <2>3 DEF Reset, PowerOff, InFlight
  <2>4. ASSUME WifiChange PROVE ApplyInv'
    BY <2>4 DEF WifiChange
  <2>5. ASSUME SkipVerify PROVE ApplyInv'
    BY <2>5 DEF SkipVerify
  <2>6. ASSUME VerifyTick PROVE ApplyInv'
    BY <2>6 DEF VerifyTick, InBootLoop
  <2>7. ASSUME Confirm PROVE ApplyInv'
    BY <2>7 DEF Confirm, VerifyDone
  <2>8. ASSUME RollbackNow PROVE ApplyInv'
    BY <2>8 DEF RollbackNow, VerifyDone, PowerOff, InFlight
  <2>9. ASSUME MarkFails PROVE ApplyInv'
    BY <2>9 DEF MarkFails, VerifyDone
  <2>9a. ASSUME ClearBoots PROVE ApplyInv'
    BY <2>9a DEF ClearBoots
  <2>10. ASSUME SupervisorCapture PROVE ApplyInv'
    BY <2>10 DEF SupervisorCapture
  <2>11. ASSUME HttpCapture PROVE ApplyInv'
    BY <2>11 DEF HttpCapture
  <2>12. ASSUME NEW t \in Task, NoteBusy(t) PROVE ApplyInv'
    BY <2>12 DEF NoteBusy
  <2>13. ASSUME NEW t \in Task, StartCheck(t) PROVE ApplyInv'
    BY <2>13 DEF StartCheck, Refused
  <2>14. ASSUME NEW t \in Task, CheckFails(t) PROVE ApplyInv'
    BY <2>14 DEF CheckFails
  <2>15. ASSUME NEW t \in Task, CheckSucceeds(t) PROVE ApplyInv'
    BY <2>15 DEF CheckSucceeds
  <2>16. ASSUME NEW t \in ApplyTask, ApplyPost(t) PROVE ApplyInv'
    BY <2>16 DEF ApplyPost, Task
  <2>17. ASSUME NEW t \in Task, StartApply(t) PROVE ApplyInv'
    BY <2>17 DEF StartApply, Refused
  <2>18. ASSUME NEW t \in Task, Maintenance(t) PROVE ApplyInv'
    BY <2>18 DEF Maintenance
  <2>19. ASSUME NEW t \in Task, Begin(t) PROVE ApplyInv'
    <3>1. CASE ApplyFails(t) /\ UNCHANGED image
      BY <2>19, <3>1 DEF Begin, ApplyFails
    <3>2. CASE /\ entry[running] # "pending"
               /\ image' = [image EXCEPT ![Other(running)] = Partial]
               /\ pc' = [pc EXCEPT ![t] = "writing"]
               /\ offered' = offered
      <4>1. entry[running] \in {"blank", "valid"}
        BY <2>19, <3>2 DEF Begin, FlashInv, Steady
      <4> QED
        BY <2>19, <3>2, <4>1 DEF Begin
    <3> QED
      BY <2>19, <3>1, <3>2 DEF Begin
  <2>20. ASSUME NEW t \in Task, Perform(t) PROVE ApplyInv'
    BY <2>20 DEF Perform, ApplyFails
  <2>21. ASSUME NEW t \in Task, Verify(t) PROVE ApplyInv'
    BY <2>21 DEF Verify, ApplyFails
  <2>22. ASSUME NEW t \in Task, Finish(t) PROVE ApplyInv'
    BY <2>22 DEF Finish, ApplyFails
  <2>23. ASSUME NEW t \in Task, RecordSuccess(t) PROVE ApplyInv'
    BY <2>23 DEF RecordSuccess
  <2>24. ASSUME NEW t \in Task, Restart(t) PROVE ApplyInv'
    BY <2>24 DEF Restart, PowerOff, InFlight
  <2>25. CASE UNCHANGED vars
    BY <2>25 DEF vars
  <2>26. QED
    BY <2>1, <2>2, <2>3, <2>4, <2>5, <2>6, <2>7, <2>8, <2>9, <2>10, <2>11,
       <2>12, <2>13, <2>14, <2>15, <2>16, <2>17, <2>18, <2>19, <2>20,
       <2>21, <2>22, <2>23, <2>24, <2>25, <2>9a
       DEF Next, SupervisorStep, CheckStep, ApplyStep

\* IInv holds in every reachable state: no single step, whichever task takes it
\* and wherever a reset falls, leaves it.
THEOREM Inductive == Spec => []IInv
<1>1. Init => TypeOK
  <2>1. Init => FlagsOK
    BY Zenon DEF Init, FlagsOK
  <2>2. Init => StoreOK
    BY OtaAssumption DEF Init, StoreOK, Slot, Version, Partial, Entry, PC, OtaState
  <2> QED
    BY <2>1, <2>2 DEF TypeOK
<1>2. Init => SingleFlight /\ AttemptsAccounted
  BY DEF Init, SingleFlight, AttemptsAccounted, InFlight, Inside, Outstanding
<1>3. Init => FlashInv /\ RunningInv
  BY OtaAssumption DEF Init, FlashInv, RunningInv, Steady, Slot, Other, Version
<1>4. Init => RamInv /\ ApplyInv
  BY DEF Init, RamInv, ApplyInv, Partial
<1>5. Init => IInv
  BY <1>1, <1>2, <1>3, <1>4 DEF IInv
<1>6. IInv /\ [Next]_vars => IInv'
  <2> SUFFICES ASSUME IInv, [Next]_vars PROVE IInv'
    OBVIOUS
  <2>1. TypeOK'
    BY FlagsStep, StoreStep DEF IInv, TypeOK
  <2> QED
    BY <2>1, FlightStep, AccountStep, FlashStep, RunningStep, RamStep,
       ApplyInvStep DEF IInv
<1>7. QED
  BY <1>5, <1>6, PTL DEF Spec

\* Wherever the power is cut, the bootloader finds a complete, verified image.
THEOREM NeverBricked == Spec => []AlwaysBootable
<1>1. IInv => AlwaysBootable
  BY OtaAssumption DEF IInv, TypeOK, StoreOK, FlashInv, AlwaysBootable, BootSlot,
     Steady, OnTrial, Slot, Other, Entry
<1>2. QED
  BY <1>1, Inductive, PTL

\* A trial always has a proven image behind it.
THEOREM TrialHasFallback == Spec => []FallbackKept
<1>1. IInv => FallbackKept
  BY DEF IInv, TypeOK, StoreOK, FlashInv, FallbackKept, Steady, OnTrial, Slot,
     Other, Entry
<1>2. QED
  BY <1>1, Inductive, PTL

\* The slot under the writer is nobody's fallback.
THEOREM WriterIsHarmless == Spec => []WritesOnlySpare
<1>1. IInv => WritesOnlySpare
  <2> SUFFICES ASSUME IInv, NEW t \in Task, pc[t] \in {"writing", "received"}
               PROVE  BootSlot = running /\ entry[running] \in {"blank", "valid"}
    BY DEF WritesOnlySpare
  <2>1. power = "up"
    BY DEF IInv, RamInv
  <2>2. entry[running] \in {"blank", "valid"}
    BY DEF IInv, ApplyInv
  <2>3. ~ \E u \in Task : pc[u] \in {"switched", "restart"}
    BY DEF IInv, SingleFlight, Inside
  <2> QED
    BY <2>1, <2>2, <2>3 DEF IInv, TypeOK, StoreOK, RunningInv, BootSlot, Slot, Other
<1>2. QED
  BY <1>1, Inductive, PTL

\* Every attempt the device counted is accounted for, and one task at a time is
\* inside the OTA manager.
THEOREM AttemptsAndLock == Spec => [](AttemptsAccounted /\ SingleFlight)
<1>1. IInv => AttemptsAccounted /\ SingleFlight
  BY DEF IInv
<1>2. QED
  BY <1>1, Inductive, PTL

-----------------------------------------------------------------------------
(* The refinement: each step offers, commits or discards, or changes       *)
(* nothing that RollbackGuarantee can see.                                 *)

Proven == IF OnTrial THEN image[Other(newest)] ELSE image[BootSlot]
Candidate == IF OnTrial THEN image[newest] ELSE Partial

\* Steps that leave flash alone are invisible.
LEMMA FlashStutter ==
  UNCHANGED flashVars => UNCHANGED <<Proven, Candidate>>
  BY DEF flashVars, Proven, Candidate, OnTrial, BootSlot, Other

\* A task inside apply that has not switched slots works beside the slot the
\* bootloader would choose.
LEMMA WriterSlot ==
  ASSUME IInv, NEW t \in Task, entry[running] # "pending",
         pc[t] \in {"begin", "writing", "received", "verified"}
  PROVE  /\ ~OnTrial /\ BootSlot = running
         /\ \/ running = newest /\ entry[newest] \in {"blank", "valid"}
            \/ running = Other(newest) /\ entry[newest] \in {"invalid", "aborted"}
<1>1. power = "up"
  BY DEF IInv, RamInv
<1>2. ~ \E u \in Task : pc[u] \in {"switched", "restart"}
  BY DEF IInv, SingleFlight, Inside
<1>3. QED
  BY <1>1, <1>2 DEF IInv, TypeOK, StoreOK, RunningInv, OnTrial, BootSlot, Slot, Other

\* Erasing and writing the spare slot is invisible too.
LEMMA SpareStutter ==
  ASSUME IInv, NEW t \in Task, entry[running] # "pending",
         pc[t] \in {"begin", "writing", "received", "verified"},
         UNCHANGED <<entry, newest>>, NEW c,
         image' = [image EXCEPT ![Other(running)] = c]
  PROVE  UNCHANGED <<Proven, Candidate>>
<1>1. ~OnTrial /\ ~OnTrial' /\ BootSlot = running /\ BootSlot' = running
  BY WriterSlot DEF OnTrial, BootSlot, Other
<1>2. image'[running] = image[running]
  BY DEF Slot, Other, IInv, TypeOK, StoreOK
<1>3. QED
  BY <1>1, <1>2 DEF Proven, Candidate

\* The rollback promise: OtaLifecycle implements RollbackGuarantee, whatever the
\* numbers of versions, slots' histories, tasks and resets.
THEOREM RollbackPromise == Spec => ImplementsGuarantee
<1>1. Init => Guarantee!Init
  BY OtaAssumption DEF Init, Guarantee!Init, OnTrial, BootSlot, Slot, Other, Version
<1>2. IInv /\ [Next]_vars => [Guarantee!Next]_(Guarantee!vars)
  <2> SUFFICES ASSUME IInv, [Next]_vars
               PROVE  [Guarantee!Next]_(Guarantee!vars)
    OBVIOUS
  <2> DEFINE Offered == /\ Candidate = Partial /\ UNCHANGED Proven
                        /\ Candidate' \in Version /\ Candidate' > Proven
             Committed == /\ Candidate # Partial
                          /\ Proven' = Candidate /\ Candidate' = Partial
             Discarded == /\ Candidate # Partial
                          /\ UNCHANGED Proven /\ Candidate' = Partial
             Visible == \/ Offered \/ Committed \/ Discarded
                        \/ UNCHANGED <<Proven, Candidate>>
  <2>1. Visible
    <3> USE DEF IInv, TypeOK, StoreOK, Slot, Other, Version, Partial, Entry
    <3>1. ASSUME Bootloader PROVE Visible
      <4> DEFINE E == entry[newest]
      <4>1. CASE E \in {"blank", "valid", "invalid", "aborted"}
        <5>1. ~OnTrial /\ ~OnTrial' /\ BootSlot' = BootSlot /\ image' = image
          BY <3>1, <4>1 DEF Bootloader, OnTrial, BootSlot
        <5> QED
          BY <5>1 DEF Proven, Candidate
      <4>2. CASE E = "new"
        <5>1. OnTrial /\ OnTrial' /\ UNCHANGED <<image, newest>>
          BY <3>1, <4>2 DEF Bootloader, OnTrial, BootSlot
        <5> QED
          BY <5>1 DEF Proven, Candidate, Other
      <4>3. CASE E = "pending"
        <5>1. OnTrial /\ ~OnTrial' /\ UNCHANGED <<image, newest>>
              /\ BootSlot' = Other(newest)
          BY <3>1, <4>3 DEF Bootloader, OnTrial, BootSlot
        <5>2. Discarded
          BY <5>1 DEF Proven, Candidate, FlashInv, Steady, OnTrial
        <5> QED
          BY <5>2
      <4> QED
        BY <4>1, <4>2, <4>3 DEF FlashInv, Steady, OnTrial
    <3>2. ASSUME BootGuardBegin PROVE Visible
      BY <3>2, FlashStutter DEF BootGuardBegin
    <3>3. ASSUME Reset PROVE Visible
      BY <3>3, FlashStutter DEF Reset
    <3>4. ASSUME WifiChange PROVE Visible
      BY <3>4, FlashStutter DEF WifiChange
    <3>5. ASSUME SkipVerify PROVE Visible
      BY <3>5, FlashStutter DEF SkipVerify
    <3>6. ASSUME VerifyTick PROVE Visible
      BY <3>6, FlashStutter DEF VerifyTick
    <3>7. ASSUME Confirm PROVE Visible
      <4>1. running = newest /\ entry[newest] = "pending"
        BY <3>7 DEF Confirm, VerifyDone, RamInv, RunningInv, FlashInv, Steady
      <4>2. OnTrial /\ ~OnTrial' /\ BootSlot' = newest /\ UNCHANGED <<image, newest>>
        BY <3>7, <4>1 DEF Confirm, OnTrial, BootSlot
      <4>3. Committed
        BY <4>2 DEF Proven, Candidate, FlashInv, Steady, OnTrial
      <4> QED
        BY <4>3
    <3>8. ASSUME RollbackNow PROVE Visible
      <4>1. running = newest /\ entry[newest] = "pending"
        BY <3>8 DEF RollbackNow, VerifyDone, RamInv, RunningInv, FlashInv, Steady
      <4>2. OnTrial /\ ~OnTrial' /\ BootSlot' = Other(newest)
            /\ UNCHANGED <<image, newest>>
        BY <3>8, <4>1 DEF RollbackNow, OnTrial, BootSlot
      <4>3. Discarded
        BY <4>2 DEF Proven, Candidate, FlashInv, Steady, OnTrial
      <4> QED
        BY <4>3
    <3>9. ASSUME MarkFails PROVE Visible
      BY <3>9, FlashStutter DEF MarkFails
    <3>9a. ASSUME ClearBoots PROVE Visible
      BY <3>9a, FlashStutter DEF ClearBoots
    <3>10. ASSUME SupervisorCapture PROVE Visible
      BY <3>10, FlashStutter DEF SupervisorCapture
    <3>11. ASSUME HttpCapture PROVE Visible
      BY <3>11, FlashStutter DEF HttpCapture
    <3>12. ASSUME NEW t \in Task, NoteBusy(t) PROVE Visible
      BY <3>12, FlashStutter DEF NoteBusy
    <3>13. ASSUME NEW t \in Task, StartCheck(t) PROVE Visible
      BY <3>13, FlashStutter DEF StartCheck
    <3>14. ASSUME NEW t \in Task, CheckFails(t) PROVE Visible
      BY <3>14, FlashStutter DEF CheckFails
    <3>15. ASSUME NEW t \in Task, CheckSucceeds(t) PROVE Visible
      BY <3>15, FlashStutter DEF CheckSucceeds
    <3>16. ASSUME NEW t \in ApplyTask, ApplyPost(t) PROVE Visible
      BY <3>16, FlashStutter DEF ApplyPost
    <3>17. ASSUME NEW t \in Task, StartApply(t) PROVE Visible
      BY <3>17, FlashStutter DEF StartApply
    <3>18. ASSUME NEW t \in Task, Maintenance(t) PROVE Visible
      BY <3>18, FlashStutter DEF Maintenance
    <3>19. ASSUME NEW t \in Task, Begin(t) PROVE Visible
      <4>1. pc[t] = "begin" /\ UNCHANGED <<entry, newest>>
        BY <3>19 DEF Begin
      <4>2. CASE UNCHANGED image
        BY <4>1, <4>2, FlashStutter DEF flashVars
      <4>3. CASE entry[running] # "pending"
                 /\ image' = [image EXCEPT ![Other(running)] = Partial]
        BY <4>1, <4>3, SpareStutter
      <4> QED
        BY <3>19, <4>2, <4>3 DEF Begin
    <3>20. ASSUME NEW t \in Task, Perform(t) PROVE Visible
      <4>1. pc[t] = "writing" /\ UNCHANGED <<entry, newest>>
            /\ entry[running] # "pending"
        BY <3>20 DEF Perform, ApplyInv
      <4>2. CASE UNCHANGED image
        BY <4>1, <4>2, FlashStutter DEF flashVars
      <4>3. ASSUME NEW c \in {offered, Partial},
                   image' = [image EXCEPT ![Other(running)] = c]
            PROVE  Visible
        BY <4>1, <4>3, SpareStutter
      <4> QED
        BY <3>20, <4>2, <4>3 DEF Perform
    <3>21. ASSUME NEW t \in Task, Verify(t) PROVE Visible
      BY <3>21, FlashStutter DEF Verify
    <3>22. ASSUME NEW t \in Task, Finish(t) PROVE Visible
      <4>1. CASE UNCHANGED <<entry, newest>>
        BY <3>22, <4>1, FlashStutter DEF Finish, flashVars
      <4>2. CASE /\ entry' = [entry EXCEPT ![Other(running)] = "new"]
                 /\ newest' = Other(running)
        <5>1. pc[t] = "verified" /\ image' = image /\ running' = running
          BY <3>22 DEF Finish
        <5>2. entry[running] # "pending" /\ offered \in Version
              /\ image[Other(running)] = offered
          BY <5>1 DEF ApplyInv
        <5>3. ~OnTrial /\ BootSlot = running
          BY <5>1, <5>2, WriterSlot
        <5>4. OnTrial' /\ Other(newest') = running
          BY <4>2 DEF OnTrial, Other, Slot
        <5>5. Proven = image[running] /\ Proven' = image[running]
              /\ Candidate = Partial /\ Candidate' = offered
          BY <4>2, <5>1, <5>2, <5>3, <5>4 DEF Proven, Candidate
        <5>6. offered > image[running]
          BY <5>2 DEF RamInv, Version, Partial
        <5>7. Offered
          BY <5>2, <5>5, <5>6
        <5> QED
          BY <5>7
      <4> QED
        BY <3>22, <4>1, <4>2 DEF Finish
    <3>23. ASSUME NEW t \in Task, RecordSuccess(t) PROVE Visible
      BY <3>23, FlashStutter DEF RecordSuccess
    <3>24. ASSUME NEW t \in Task, Restart(t) PROVE Visible
      BY <3>24, FlashStutter DEF Restart
    <3>25. CASE UNCHANGED vars
      BY <3>25, FlashStutter DEF vars
    <3> QED
      BY <3>1, <3>2, <3>3, <3>4, <3>5, <3>6, <3>7, <3>8, <3>9, <3>10, <3>11,
         <3>12, <3>13, <3>14, <3>15, <3>16, <3>17, <3>18, <3>19,
         <3>20, <3>21, <3>22, <3>23, <3>24, <3>25, <3>9a
         DEF Next, SupervisorStep, CheckStep, ApplyStep
  <2>2. QED
    BY <2>1 DEF Guarantee!Next, Guarantee!Offer, Guarantee!Commit, Guarantee!Discard,
       Guarantee!vars, Proven, Candidate
<1>3. QED
  BY <1>1, <1>2, Inductive, PTL DEF Spec, ImplementsGuarantee, Guarantee!Spec
=============================================================================
