------------------------- MODULE ServoSessionProofs -------------------------
(***************************************************************************)
(* Proofs about ServoSession, for every number of joints: a servo that is  *)
(* switched on keeps its watchdog, the calls keep the promises of          *)
(* AbstractSession, and, for callers that join an escalated thread, no     *)
(* goal write switches a servo on.                                         *)
(***************************************************************************)
EXTENDS ServoSession, TLAPS

-----------------------------------------------------------------------------
(* The types.                                                              *)

(* An instruction's outcome, and what it says of the bus.                  *)
LEMMA OutcomeFacts ==
    ASSUME NEW o \in Outcomes
    PROVE  /\ o.applied \in BOOLEAN /\ o.ok \in BOOLEAN
           /\ o.ok => o.applied
           /\ Silent => ~o.applied
<1>1. /\ Acked.applied = TRUE /\ Acked.ok = TRUE
      /\ Unacked.applied = TRUE /\ Unacked.ok = FALSE
      /\ Lost.applied = FALSE /\ Lost.ok = FALSE
  BY DEF Acked, Unacked, Lost
<1>2. o \in {Acked, Unacked, Lost}
  BY Zenon DEF Outcomes
<1>3. ASSUME Silent PROVE o = Lost
  BY <1>3, Zenon DEF Outcomes
<1>4. o.applied \in BOOLEAN /\ o.ok \in BOOLEAN /\ (o.ok => o.applied)
  BY <1>1, <1>2
<1>5. ASSUME Silent PROVE ~o.applied
  BY <1>1, <1>3, <1>5
<1> QED
  BY <1>4, <1>5

(* What one transaction does to the servos, servo by servo.                *)
LEMMA OffFacts ==
    ASSUME TypeOK, NEW o \in Outcomes, WriteTorqueOff(o)
    PROVE  /\ torque' \in [Servo -> BOOLEAN] /\ enabled' \in [Servo -> BOOLEAN]
           /\ UNCHANGED <<watchdog, goal, goalUpdate>>
           /\ \A s \in Servo : /\ enabled'[s] => enabled[s]
                               /\ torque'[s] => torque[s]
                               /\ enabled'[s] /\ torque[s] => torque'[s]
                               /\ s # i => (enabled'[s] <=> enabled[s])
           /\ o.applied => ~enabled'[i]
           /\ ~o.applied => enabled' = enabled /\ torque' = torque
<1>1. torque \in [Servo -> BOOLEAN] /\ enabled \in [Servo -> BOOLEAN] /\ i \in Servo
  BY DEF TypeOK
<1>2. o.applied \in BOOLEAN
  BY OutcomeFacts
<1>3. CASE o.applied
  BY <1>1, <1>3 DEF WriteTorqueOff
<1>4. CASE ~o.applied
  BY <1>1, <1>4 DEF WriteTorqueOff
<1> QED
  BY <1>2, <1>3, <1>4

(* A torque-on write switches on the servo it reaches and no other.        *)
LEMMA OnFacts ==
    ASSUME TypeOK, NEW o \in Outcomes, WriteTorqueOn(o)
    PROVE  /\ torque' \in [Servo -> BOOLEAN] /\ enabled' \in [Servo -> BOOLEAN]
           /\ UNCHANGED <<watchdog, goal, goalUpdate>>
           /\ \A s \in Servo : /\ enabled[s] => enabled'[s]
                               /\ torque[s] => torque'[s]
                               /\ s # i => (enabled'[s] <=> enabled[s]) /\ (torque'[s] <=> torque[s])
           /\ o.applied => enabled'[i] /\ torque'[i]
           /\ ~o.applied => enabled' = enabled /\ torque' = torque
<1>1. torque \in [Servo -> BOOLEAN] /\ enabled \in [Servo -> BOOLEAN] /\ i \in Servo
  BY DEF TypeOK
<1>2. o.applied \in BOOLEAN
  BY OutcomeFacts
<1>3. CASE o.applied
  BY <1>1, <1>3 DEF WriteTorqueOn
<1>4. CASE ~o.applied
  BY <1>1, <1>4 DEF WriteTorqueOn
<1> QED
  BY <1>2, <1>3, <1>4

(* A watchdog write leaves the other servos' watchdogs alone, and arming   *)
(* never unprotects one.                                                   *)
LEMMA WatchdogFacts ==
    ASSUME TypeOK, NEW o \in Outcomes, NEW v \in {"off", "armed"},
           WriteWatchdog(o, v)
    PROVE  /\ watchdog' \in [Servo -> {"off", "armed", "tripped"}]
           /\ UNCHANGED <<torque, goal, goalUpdate, enabled>>
           /\ \A s \in Servo \ {i} : watchdog'[s] = watchdog[s]
           /\ v = "armed" /\ o.ok => watchdog'[i] # "off"
           /\ v = "armed" /\ watchdog[i] # "off" => watchdog'[i] # "off"
<1>1. watchdog \in [Servo -> {"off", "armed", "tripped"}] /\ i \in Servo
  BY DEF TypeOK
<1>2. o.applied \in BOOLEAN /\ (o.ok => o.applied)
  BY OutcomeFacts
<1> QED
  BY <1>1, <1>2 DEF WriteWatchdog

(* A goal write never touches a watchdog; with the drive modes clear it    *)
(* switches nothing on.                                                    *)
LEMMA GoalFacts ==
    ASSUME TypeOK, NEW S, NEW v \in {"present", "preload", "command", "zero"},
           WriteGoals(S, v)
    PROVE  /\ torque' \in [Servo -> BOOLEAN]
           /\ goal' \in [Servo -> {"foreign", "present", "preload", "command", "zero"}]
           /\ UNCHANGED <<watchdog, goalUpdate, enabled>>
           /\ \A s \in Servo : torque[s] => torque'[s]
           /\ DriveModesClear => torque' = torque
<1>1. torque \in [Servo -> BOOLEAN] /\ goalUpdate \in [Servo -> BOOLEAN]
  BY DEF TypeOK
<1>2. goal \in [Servo -> {"foreign", "present", "preload", "command", "zero"}]
  BY DEF TypeOK
<1>3. \A s \in Servo : torque'[s] <=> (torque[s] \/ (s \in S /\ watchdog[s] # "tripped" /\ goalUpdate[s]))
  BY <1>1 DEF WriteGoals
<1>4. torque' \in [Servo -> BOOLEAN]
  BY <1>1 DEF WriteGoals
<1>5. goal' \in [Servo -> {"foreign", "present", "preload", "command", "zero"}]
  BY <1>2 DEF WriteGoals
<1>6. ASSUME DriveModesClear PROVE torque' = torque
  BY <1>1, <1>3, <1>4, <1>6 DEF DriveModesClear
<1> QED
  BY <1>3, <1>4, <1>5, <1>6 DEF WriteGoals

(* The registers keep their types under every step.                        *)
RegisterTypes ==
    /\ torque \in [Servo -> BOOLEAN] /\ enabled \in [Servo -> BOOLEAN]
    /\ watchdog \in [Servo -> {"off", "armed", "tripped"}]
    /\ goal \in [Servo -> {"foreign", "present", "preload", "command", "zero"}]
    /\ goalUpdate \in [Servo -> BOOLEAN]

MemberTypes ==
    /\ mode \in {"position", "velocity", "current"}
    /\ configurator \in BOOLEAN /\ activated \in BOOLEAN
    /\ verified \in BOOLEAN /\ passive \in BOOLEAN /\ preload \in BOOLEAN
    /\ quiesced \in BOOLEAN /\ portOpen \in BOOLEAN
    /\ thread \in {"none", "running", "exited"}

ControlTypes ==
    /\ op \in Ops /\ phase \in Phases /\ i \in Servo
    /\ zeroed \in [Servo -> BOOLEAN] /\ clean \in BOOLEAN /\ result \in Results
    /\ op = "idle" <=> phase = "none"

(* TypeOK in three parts.                                                  *)
LEMMA TypesSplit == TypeOK <=> RegisterTypes /\ MemberTypes /\ ControlTypes
BY Zenon DEF TypeOK, RegisterTypes, MemberTypes, ControlTypes

(* Where a failing step goes.                                              *)
LEMMA ReleaseFacts ==
    ASSUME NEW b, Release(b)
    PROVE  /\ op' = "release" /\ i' = 1 /\ phase' \in {"zero", "off"}
           /\ phase' = "zero" <=> b
           /\ zeroed' \in [Servo -> BOOLEAN]
<1>1. op' = "release" /\ i' = 1 /\ phase' = IF b THEN "zero" ELSE "off"
  BY DEF Release
<1>2. zeroed' = [s \in Servo |-> ~b]
  BY DEF Release
<1>3. \A s \in Servo : (~b) \in BOOLEAN
  OBVIOUS
<1>4. zeroed' \in [Servo -> BOOLEAN]
  BY <1>2, <1>3, Zenon
<1> QED
  BY <1>1, <1>4, Zenon

(* Fail is a release whose zeros depend on the verified drive modes.       *)
LEMMA FailFacts ==
    ASSUME Fail
    PROVE  /\ op' = "release" /\ i' = 1 /\ phase' \in {"zero", "off"}
           /\ phase' = "zero" <=> verified
           /\ zeroed' \in [Servo -> BOOLEAN]
BY ReleaseFacts, Zenon DEF Fail

(* A step leaves the calls and the members well typed.                     *)
LEMMA ControlStep == TypeOK /\ [Next]_vars => MemberTypes' /\ ControlTypes'
<1> SUFFICES ASSUME TypeOK, Next PROVE MemberTypes' /\ ControlTypes'
  BY DEF TypeOK, MemberTypes, ControlTypes, vars, registers, config, silence,
         members, control
<1>0. MemberTypes /\ ControlTypes /\ 1 \in Servo
  BY TypesSplit, NAssumption DEF Servo
<1> USE DEF config, silence, members, control, At, Goto, JointsLeft, NextJoint, Return,
            Begin, Ops, Phases, Results, Servo
<1>1. CASE ActivateBegin
  BY <1>0, <1>1, OutcomeFacts, NAssumption, FailFacts, ReleaseFacts
  DEF ActivateBegin, PassiveAtActivation, MemberTypes, ControlTypes
<1>2. CASE Verify
  <2>1. verified' \in BOOLEAN
    BY <1>0, <1>2, Zenon DEF Verify, VerifyStep, MemberTypes
  <2>2. MemberTypes'
    BY <1>0, <1>2, <2>1 DEF Verify, VerifyStep, MemberTypes
  <2>3. UNCHANGED <<clean, result>>
    BY <1>2 DEF Verify, VerifyStep
  <2>4. \/ op' = "release" /\ i' = 1 /\ phase' \in {"zero", "off"} /\ zeroed' \in [Servo -> BOOLEAN]
        \/ op' = op /\ op = "activate" /\ i' = 1 /\ phase' \in {"off", "check"} /\ zeroed' = zeroed
    BY <1>2, ReleaseFacts DEF Verify, VerifyStep
  <2> QED
    BY <1>0, <2>2, <2>3, <2>4 DEF ControlTypes
<1>3. CASE Reverify
  <2>1. verified' \in BOOLEAN
    BY <1>0, <1>3, Zenon DEF Reverify, VerifyStep, MemberTypes
  <2>2. MemberTypes'
    BY <1>0, <1>3, <2>1 DEF Reverify, VerifyStep, MemberTypes
  <2>3. UNCHANGED <<clean, result>>
    BY <1>3 DEF Reverify, VerifyStep
  <2>4. \/ op' = "release" /\ i' = 1 /\ phase' \in {"zero", "off"} /\ zeroed' \in [Servo -> BOOLEAN]
        \/ op' = op /\ op = "activate" /\ i' = 1 /\ phase' \in {"off", "check"} /\ zeroed' = zeroed
    BY <1>3, ReleaseFacts DEF Reverify, VerifyStep
  <2> QED
    BY <1>0, <2>2, <2>3, <2>4 DEF ControlTypes
<1>4. CASE ActivateTorqueOff
  BY <1>0, <1>4, OutcomeFacts, NAssumption, FailFacts, ReleaseFacts
  DEF ActivateTorqueOff, MemberTypes, ControlTypes
<1>5. CASE ActivateWatchdogClear
  BY <1>0, <1>5, OutcomeFacts, NAssumption, FailFacts, ReleaseFacts
  DEF ActivateWatchdogClear, MemberTypes, ControlTypes
<1>6. CASE Program
  BY <1>0, <1>6, OutcomeFacts, NAssumption, FailFacts, ReleaseFacts
  DEF Program, MemberTypes, ControlTypes
<1>7. CASE Configure
  <2>1. MemberTypes'
    BY <1>0, <1>7 DEF Configure, VerifiedAfterConfigurator, MemberTypes
  <2>2. clean' = clean /\ result' \in {result, "threw"}
    BY <1>7 DEF Configure
  <2>3. /\ i' = 1
        /\ \/ op' = "release" /\ phase' \in {"zero", "off"} /\ zeroed' \in [Servo -> BOOLEAN]
           \/ op' = op /\ op = "activate" /\ phase' = "reverify" /\ zeroed' = zeroed
           \/ op' = "idle" /\ phase' = "none" /\ zeroed' = zeroed
    BY <1>7, ReleaseFacts DEF Configure
  <2> QED
    BY <1>0, <2>1, <2>2, <2>3 DEF ControlTypes
<1>8. CASE Check
  BY <1>0, <1>8, OutcomeFacts, NAssumption, FailFacts, ReleaseFacts
  DEF Check, MemberTypes, ControlTypes
<1>9. CASE ReadPresent
  BY <1>0, <1>9, OutcomeFacts, NAssumption, FailFacts, ReleaseFacts
  DEF ReadPresent, MemberTypes, ControlTypes
<1>10. CASE GoalSnap
  BY <1>0, <1>10, OutcomeFacts, NAssumption, FailFacts, ReleaseFacts
  DEF GoalSnap, Broadcast, MemberTypes, ControlTypes
<1>11. CASE ArmWatchdog
  BY <1>0, <1>11, OutcomeFacts, NAssumption, FailFacts, ReleaseFacts
  DEF ArmWatchdog, Armed, MemberTypes, ControlTypes
<1>12. CASE Preload
  BY <1>0, <1>12, OutcomeFacts, NAssumption, FailFacts, ReleaseFacts
  DEF Preload, Broadcast, MemberTypes, ControlTypes
<1>13. CASE TorqueOn
  <2>1. MemberTypes'
    BY <1>0, <1>13 DEF TorqueOn, MemberTypes
  <2>2. clean' = clean /\ result' \in {result, "active"}
    BY <1>13 DEF TorqueOn
  <2>3. \/ op' = "release" /\ i' = 1 /\ phase' \in {"zero", "off"} /\ zeroed' \in [Servo -> BOOLEAN]
        \/ op' = op /\ phase' = phase /\ i < N /\ i' = i + 1 /\ zeroed' = zeroed
        \/ op' = "idle" /\ phase' = "none" /\ i' = 1 /\ zeroed' = zeroed
    BY <1>13, FailFacts DEF TorqueOn
  <2> QED
    BY <1>0, <2>1, <2>2, <2>3, NAssumption DEF ControlTypes
<1>14. CASE ReleaseZero
  BY <1>0, <1>14, OutcomeFacts, NAssumption, FailFacts, ReleaseFacts
  DEF ReleaseZero, MemberTypes, ControlTypes
<1>15. CASE ReleaseTorqueOff
  <2>1. MemberTypes'
    BY <1>0, <1>15
    DEF ReleaseTorqueOff, ReleaseNext, StopConfirmed, ActiveAfterRelease,
        MemberTypes
  <2>2. clean' = clean /\ result' \in {result, "released"} /\ zeroed' = zeroed
    BY <1>15
    DEF ReleaseTorqueOff, ReleaseNext, StopConfirmed, ActiveAfterRelease
  <2>3. \/ op' = op /\ op = "release" /\ phase' \in {"zero", "off"} /\ i < N /\ i' = i + 1
        \/ op' = op /\ op = "release" /\ phase' = "clear" /\ i' = i
        \/ op' = "idle" /\ phase' = "none" /\ i' = 1
    BY <1>15
    DEF ReleaseTorqueOff, ReleaseNext, StopConfirmed, ActiveAfterRelease
  <2> QED
    BY <1>0, <2>1, <2>2, <2>3, NAssumption DEF ControlTypes
<1>16. CASE ReleaseClear
  <2>1. MemberTypes'
    BY <1>0, <1>16
    DEF ReleaseClear, ReleaseNext, ActiveAfterRelease, MemberTypes
  <2>2. clean' = clean /\ result' \in {result, "released"} /\ zeroed' = zeroed
    BY <1>16 DEF ReleaseClear, ReleaseNext, ActiveAfterRelease
  <2>3. \/ op' = op /\ op = "release" /\ phase' \in {"zero", "off"} /\ i < N /\ i' = i + 1
        \/ op' = op /\ op = "release" /\ phase' = "clear" /\ i' = i
        \/ op' = "idle" /\ phase' = "none" /\ i' = 1
    BY <1>16 DEF ReleaseClear, ReleaseNext, ActiveAfterRelease
  <2> QED
    BY <1>0, <2>1, <2>2, <2>3, NAssumption DEF ControlTypes
<1>17. CASE StopThread
  BY <1>0, <1>17, OutcomeFacts, NAssumption, FailFacts, ReleaseFacts
  DEF StopThread, JoinThread, Broadcast, MemberTypes, ControlTypes
<1>18. CASE DeactivateBegin
  BY <1>0, <1>18, OutcomeFacts, NAssumption, FailFacts, ReleaseFacts
  DEF DeactivateBegin, JoinThread, Broadcast, StopLoops, MemberTypes,
      ControlTypes
<1>19. CASE EscalateBegin
  BY <1>0, <1>19, OutcomeFacts, NAssumption, FailFacts, ReleaseFacts
  DEF EscalateBegin, JoinThread, Broadcast, StopLoops, MemberTypes,
      ControlTypes
<1>20. CASE DeactivateBroken
  BY <1>0, <1>20, OutcomeFacts, NAssumption, FailFacts, ReleaseFacts
  DEF DeactivateBroken, MemberTypes, ControlTypes
<1>21. CASE DeactivateZero
  BY <1>0, <1>21, OutcomeFacts, NAssumption, FailFacts, ReleaseFacts
  DEF DeactivateZero, Stopping, MemberTypes, ControlTypes
<1>22. CASE DeactivateTorqueOff
  <2>1. MemberTypes'
    BY <1>0, <1>22 DEF DeactivateTorqueOff, MemberTypes
  <2>2. clean' \in {clean, FALSE} /\ UNCHANGED <<zeroed, result>> /\ op' = op /\ op # "idle"
    BY <1>22 DEF DeactivateTorqueOff, NextStop, Stopping
  <2>3. \/ phase' = "off" /\ i < N /\ i' = i + 1
        \/ phase' = "clear" /\ i' = i
        \/ phase' = "end" /\ i' = 1
    BY <1>22 DEF DeactivateTorqueOff, NextStop, Stopping
  <2>4. clean' \in BOOLEAN
    BY <1>0, <2>2, Zenon DEF ControlTypes
  <2> QED
    BY <1>0, <2>1, <2>2, <2>3, <2>4, NAssumption DEF ControlTypes
<1>23. CASE DeactivateClear
  BY <1>0, <1>23, OutcomeFacts, NAssumption, FailFacts, ReleaseFacts
  DEF DeactivateClear, NextStop, Stopping, MemberTypes, ControlTypes
<1>24. CASE DeactivateEnd
  BY <1>0, <1>24, OutcomeFacts, NAssumption, FailFacts, ReleaseFacts
  DEF DeactivateEnd, Stopping, CleanStop, MemberTypes, ControlTypes
<1>25. CASE SwitchBegin
  BY <1>0, <1>25, OutcomeFacts, NAssumption, FailFacts, ReleaseFacts
  DEF SwitchBegin, MemberTypes, ControlTypes
<1>26. CASE SwitchRead
  BY <1>0, <1>26, OutcomeFacts, NAssumption, FailFacts, ReleaseFacts
  DEF SwitchRead, MemberTypes, ControlTypes
<1>27. CASE SwitchTorqueOff
  BY <1>0, <1>27, OutcomeFacts, NAssumption, FailFacts, ReleaseFacts
  DEF SwitchTorqueOff, MemberTypes, ControlTypes
<1>28. CASE SwitchMode
  BY <1>0, <1>28, OutcomeFacts, NAssumption, FailFacts, ReleaseFacts
  DEF SwitchMode, MemberTypes, ControlTypes
<1>29. CASE SwitchGoals
  BY <1>0, <1>29, OutcomeFacts, NAssumption, FailFacts, ReleaseFacts
  DEF SwitchGoals, Broadcast, MemberTypes, ControlTypes
<1>30. CASE SwitchTorqueOn
  BY <1>0, <1>30, OutcomeFacts, NAssumption, FailFacts, ReleaseFacts
  DEF SwitchTorqueOn, MemberTypes, ControlTypes
<1>31. CASE PassiveBegin
  BY <1>0, <1>31, OutcomeFacts, NAssumption, FailFacts, ReleaseFacts
  DEF PassiveBegin, MemberTypes, ControlTypes
<1>32. CASE PassiveVerify
  BY <1>0, <1>32, OutcomeFacts, NAssumption, FailFacts, ReleaseFacts
  DEF PassiveVerify, MemberTypes, ControlTypes
<1>33. CASE PassiveTorqueOff
  BY <1>0, <1>33, OutcomeFacts, NAssumption, FailFacts, ReleaseFacts
  DEF PassiveTorqueOff, MemberTypes, ControlTypes
<1>34. CASE PassiveRelease
  BY <1>0, <1>34, OutcomeFacts, NAssumption, FailFacts, ReleaseFacts
  DEF PassiveRelease, MemberTypes, ControlTypes
<1>35. CASE PassiveCheck
  <2>1. MemberTypes'
    BY <1>0, <1>35 DEF PassiveCheck, MemberTypes
  <2>2. UNCHANGED <<clean, zeroed>> /\ result' \in {result, "limp", "refused"}
    BY <1>35 DEF PassiveCheck
  <2>3. \/ op' = op /\ phase' = phase /\ i < N /\ i' = i + 1
        \/ op' = "idle" /\ phase' = "none" /\ i' = 1
    BY <1>35 DEF PassiveCheck
  <2> QED
    BY <1>0, <2>1, <2>2, <2>3, NAssumption DEF ControlTypes
<1>36. CASE StartThread
  BY <1>0, <1>36, OutcomeFacts, NAssumption, FailFacts, ReleaseFacts
  DEF StartThread, MemberTypes, ControlTypes
<1>37. CASE ThreadWrites
  BY <1>0, <1>37, OutcomeFacts, NAssumption, FailFacts, ReleaseFacts
  DEF ThreadWrites, Broadcast, MemberTypes, ControlTypes
<1>38. CASE StagePreload
  BY <1>0, <1>38, OutcomeFacts, NAssumption, FailFacts, ReleaseFacts
  DEF StagePreload, MemberTypes, ControlTypes
<1>39. CASE RequestQuiesce
  BY <1>0, <1>39, OutcomeFacts, NAssumption, FailFacts, ReleaseFacts
  DEF RequestQuiesce, MemberTypes, ControlTypes
<1>40. CASE \E s \in Servo : Trip(s)
  BY <1>0, <1>40 DEF Trip, MemberTypes, ControlTypes
<1> QED
  BY <1>1, <1>2, <1>3, <1>4, <1>5, <1>6, <1>7, <1>8, <1>9, <1>10, <1>11, <1>12,
     <1>13, <1>14, <1>15, <1>16, <1>17, <1>18, <1>19, <1>20, <1>21, <1>22,
     <1>23, <1>24, <1>25, <1>26, <1>27, <1>28, <1>29, <1>30, <1>31, <1>32,
     <1>33, <1>34, <1>35, <1>36, <1>37, <1>38, <1>39, <1>40
  DEF Next, Activation, Deactivation, Switch, Passive, Environment

(* A step leaves the servos' registers well typed.                         *)
LEMMA RegisterStep == TypeOK /\ [Next]_vars => RegisterTypes'
<1> SUFFICES ASSUME TypeOK, Next PROVE RegisterTypes'
  BY DEF TypeOK, RegisterTypes, vars, registers
<1>0. RegisterTypes
  BY TypesSplit
<1>1. CASE ActivateBegin \/ Verify \/ Reverify \/ Check \/ ReadPresent
         \/ DeactivateBroken \/ DeactivateEnd \/ SwitchBegin \/ SwitchRead \/ PassiveBegin
         \/ PassiveVerify \/ PassiveCheck \/ StartThread \/ StagePreload \/ RequestQuiesce
  BY <1>0, <1>1
  DEF ActivateBegin, Verify, VerifyStep, Reverify, Check, ReadPresent,
      DeactivateBroken, DeactivateEnd, SwitchBegin, SwitchRead, PassiveBegin,
      PassiveVerify, PassiveCheck, StartThread, StagePreload, RequestQuiesce,
      RegisterTypes, registers
<1>2. CASE ActivateTorqueOff \/ ReleaseTorqueOff \/ DeactivateTorqueOff \/ SwitchTorqueOff \/ PassiveTorqueOff
         \/ PassiveRelease
  BY <1>0, <1>2, OffFacts
  DEF ActivateTorqueOff, ReleaseTorqueOff, DeactivateTorqueOff,
      SwitchTorqueOff, PassiveTorqueOff, PassiveRelease, RegisterTypes,
      registers
<1>3. CASE TorqueOn \/ SwitchTorqueOn
  BY <1>0, <1>3, OnFacts DEF TorqueOn, SwitchTorqueOn, RegisterTypes, registers
<1>4. CASE ActivateWatchdogClear \/ ArmWatchdog \/ ReleaseClear \/ DeactivateClear
  BY <1>0, <1>4, WatchdogFacts
  DEF ActivateWatchdogClear, ArmWatchdog, ReleaseClear, DeactivateClear,
      RegisterTypes, registers
<1>5. CASE GoalSnap \/ Preload \/ SwitchGoals \/ ThreadWrites \/ ReleaseZero
         \/ DeactivateZero \/ StopThread \/ DeactivateBegin \/ EscalateBegin
  BY <1>0, <1>5, GoalFacts
  DEF GoalSnap, Broadcast, Preload, SwitchGoals, ThreadWrites, ReleaseZero,
      DeactivateZero, StopThread, JoinThread, DeactivateBegin, StopLoops,
      EscalateBegin, RegisterTypes, registers
<1>6. CASE Program \/ SwitchMode
  BY <1>0, <1>6 DEF Program, SwitchMode, RegisterTypes
<1>7. CASE Configure
  BY <1>0, <1>7 DEF Configure, RegisterTypes
<1>8. CASE \E s \in Servo : Trip(s)
  BY <1>0, <1>8 DEF Trip, RegisterTypes
<1> QED
  BY <1>1, <1>2, <1>3, <1>4, <1>5, <1>6, <1>7, <1>8
  DEF Next, Activation, Deactivation, Switch, Passive, Environment

(* The initial states are well typed.                                      *)
LEMMA TypeInit == Init => TypeOK
<1> SUFFICES ASSUME Init PROVE RegisterTypes /\ MemberTypes /\ ControlTypes
  BY TypesSplit
<1>1. RegisterTypes
  BY DEF Init, RegisterTypes
<1>2. MemberTypes
  BY ModesAssumption DEF Init, MemberTypes
<1>3. ControlTypes
  <2>1. zeroed \in [Servo -> BOOLEAN] /\ clean \in BOOLEAN
    BY DEF Init
  <2>2. /\ op \in Ops /\ phase \in Phases /\ i \in Servo /\ result \in Results
        /\ op = "idle" /\ phase = "none"
    BY NAssumption DEF Init, Ops, Phases, Results, Servo
  <2> QED
    BY <2>1, <2>2 DEF ControlTypes
<1> QED
  BY <1>1, <1>2, <1>3

(* Steps keep the types.                                                   *)
LEMMA TypeStep == TypeOK /\ [Next]_vars => TypeOK'
BY RegisterStep, ControlStep, TypesSplit, Zenon
DEF RegisterTypes, MemberTypes, ControlTypes, TypeOK

(* The registers, the members and the control of a call keep their types,  *)
(* for every number of joints: no step writes past the last joint.         *)
THEOREM TypeCorrect == Spec => []TypeOK
<1>1. Init => TypeOK
  BY TypeInit
<1>2. TypeOK /\ [Next]_vars => TypeOK'
  BY TypeStep
<1> QED
  BY <1>1, <1>2, PTL DEF Spec

-----------------------------------------------------------------------------
(* The invariant.                                                          *)

(* Who may take the arm for active, and what the servos are then.          *)
ActiveInv ==
    /\ op \in {"activate", "passive"} => ~activated
    /\ op = "switch" => activated
    /\ op \in {"idle", "switch"} /\ activated => \A s \in Servo : watchdog[s] # "off"
    /\ (op = "idle" \/ At("switch", "read")) /\ activated => \A s \in Servo : enabled[s]

(* How far the arming and the switching on have come.                      *)
ArmInv ==
    /\ At("activate", "arm") => \A s \in Servo : s < i => watchdog[s] # "off"
    /\ op = "activate" /\ phase \in {"preload", "on"} =>
         \A s \in Servo : watchdog[s] # "off"
    /\ op \in {"activate", "switch"} /\ phase = "on" =>
         \A s \in Servo : s < i => enabled[s]

(* A watchdog is cleared only behind a torque-off that arrived.            *)
ClearInv == phase = "clear" => ~enabled[i]

(* What a stop that may still be called clean has confirmed so far, and    *)
(* which servos are known to be off before observing them.                 *)
LimpInv ==
    /\ op \in {"deactivate", "escalate"} /\ clean /\ ~quiesced =>
         /\ phase = "off" => \A s \in Servo : s < i => ~enabled[s]
         /\ phase = "clear" => \A s \in Servo : s <= i => ~enabled[s]
         /\ phase = "off" /\ i > 1 => portOpen
         /\ phase = "clear" => portOpen
         /\ phase = "end" => portOpen /\ \A s \in Servo : ~enabled[s]
    /\ At("passive", "off") => \A s \in Servo : s < i => ~enabled[s]
    /\ At("passive", "check") => \A s \in Servo : ~enabled[s]

(* Where a goal may be written, Torque On by Goal Update is known to be    *)
(* clear; an activation never runs behind a thread that waits to be joined.*)
DriveInv ==
    /\ verified => DriveModesClear
    /\ activated => verified
    /\ op \in {"activate", "passive"} => ~activated
    /\ op = "switch" => activated
    /\ op = "activate" /\ phase \in {"off", "clear", "program", "check", "read", "snap",
                                    "arm", "preload", "on"} => verified
    /\ phase = "zero" => verified
    /\ thread = "running" => activated
    /\ thread # "none" => DriveModesClear
    /\ op \notin {"idle", "escalate"} => thread = "none"

SafeInv == ActiveInv /\ ArmInv /\ ClearInv /\ TorqueProtected

(* Every step keeps protection, arming and clearing in order.              *)
LEMMA SafeStep == TypeOK /\ SafeInv /\ [Next]_vars => SafeInv'
<1> SUFFICES ASSUME TypeOK, SafeInv, Next PROVE SafeInv'
  BY DEF SafeInv, ActiveInv, ArmInv, ClearInv, TorqueProtected,
         DriveModesClear, At, vars, registers, config, silence, members,
         control
<1>0. RegisterTypes /\ MemberTypes /\ ControlTypes
  BY TypesSplit
<1> USE DEF registers, config, silence, members, control, At, Goto, JointsLeft, NextJoint, Return,
            Begin, Servo
<1>1. CASE ActivateBegin
  BY <1>0, <1>1, OutcomeFacts, NAssumption
  DEF ActivateBegin, PassiveAtActivation, SafeInv, ActiveInv, ArmInv, ClearInv,
      TorqueProtected
<1>2. CASE Verify
  BY <1>0, <1>2, OutcomeFacts, NAssumption, ReleaseFacts
  DEF Verify, VerifyStep, SafeInv, ActiveInv, ArmInv, ClearInv, TorqueProtected
<1>3. CASE Reverify
  BY <1>0, <1>3, OutcomeFacts, NAssumption, ReleaseFacts
  DEF Reverify, VerifyStep, SafeInv, ActiveInv, ArmInv, ClearInv,
      TorqueProtected
<1>4. CASE ActivateTorqueOff
  <2>1. /\ watchdog' = watchdog
        /\ \A s \in Servo : enabled'[s] => enabled[s]
        /\ \A s \in Servo : enabled'[s] /\ torque[s] => torque'[s]
    <3>1. PICK o \in Outcomes : WriteTorqueOff(o)
      BY <1>4 DEF ActivateTorqueOff
    <3> QED
      BY <3>1, OffFacts
  <2>2. TorqueProtected'
    BY <2>1 DEF SafeInv, TorqueProtected
  <2>3. ClearInv'
    BY <1>0, <1>4, OffFacts, OutcomeFacts, FailFacts
    DEF ActivateTorqueOff, ClearInv, ControlTypes
  <2>4. ActiveInv' /\ ArmInv'
    BY <1>0, <1>4, <2>1, FailFacts
    DEF ActivateTorqueOff, SafeInv, ActiveInv, ArmInv
  <2> QED
    BY <2>2, <2>3, <2>4 DEF SafeInv
<1>5. CASE ActivateWatchdogClear
  BY <1>0, <1>5, OutcomeFacts, NAssumption, FailFacts, WatchdogFacts
  DEF ActivateWatchdogClear, SafeInv, ActiveInv, ArmInv, ClearInv,
      TorqueProtected
<1>6. CASE Program
  BY <1>0, <1>6, OutcomeFacts, NAssumption, FailFacts
  DEF Program, SafeInv, ActiveInv, ArmInv, ClearInv, TorqueProtected
<1>7. CASE Configure
  BY <1>0, <1>7, OutcomeFacts, NAssumption, ReleaseFacts
  DEF Configure, VerifiedAfterConfigurator, SafeInv, ActiveInv, ArmInv,
      ClearInv, TorqueProtected
<1>8. CASE Check
  BY <1>0, <1>8, OutcomeFacts, NAssumption, FailFacts
  DEF Check, SafeInv, ActiveInv, ArmInv, ClearInv, TorqueProtected
<1>9. CASE ReadPresent
  BY <1>0, <1>9, OutcomeFacts, NAssumption, FailFacts
  DEF ReadPresent, SafeInv, ActiveInv, ArmInv, ClearInv, TorqueProtected
<1>10. CASE GoalSnap
  BY <1>0, <1>10, OutcomeFacts, NAssumption, FailFacts, GoalFacts
  DEF GoalSnap, Broadcast, SafeInv, ActiveInv, ArmInv, ClearInv, TorqueProtected
<1>11. CASE ArmWatchdog
  <2>1. /\ enabled' = enabled /\ torque' = torque
        /\ \A s \in Servo : watchdog[s] # "off" => watchdog'[s] # "off"
    BY <1>11, WatchdogFacts DEF ArmWatchdog
  <2>2. TorqueProtected'
    BY <2>1 DEF SafeInv, TorqueProtected
  <2>3. \/ op' = "release" /\ phase' \in {"zero", "off"}
        \/ /\ op' = op /\ phase' = phase /\ i' = i + 1 /\ watchdog'[i] # "off"
        \/ /\ op' = op /\ phase' \in {"preload", "on"} /\ i' = 1 /\ i = N
           /\ watchdog'[i] # "off"
    <3>1. PICK o \in Outcomes :
            /\ WriteWatchdog(o, "armed")
            /\ ~o.ok => Fail
            /\ o.ok /\ i < N => op' = op /\ phase' = phase /\ i' = i + 1
            /\ o.ok /\ ~(i < N) => op' = op /\ phase' \in {"preload", "on"} /\ i' = 1
      BY <1>11 DEF ArmWatchdog, Armed
    <3>2. o.ok \in BOOLEAN /\ (o.ok => watchdog'[i] # "off")
      BY <3>1, WatchdogFacts, OutcomeFacts
    <3>3. CASE ~o.ok
      BY <3>1, <3>3, FailFacts
    <3>4. CASE o.ok /\ i < N
      BY <3>1, <3>2, <3>4
    <3>5. CASE o.ok /\ ~(i < N)
      BY <1>0, <3>1, <3>2, <3>5, NAssumption DEF ControlTypes
    <3> QED
      BY <3>2, <3>3, <3>4, <3>5
  <2>4. /\ i \in 1..N /\ op = "activate" /\ phase = "arm" /\ activated' = activated
        /\ ~activated /\ \A s \in Servo : s < i => watchdog[s] # "off"
    BY <1>0, <1>11 DEF ArmWatchdog, SafeInv, ActiveInv, ArmInv, ControlTypes
  <2>5. ClearInv' /\ ActiveInv' /\ ArmInv'
    BY <2>1, <2>3, <2>4, NAssumption DEF ClearInv, ActiveInv, ArmInv
  <2> QED
    BY <2>2, <2>5 DEF SafeInv
<1>12. CASE Preload
  BY <1>0, <1>12, OutcomeFacts, NAssumption, FailFacts, GoalFacts
  DEF Preload, Broadcast, SafeInv, ActiveInv, ArmInv, ClearInv, TorqueProtected
<1>13. CASE TorqueOn
  <2>1. /\ watchdog' = watchdog
        /\ \A s \in Servo : enabled[s] => enabled'[s]
        /\ \A s \in Servo : enabled'[s] => enabled[s] \/ s = i
        /\ \A s \in Servo : torque[s] => torque'[s]
        /\ enabled'[i] => enabled[i] \/ torque'[i]
    <3>1. PICK o \in Outcomes : WriteTorqueOn(o)
      BY <1>13 DEF TorqueOn
    <3>2. o.applied \/ (enabled' = enabled /\ torque' = torque)
      BY <3>1, OnFacts, OutcomeFacts, Zenon
    <3>3. /\ watchdog' = watchdog
          /\ \A s \in Servo : enabled[s] => enabled'[s]
          /\ \A s \in Servo : s # i => (enabled'[s] <=> enabled[s])
          /\ \A s \in Servo : torque[s] => torque'[s]
          /\ o.applied => torque'[i]
      BY <3>1, OnFacts
    <3>4. o.applied \in BOOLEAN
      BY OutcomeFacts
    <3> QED
      BY <3>2, <3>3, Zenon
  <2>2. \A s \in Servo : watchdog[s] # "off"
    BY <1>13 DEF TorqueOn, SafeInv, ActiveInv, ArmInv
  <2>3. TorqueProtected'
    BY <1>0, <2>1, <2>2 DEF SafeInv, TorqueProtected, ControlTypes
  <2>4. \/ op' = "release" /\ phase' \in {"zero", "off"}
        \/ op' = op /\ phase' = phase /\ i' = i + 1 /\ enabled'[i] /\ activated' = activated
        \/ op' = "idle" /\ phase' = "none" /\ i = N /\ enabled'[i]
    <3>1. PICK o \in Outcomes :
            /\ WriteTorqueOn(o)
            /\ ~o.ok => Fail
            /\ o.ok /\ i < N => op' = op /\ phase' = phase /\ i' = i + 1 /\ activated' = activated
            /\ o.ok /\ ~(i < N) => op' = "idle" /\ phase' = "none"
      BY <1>13 DEF TorqueOn
    <3>2. o.ok \in BOOLEAN /\ (o.ok => enabled'[i])
      BY <3>1, OnFacts, OutcomeFacts, Zenon
    <3>3. CASE ~o.ok
      BY <3>1, <3>3, FailFacts
    <3>4. CASE o.ok /\ i < N
      BY <3>1, <3>2, <3>4
    <3>5. CASE o.ok /\ ~(i < N)
      BY <1>0, <3>1, <3>2, <3>5, NAssumption DEF ControlTypes
    <3> QED
      BY <3>2, <3>3, <3>4, <3>5
  <2>5. i \in 1..N /\ (op = "switch" => activated) /\ (op = "activate" => ~activated)
        /\ op = "activate" /\ phase = "on" /\ \A s \in Servo : s < i => enabled[s]
    BY <1>0, <1>13 DEF TorqueOn, SafeInv, ActiveInv, ArmInv, ControlTypes
  <2>6. \A s \in Servo : watchdog'[s] # "off"
    BY <2>1, <2>2
  <2>7. ASSUME op' = "release" /\ phase' \in {"zero", "off"}
        PROVE  ClearInv' /\ ActiveInv' /\ ArmInv'
    BY <2>7 DEF ClearInv, ActiveInv, ArmInv
  <2>8. ASSUME op' = op /\ phase' = phase /\ i' = i + 1 /\ enabled'[i] /\ activated' = activated
        PROVE  ClearInv' /\ ActiveInv' /\ ArmInv'
    <3>1. \A s \in Servo : s < i' => enabled'[s]
      BY <2>1, <2>5, <2>8
    <3> QED
      BY <2>5, <2>6, <2>8, <3>1 DEF ClearInv, ActiveInv, ArmInv
  <2>9. ASSUME op' = "idle" /\ phase' = "none" /\ i = N /\ enabled'[i]
        PROVE  ClearInv' /\ ActiveInv' /\ ArmInv'
    <3>1. \A s \in Servo : enabled'[s]
      BY <2>1, <2>5, <2>9
    <3> QED
      BY <2>5, <2>6, <2>9, <3>1 DEF ClearInv, ActiveInv, ArmInv
  <2>10. ClearInv' /\ ActiveInv' /\ ArmInv'
    BY <2>4, <2>7, <2>8, <2>9
  <2> QED
    BY <2>3, <2>10 DEF SafeInv
<1>14. CASE ReleaseZero
  BY <1>0, <1>14, OutcomeFacts, NAssumption, GoalFacts
  DEF ReleaseZero, SafeInv, ActiveInv, ArmInv, ClearInv, TorqueProtected
<1>15. CASE ReleaseTorqueOff
  <2>1. /\ watchdog' = watchdog
        /\ \A s \in Servo : enabled'[s] => enabled[s]
        /\ \A s \in Servo : enabled'[s] /\ torque[s] => torque'[s]
    <3>1. PICK o \in Outcomes : WriteTorqueOff(o)
      BY <1>15 DEF ReleaseTorqueOff
    <3> QED
      BY <3>1, OffFacts
  <2>2. TorqueProtected'
    BY <2>1 DEF SafeInv, TorqueProtected
  <2>3. ClearInv'
    BY <1>0, <1>15, OffFacts, OutcomeFacts
    DEF ReleaseTorqueOff, ReleaseNext, StopConfirmed, ActiveAfterRelease,
        ClearInv, ControlTypes
  <2>4. ActiveInv' /\ ArmInv'
    BY <1>0, <1>15, <2>1
    DEF ReleaseTorqueOff, ReleaseNext, StopConfirmed, ActiveAfterRelease,
        SafeInv, ActiveInv, ArmInv
  <2> QED
    BY <2>2, <2>3, <2>4 DEF SafeInv
<1>16. CASE ReleaseClear
  BY <1>0, <1>16, OutcomeFacts, NAssumption, WatchdogFacts
  DEF ReleaseClear, ReleaseNext, ActiveAfterRelease, SafeInv, ActiveInv,
      ArmInv, ClearInv, TorqueProtected
<1>17. CASE StopThread
  BY <1>0, <1>17, OutcomeFacts, NAssumption, GoalFacts
  DEF StopThread, JoinThread, Broadcast, SafeInv, ActiveInv, ArmInv, ClearInv,
      TorqueProtected
<1>18. CASE DeactivateBegin
  BY <1>0, <1>18, OutcomeFacts, NAssumption, GoalFacts
  DEF DeactivateBegin, JoinThread, Broadcast, StopLoops, SafeInv, ActiveInv,
      ArmInv, ClearInv, TorqueProtected
<1>19. CASE EscalateBegin
  BY <1>0, <1>19, OutcomeFacts, NAssumption, GoalFacts
  DEF EscalateBegin, JoinThread, Broadcast, StopLoops, SafeInv, ActiveInv,
      ArmInv, ClearInv, TorqueProtected
<1>20. CASE DeactivateBroken
  BY <1>0, <1>20, OutcomeFacts, NAssumption
  DEF DeactivateBroken, SafeInv, ActiveInv, ArmInv, ClearInv, TorqueProtected
<1>21. CASE DeactivateZero
  BY <1>0, <1>21, OutcomeFacts, NAssumption, GoalFacts
  DEF DeactivateZero, Stopping, SafeInv, ActiveInv, ArmInv, ClearInv,
      TorqueProtected
<1>22. CASE DeactivateTorqueOff
  <2>1. /\ watchdog' = watchdog
        /\ \A s \in Servo : enabled'[s] => enabled[s]
        /\ \A s \in Servo : enabled'[s] /\ torque[s] => torque'[s]
    <3>1. PICK o \in Outcomes : WriteTorqueOff(o)
      BY <1>22 DEF DeactivateTorqueOff
    <3> QED
      BY <3>1, OffFacts
  <2>2. TorqueProtected'
    BY <2>1 DEF SafeInv, TorqueProtected
  <2>3. ClearInv'
    BY <1>0, <1>22, OffFacts, OutcomeFacts
    DEF DeactivateTorqueOff, NextStop, StopConfirmed, Stopping, ClearInv,
        ControlTypes
  <2>4. ActiveInv' /\ ArmInv'
    BY <1>0, <1>22, <2>1
    DEF DeactivateTorqueOff, NextStop, StopConfirmed, Stopping, SafeInv,
        ActiveInv, ArmInv
  <2> QED
    BY <2>2, <2>3, <2>4 DEF SafeInv
<1>23. CASE DeactivateClear
  BY <1>0, <1>23, OutcomeFacts, NAssumption, WatchdogFacts
  DEF DeactivateClear, NextStop, Stopping, SafeInv, ActiveInv, ArmInv,
      ClearInv, TorqueProtected
<1>24. CASE DeactivateEnd
  BY <1>0, <1>24, OutcomeFacts, NAssumption
  DEF DeactivateEnd, Stopping, CleanStop, SafeInv, ActiveInv, ArmInv, ClearInv,
      TorqueProtected
<1>25. CASE SwitchBegin
  BY <1>0, <1>25, OutcomeFacts, NAssumption
  DEF SwitchBegin, SafeInv, ActiveInv, ArmInv, ClearInv, TorqueProtected
<1>26. CASE SwitchRead
  BY <1>0, <1>26, OutcomeFacts, NAssumption
  DEF SwitchRead, SafeInv, ActiveInv, ArmInv, ClearInv, TorqueProtected
<1>27. CASE SwitchTorqueOff
  <2>1. /\ watchdog' = watchdog
        /\ \A s \in Servo : enabled'[s] => enabled[s]
        /\ \A s \in Servo : enabled'[s] /\ torque[s] => torque'[s]
    <3>1. PICK o \in Outcomes : WriteTorqueOff(o)
      BY <1>27 DEF SwitchTorqueOff
    <3> QED
      BY <3>1, OffFacts
  <2>2. TorqueProtected'
    BY <2>1 DEF SafeInv, TorqueProtected
  <2>3. ClearInv'
    BY <1>0, <1>27, OffFacts, OutcomeFacts, FailFacts
    DEF SwitchTorqueOff, ClearInv, ControlTypes
  <2>4. ActiveInv' /\ ArmInv'
    BY <1>0, <1>27, <2>1, FailFacts
    DEF SwitchTorqueOff, SafeInv, ActiveInv, ArmInv
  <2> QED
    BY <2>2, <2>3, <2>4 DEF SafeInv
<1>28. CASE SwitchMode
  BY <1>0, <1>28, OutcomeFacts, NAssumption, FailFacts
  DEF SwitchMode, SafeInv, ActiveInv, ArmInv, ClearInv, TorqueProtected
<1>29. CASE SwitchGoals
  BY <1>0, <1>29, OutcomeFacts, NAssumption, FailFacts, GoalFacts
  DEF SwitchGoals, Broadcast, SafeInv, ActiveInv, ArmInv, ClearInv,
      TorqueProtected
<1>30. CASE SwitchTorqueOn
  <2>1. /\ watchdog' = watchdog
        /\ \A s \in Servo : enabled[s] => enabled'[s]
        /\ \A s \in Servo : enabled'[s] => enabled[s] \/ s = i
        /\ \A s \in Servo : torque[s] => torque'[s]
        /\ enabled'[i] => enabled[i] \/ torque'[i]
    <3>1. PICK o \in Outcomes : WriteTorqueOn(o)
      BY <1>30 DEF SwitchTorqueOn
    <3>2. o.applied \/ (enabled' = enabled /\ torque' = torque)
      BY <3>1, OnFacts, OutcomeFacts, Zenon
    <3>3. /\ watchdog' = watchdog
          /\ \A s \in Servo : enabled[s] => enabled'[s]
          /\ \A s \in Servo : s # i => (enabled'[s] <=> enabled[s])
          /\ \A s \in Servo : torque[s] => torque'[s]
          /\ o.applied => torque'[i]
      BY <3>1, OnFacts
    <3>4. o.applied \in BOOLEAN
      BY OutcomeFacts
    <3> QED
      BY <3>2, <3>3, Zenon
  <2>2. \A s \in Servo : watchdog[s] # "off"
    BY <1>30 DEF SwitchTorqueOn, SafeInv, ActiveInv, ArmInv
  <2>3. TorqueProtected'
    BY <1>0, <2>1, <2>2 DEF SafeInv, TorqueProtected, ControlTypes
  <2>4. \/ op' = "release" /\ phase' \in {"zero", "off"}
        \/ op' = op /\ phase' = phase /\ i' = i + 1 /\ enabled'[i] /\ activated' = activated
        \/ op' = "idle" /\ phase' = "none" /\ i = N /\ enabled'[i]
    <3>1. PICK o \in Outcomes :
            /\ WriteTorqueOn(o)
            /\ ~o.ok => Fail
            /\ o.ok /\ i < N => op' = op /\ phase' = phase /\ i' = i + 1 /\ activated' = activated
            /\ o.ok /\ ~(i < N) => op' = "idle" /\ phase' = "none"
      BY <1>30 DEF SwitchTorqueOn
    <3>2. o.ok \in BOOLEAN /\ (o.ok => enabled'[i])
      BY <3>1, OnFacts, OutcomeFacts, Zenon
    <3>3. CASE ~o.ok
      BY <3>1, <3>3, FailFacts
    <3>4. CASE o.ok /\ i < N
      BY <3>1, <3>2, <3>4
    <3>5. CASE o.ok /\ ~(i < N)
      BY <1>0, <3>1, <3>2, <3>5, NAssumption DEF ControlTypes
    <3> QED
      BY <3>2, <3>3, <3>4, <3>5
  <2>5. i \in 1..N /\ (op = "switch" => activated) /\ (op = "activate" => ~activated)
        /\ op = "switch" /\ phase = "on" /\ \A s \in Servo : s < i => enabled[s]
    BY <1>0, <1>30 DEF SwitchTorqueOn, SafeInv, ActiveInv, ArmInv, ControlTypes
  <2>6. \A s \in Servo : watchdog'[s] # "off"
    BY <2>1, <2>2
  <2>7. ASSUME op' = "release" /\ phase' \in {"zero", "off"}
        PROVE  ClearInv' /\ ActiveInv' /\ ArmInv'
    BY <2>7 DEF ClearInv, ActiveInv, ArmInv
  <2>8. ASSUME op' = op /\ phase' = phase /\ i' = i + 1 /\ enabled'[i] /\ activated' = activated
        PROVE  ClearInv' /\ ActiveInv' /\ ArmInv'
    <3>1. \A s \in Servo : s < i' => enabled'[s]
      BY <2>1, <2>5, <2>8
    <3> QED
      BY <2>5, <2>6, <2>8, <3>1 DEF ClearInv, ActiveInv, ArmInv
  <2>9. ASSUME op' = "idle" /\ phase' = "none" /\ i = N /\ enabled'[i]
        PROVE  ClearInv' /\ ActiveInv' /\ ArmInv'
    <3>1. \A s \in Servo : enabled'[s]
      BY <2>1, <2>5, <2>9
    <3> QED
      BY <2>5, <2>6, <2>9, <3>1 DEF ClearInv, ActiveInv, ArmInv
  <2>10. ClearInv' /\ ActiveInv' /\ ArmInv'
    BY <2>4, <2>7, <2>8, <2>9
  <2> QED
    BY <2>3, <2>10 DEF SafeInv
<1>31. CASE PassiveBegin
  BY <1>0, <1>31, OutcomeFacts, NAssumption
  DEF PassiveBegin, SafeInv, ActiveInv, ArmInv, ClearInv, TorqueProtected
<1>32. CASE PassiveVerify
  BY <1>0, <1>32, OutcomeFacts, NAssumption
  DEF PassiveVerify, SafeInv, ActiveInv, ArmInv, ClearInv, TorqueProtected
<1>33. CASE PassiveTorqueOff
  <2>1. /\ watchdog' = watchdog
        /\ \A s \in Servo : enabled'[s] => enabled[s]
        /\ \A s \in Servo : enabled'[s] /\ torque[s] => torque'[s]
    <3>1. PICK o \in Outcomes : WriteTorqueOff(o)
      BY <1>33 DEF PassiveTorqueOff
    <3> QED
      BY <3>1, OffFacts
  <2>2. TorqueProtected'
    BY <2>1 DEF SafeInv, TorqueProtected
  <2>3. ClearInv'
    BY <1>0, <1>33, OffFacts, OutcomeFacts
    DEF PassiveTorqueOff, ClearInv, ControlTypes
  <2>4. ActiveInv' /\ ArmInv'
    BY <1>0, <1>33, <2>1 DEF PassiveTorqueOff, SafeInv, ActiveInv, ArmInv
  <2> QED
    BY <2>2, <2>3, <2>4 DEF SafeInv
<1>34. CASE PassiveRelease
  <2>1. /\ watchdog' = watchdog
        /\ \A s \in Servo : enabled'[s] => enabled[s]
        /\ \A s \in Servo : enabled'[s] /\ torque[s] => torque'[s]
    <3>1. PICK o \in Outcomes : WriteTorqueOff(o)
      BY <1>34 DEF PassiveRelease
    <3> QED
      BY <3>1, OffFacts
  <2>2. TorqueProtected'
    BY <2>1 DEF SafeInv, TorqueProtected
  <2>3. ClearInv'
    BY <1>0, <1>34, OffFacts, OutcomeFacts
    DEF PassiveRelease, ClearInv, ControlTypes
  <2>4. ActiveInv' /\ ArmInv'
    BY <1>0, <1>34, <2>1 DEF PassiveRelease, SafeInv, ActiveInv, ArmInv
  <2> QED
    BY <2>2, <2>3, <2>4 DEF SafeInv
<1>35. CASE PassiveCheck
  BY <1>0, <1>35, OutcomeFacts, NAssumption
  DEF PassiveCheck, SafeInv, ActiveInv, ArmInv, ClearInv, TorqueProtected
<1>36. CASE StartThread
  BY <1>0, <1>36, OutcomeFacts, NAssumption
  DEF StartThread, SafeInv, ActiveInv, ArmInv, ClearInv, TorqueProtected
<1>37. CASE ThreadWrites
  BY <1>0, <1>37, OutcomeFacts, NAssumption, GoalFacts
  DEF ThreadWrites, Broadcast, SafeInv, ActiveInv, ArmInv, ClearInv,
      TorqueProtected
<1>38. CASE StagePreload
  BY <1>0, <1>38, OutcomeFacts, NAssumption
  DEF StagePreload, SafeInv, ActiveInv, ArmInv, ClearInv, TorqueProtected
<1>39. CASE RequestQuiesce
  BY <1>0, <1>39, OutcomeFacts, NAssumption
  DEF RequestQuiesce, SafeInv, ActiveInv, ArmInv, ClearInv, TorqueProtected
<1>40. CASE \E s \in Servo : Trip(s)
  BY <1>0, <1>40
  DEF Trip, SafeInv, ActiveInv, ArmInv, ClearInv, TorqueProtected,
      RegisterTypes
<1> QED
  BY <1>1, <1>2, <1>3, <1>4, <1>5, <1>6, <1>7, <1>8, <1>9, <1>10, <1>11, <1>12,
     <1>13, <1>14, <1>15, <1>16, <1>17, <1>18, <1>19, <1>20, <1>21, <1>22,
     <1>23, <1>24, <1>25, <1>26, <1>27, <1>28, <1>29, <1>30, <1>31, <1>32,
     <1>33, <1>34, <1>35, <1>36, <1>37, <1>38, <1>39, <1>40
  DEF Next, Activation, Deactivation, Switch, Passive, Environment

(* Every step keeps what a clean stop has confirmed so far.                *)
LEMMA LimpStep == TypeOK /\ LimpInv /\ [Next]_vars => LimpInv'
<1> SUFFICES ASSUME TypeOK, LimpInv, Next PROVE LimpInv'
  BY DEF LimpInv, DriveModesClear, At, vars, registers, config, silence,
         members, control
<1>0. RegisterTypes /\ MemberTypes /\ ControlTypes
  BY TypesSplit
<1> USE DEF registers, config, silence, members, control, At, Goto, JointsLeft, NextJoint, Return,
            Begin, Servo, Silent
<1>1. CASE ActivateBegin
  BY <1>0, <1>1, OutcomeFacts, NAssumption
  DEF ActivateBegin, PassiveAtActivation, LimpInv
<1>2. CASE Verify
  BY <1>0, <1>2, OutcomeFacts, NAssumption, ReleaseFacts
  DEF Verify, VerifyStep, LimpInv
<1>3. CASE Reverify
  BY <1>0, <1>3, OutcomeFacts, NAssumption, ReleaseFacts
  DEF Reverify, VerifyStep, LimpInv
<1>4. CASE ActivateTorqueOff
  BY <1>0, <1>4, OutcomeFacts, NAssumption, FailFacts, OffFacts
  DEF ActivateTorqueOff, LimpInv
<1>5. CASE ActivateWatchdogClear
  BY <1>0, <1>5, OutcomeFacts, NAssumption, FailFacts, WatchdogFacts
  DEF ActivateWatchdogClear, LimpInv
<1>6. CASE Program
  BY <1>0, <1>6, OutcomeFacts, NAssumption, FailFacts
  DEF Program, LimpInv
<1>7. CASE Configure
  BY <1>0, <1>7, OutcomeFacts, NAssumption, ReleaseFacts
  DEF Configure, VerifiedAfterConfigurator, LimpInv
<1>8. CASE Check
  BY <1>0, <1>8, OutcomeFacts, NAssumption, FailFacts
  DEF Check, LimpInv
<1>9. CASE ReadPresent
  BY <1>0, <1>9, OutcomeFacts, NAssumption, FailFacts
  DEF ReadPresent, LimpInv
<1>10. CASE GoalSnap
  BY <1>0, <1>10, OutcomeFacts, NAssumption, FailFacts, GoalFacts
  DEF GoalSnap, Broadcast, LimpInv
<1>11. CASE ArmWatchdog
  BY <1>0, <1>11, OutcomeFacts, NAssumption, FailFacts, WatchdogFacts
  DEF ArmWatchdog, Armed, LimpInv
<1>12. CASE Preload
  BY <1>0, <1>12, OutcomeFacts, NAssumption, FailFacts, GoalFacts
  DEF Preload, Broadcast, LimpInv
<1>13. CASE TorqueOn
  BY <1>0, <1>13, OutcomeFacts, NAssumption, FailFacts, OnFacts
  DEF TorqueOn, LimpInv
<1>14. CASE ReleaseZero
  BY <1>0, <1>14, OutcomeFacts, NAssumption, GoalFacts
  DEF ReleaseZero, LimpInv
<1>15. CASE ReleaseTorqueOff
  BY <1>0, <1>15, OutcomeFacts, NAssumption, OffFacts
  DEF ReleaseTorqueOff, ReleaseNext, StopConfirmed, ActiveAfterRelease, LimpInv
<1>16. CASE ReleaseClear
  BY <1>0, <1>16, OutcomeFacts, NAssumption, WatchdogFacts
  DEF ReleaseClear, ReleaseNext, ActiveAfterRelease, LimpInv
<1>17. CASE StopThread
  BY <1>0, <1>17, OutcomeFacts, NAssumption, GoalFacts
  DEF StopThread, JoinThread, Broadcast, LimpInv
<1>18. CASE DeactivateBegin
  BY <1>0, <1>18, OutcomeFacts, NAssumption, GoalFacts
  DEF DeactivateBegin, JoinThread, Broadcast, StopLoops, LimpInv
<1>19. CASE EscalateBegin
  BY <1>0, <1>19, OutcomeFacts, NAssumption, GoalFacts
  DEF EscalateBegin, JoinThread, Broadcast, StopLoops, LimpInv
<1>20. CASE DeactivateBroken
  BY <1>0, <1>20, OutcomeFacts, NAssumption
  DEF DeactivateBroken, LimpInv
<1>21. CASE DeactivateZero
  BY <1>0, <1>21, OutcomeFacts, NAssumption, GoalFacts
  DEF DeactivateZero, Stopping, LimpInv
<1>22. CASE DeactivateTorqueOff
  <2>1. PICK o \in Outcomes :
          /\ WriteTorqueOff(o)
          /\ \/ zeroed[i] /\ o.ok /\ phase' = "clear" /\ UNCHANGED <<i, clean>>
             \/ NextStop /\ clean' = FALSE
    BY <1>22 DEF DeactivateTorqueOff, StopConfirmed
  <2>2. /\ op' = op /\ op \in {"deactivate", "escalate"} /\ phase = "off"
        /\ ~quiesced /\ UNCHANGED <<quiesced, portOpen>>
    BY <1>22 DEF DeactivateTorqueOff, Stopping, NextStop
  <2>3. CASE clean' = FALSE
    BY <2>2, <2>3 DEF LimpInv
  <2>4. CASE zeroed[i] /\ o.ok /\ phase' = "clear" /\ UNCHANGED <<i, clean>>
    <3>1. ~enabled'[i] /\ ~Silent /\ \A s \in Servo : enabled'[s] => enabled[s]
      BY <2>1, <2>4, OffFacts, OutcomeFacts
    <3>2. \A s \in Servo : clean => (s <= i => ~enabled'[s])
      BY <1>0, <2>2, <3>1 DEF LimpInv, ControlTypes
    <3> QED
      BY <2>2, <2>4, <3>1, <3>2 DEF LimpInv
  <2> QED
    BY <2>1, <2>3, <2>4
<1>23. CASE DeactivateClear
  <2>1. /\ op' = op /\ op \in {"deactivate", "escalate"} /\ phase = "clear"
        /\ ~quiesced /\ UNCHANGED <<quiesced, portOpen, enabled>> /\ (clean' => clean)
    BY <1>23, WatchdogFacts DEF DeactivateClear, Stopping, NextStop
  <2>2. \/ i < N /\ i' = i + 1 /\ phase' = "off"
        \/ ~(i < N) /\ i' = 1 /\ phase' = "end"
    BY <1>23 DEF DeactivateClear, NextStop
  <2>3. clean => portOpen /\ \A s \in Servo : s <= i => ~enabled[s]
    BY <2>1 DEF LimpInv
  <2> QED
    BY <1>0, <2>1, <2>2, <2>3, NAssumption DEF LimpInv, ControlTypes
<1>24. CASE DeactivateEnd
  BY <1>0, <1>24, OutcomeFacts, NAssumption
  DEF DeactivateEnd, Stopping, CleanStop, LimpInv
<1>25. CASE SwitchBegin
  BY <1>0, <1>25, OutcomeFacts, NAssumption
  DEF SwitchBegin, LimpInv
<1>26. CASE SwitchRead
  BY <1>0, <1>26, OutcomeFacts, NAssumption
  DEF SwitchRead, LimpInv
<1>27. CASE SwitchTorqueOff
  BY <1>0, <1>27, OutcomeFacts, NAssumption, FailFacts, OffFacts
  DEF SwitchTorqueOff, LimpInv
<1>28. CASE SwitchMode
  BY <1>0, <1>28, OutcomeFacts, NAssumption, FailFacts
  DEF SwitchMode, LimpInv
<1>29. CASE SwitchGoals
  BY <1>0, <1>29, OutcomeFacts, NAssumption, FailFacts, GoalFacts
  DEF SwitchGoals, Broadcast, LimpInv
<1>30. CASE SwitchTorqueOn
  BY <1>0, <1>30, OutcomeFacts, NAssumption, FailFacts, OnFacts
  DEF SwitchTorqueOn, LimpInv
<1>31. CASE PassiveBegin
  BY <1>0, <1>31, OutcomeFacts, NAssumption
  DEF PassiveBegin, LimpInv
<1>32. CASE PassiveVerify
  BY <1>0, <1>32, OutcomeFacts, NAssumption
  DEF PassiveVerify, LimpInv
<1>33. CASE PassiveTorqueOff
  <2>1. PICK o \in Outcomes :
          WriteTorqueOff(o) /\ IF o.ok THEN NextJoint("check") ELSE Goto("end")
    BY <1>33 DEF PassiveTorqueOff
  <2>2. op' = op /\ op = "passive" /\ \A s \in Servo : s < i => ~enabled[s]
    BY <1>33, <2>1 DEF PassiveTorqueOff, LimpInv
  <2>3. CASE o.ok
    <3>1. ~enabled'[i] /\ \A s \in Servo : enabled'[s] => enabled[s]
      BY <2>1, <2>3, OffFacts, OutcomeFacts
    <3>2. \A s \in Servo : s <= i => ~enabled'[s]
      BY <1>0, <2>2, <3>1 DEF ControlTypes
    <3>3. \/ i < N /\ i' = i + 1 /\ phase' = phase
          \/ ~(i < N) /\ i' = 1 /\ phase' = "check"
      BY <2>1, <2>3
    <3> QED
      BY <1>0, <1>33, <2>2, <3>2, <3>3, NAssumption
      DEF PassiveTorqueOff, LimpInv, ControlTypes
  <2>4. CASE ~o.ok
    BY <2>1, <2>2, <2>4 DEF LimpInv
  <2> QED
    BY <2>3, <2>4
<1>34. CASE PassiveRelease
  BY <1>0, <1>34, OutcomeFacts, NAssumption, OffFacts
  DEF PassiveRelease, LimpInv
<1>35. CASE PassiveCheck
  BY <1>0, <1>35, OutcomeFacts, NAssumption
  DEF PassiveCheck, LimpInv
<1>36. CASE StartThread
  BY <1>0, <1>36, OutcomeFacts, NAssumption
  DEF StartThread, LimpInv
<1>37. CASE ThreadWrites
  BY <1>0, <1>37, OutcomeFacts, NAssumption, GoalFacts
  DEF ThreadWrites, Broadcast, LimpInv
<1>38. CASE StagePreload
  BY <1>0, <1>38, OutcomeFacts, NAssumption
  DEF StagePreload, LimpInv
<1>39. CASE RequestQuiesce
  BY <1>0, <1>39, OutcomeFacts, NAssumption
  DEF RequestQuiesce, LimpInv
<1>40. CASE \E s \in Servo : Trip(s)
  BY <1>0, <1>40 DEF Trip, LimpInv, RegisterTypes
<1> QED
  BY <1>1, <1>2, <1>3, <1>4, <1>5, <1>6, <1>7, <1>8, <1>9, <1>10, <1>11, <1>12,
     <1>13, <1>14, <1>15, <1>16, <1>17, <1>18, <1>19, <1>20, <1>21, <1>22,
     <1>23, <1>24, <1>25, <1>26, <1>27, <1>28, <1>29, <1>30, <1>31, <1>32,
     <1>33, <1>34, <1>35, <1>36, <1>37, <1>38, <1>39, <1>40
  DEF Next, Activation, Deactivation, Switch, Passive, Environment

(* Every step keeps goal writes behind verified drive modes.               *)
LEMMA DriveStep == JoinsFirst /\ TypeOK /\ DriveInv /\ [Next]_vars => DriveInv'
<1> SUFFICES ASSUME JoinsFirst, TypeOK, DriveInv, Next PROVE DriveInv'
  BY DEF DriveInv, DriveModesClear, At, vars, registers, config, silence,
         members, control
<1>0. RegisterTypes /\ MemberTypes /\ ControlTypes
  BY TypesSplit
<1> USE DEF registers, config, silence, members, control, At, Goto, JointsLeft, NextJoint, Return,
            Begin, Servo, DriveModesClear
<1>1. CASE ActivateBegin
  BY <1>0, <1>1 DEF ActivateBegin, PassiveAtActivation, DriveInv, MemberTypes
<1>2. CASE Verify
  <2>1. verified' => DriveModesClear
    BY <1>2, Zenon DEF Verify, VerifyStep, DriveInv
  <2>2. UNCHANGED <<goalUpdate, activated, thread>> /\ op = "activate"
    BY <1>2 DEF Verify, VerifyStep
  <2>3. \/ op' = op /\ phase' \in {"off", "check"} /\ verified'
        \/ op' = "release" /\ phase' \in {"zero", "off"} /\ (phase' = "zero" <=> verified')
    BY <1>2, ReleaseFacts DEF Verify, VerifyStep
  <2> QED
    BY <2>1, <2>2, <2>3 DEF DriveInv, DriveModesClear
<1>3. CASE Reverify
  <2>1. verified' => DriveModesClear
    BY <1>3, Zenon DEF Reverify, VerifyStep, DriveInv
  <2>2. UNCHANGED <<goalUpdate, activated, thread>> /\ op = "activate"
    BY <1>3 DEF Reverify, VerifyStep
  <2>3. \/ op' = op /\ phase' \in {"off", "check"} /\ verified'
        \/ op' = "release" /\ phase' \in {"zero", "off"} /\ (phase' = "zero" <=> verified')
    BY <1>3, ReleaseFacts DEF Reverify, VerifyStep
  <2> QED
    BY <2>1, <2>2, <2>3 DEF DriveInv, DriveModesClear
<1>4. CASE ActivateTorqueOff
  BY <1>0, <1>4, OutcomeFacts, NAssumption, FailFacts, OffFacts
  DEF ActivateTorqueOff, DriveInv
<1>5. CASE ActivateWatchdogClear
  BY <1>0, <1>5, OutcomeFacts, NAssumption, FailFacts, WatchdogFacts
  DEF ActivateWatchdogClear, DriveInv
<1>6. CASE Program
  BY <1>0, <1>6, OutcomeFacts, NAssumption, FailFacts
  DEF Program, DriveInv
<1>7. CASE Configure
  BY <1>0, <1>7, OutcomeFacts, NAssumption, ReleaseFacts
  DEF Configure, VerifiedAfterConfigurator, DriveInv
<1>8. CASE Check
  BY <1>0, <1>8, OutcomeFacts, NAssumption, FailFacts
  DEF Check, DriveInv
<1>9. CASE ReadPresent
  BY <1>0, <1>9, OutcomeFacts, NAssumption, FailFacts
  DEF ReadPresent, DriveInv
<1>10. CASE GoalSnap
  BY <1>0, <1>10, OutcomeFacts, NAssumption, FailFacts, GoalFacts
  DEF GoalSnap, Broadcast, DriveInv
<1>11. CASE ArmWatchdog
  BY <1>0, <1>11, OutcomeFacts, NAssumption, FailFacts, WatchdogFacts
  DEF ArmWatchdog, Armed, DriveInv
<1>12. CASE Preload
  BY <1>0, <1>12, OutcomeFacts, NAssumption, FailFacts, GoalFacts
  DEF Preload, Broadcast, DriveInv
<1>13. CASE TorqueOn
  BY <1>0, <1>13, OutcomeFacts, NAssumption, FailFacts, OnFacts
  DEF TorqueOn, DriveInv
<1>14. CASE ReleaseZero
  BY <1>0, <1>14, OutcomeFacts, NAssumption, GoalFacts
  DEF ReleaseZero, DriveInv
<1>15. CASE ReleaseTorqueOff
  BY <1>0, <1>15, OutcomeFacts, NAssumption, OffFacts
  DEF ReleaseTorqueOff, ReleaseNext, StopConfirmed, ActiveAfterRelease, DriveInv
<1>16. CASE ReleaseClear
  BY <1>0, <1>16, OutcomeFacts, NAssumption, WatchdogFacts
  DEF ReleaseClear, ReleaseNext, ActiveAfterRelease, DriveInv
<1>17. CASE StopThread
  BY <1>0, <1>17, OutcomeFacts, NAssumption, GoalFacts
  DEF StopThread, JoinThread, Broadcast, DriveInv
<1>18. CASE DeactivateBegin
  BY <1>0, <1>18, OutcomeFacts, NAssumption, GoalFacts
  DEF DeactivateBegin, JoinThread, Broadcast, StopLoops, DriveInv
<1>19. CASE EscalateBegin
  BY <1>0, <1>19, OutcomeFacts, NAssumption, GoalFacts
  DEF EscalateBegin, JoinThread, Broadcast, StopLoops, DriveInv
<1>20. CASE DeactivateBroken
  BY <1>0, <1>20, OutcomeFacts, NAssumption
  DEF DeactivateBroken, DriveInv
<1>21. CASE DeactivateZero
  BY <1>0, <1>21, OutcomeFacts, NAssumption, GoalFacts
  DEF DeactivateZero, Stopping, DriveInv
<1>22. CASE DeactivateTorqueOff
  BY <1>0, <1>22, OutcomeFacts, NAssumption, OffFacts
  DEF DeactivateTorqueOff, NextStop, StopConfirmed, Stopping, DriveInv
<1>23. CASE DeactivateClear
  BY <1>0, <1>23, OutcomeFacts, NAssumption, WatchdogFacts
  DEF DeactivateClear, NextStop, Stopping, DriveInv
<1>24. CASE DeactivateEnd
  BY <1>0, <1>24, OutcomeFacts, NAssumption
  DEF DeactivateEnd, Stopping, CleanStop, DriveInv
<1>25. CASE SwitchBegin
  BY <1>0, <1>25, OutcomeFacts, NAssumption
  DEF SwitchBegin, DriveInv
<1>26. CASE SwitchRead
  BY <1>0, <1>26, OutcomeFacts, NAssumption
  DEF SwitchRead, DriveInv
<1>27. CASE SwitchTorqueOff
  BY <1>0, <1>27, OutcomeFacts, NAssumption, FailFacts, OffFacts
  DEF SwitchTorqueOff, DriveInv
<1>28. CASE SwitchMode
  BY <1>0, <1>28, OutcomeFacts, NAssumption, FailFacts
  DEF SwitchMode, DriveInv
<1>29. CASE SwitchGoals
  BY <1>0, <1>29, OutcomeFacts, NAssumption, FailFacts, GoalFacts
  DEF SwitchGoals, Broadcast, DriveInv
<1>30. CASE SwitchTorqueOn
  BY <1>0, <1>30, OutcomeFacts, NAssumption, FailFacts, OnFacts
  DEF SwitchTorqueOn, DriveInv
<1>31. CASE PassiveBegin
  BY <1>0, <1>31, OutcomeFacts, NAssumption
  DEF PassiveBegin, DriveInv
<1>32. CASE PassiveVerify
  BY <1>0, <1>32, OutcomeFacts, NAssumption
  DEF PassiveVerify, DriveInv
<1>33. CASE PassiveTorqueOff
  BY <1>0, <1>33, OutcomeFacts, NAssumption, OffFacts
  DEF PassiveTorqueOff, DriveInv
<1>34. CASE PassiveRelease
  BY <1>0, <1>34, OutcomeFacts, NAssumption, OffFacts
  DEF PassiveRelease, DriveInv
<1>35. CASE PassiveCheck
  BY <1>0, <1>35, OutcomeFacts, NAssumption
  DEF PassiveCheck, DriveInv
<1>36. CASE StartThread
  BY <1>0, <1>36, OutcomeFacts, NAssumption
  DEF StartThread, DriveInv
<1>37. CASE ThreadWrites
  BY <1>0, <1>37, OutcomeFacts, NAssumption, GoalFacts
  DEF ThreadWrites, Broadcast, DriveInv
<1>38. CASE StagePreload
  BY <1>0, <1>38, OutcomeFacts, NAssumption
  DEF StagePreload, DriveInv
<1>39. CASE RequestQuiesce
  BY <1>0, <1>39, OutcomeFacts, NAssumption
  DEF RequestQuiesce, DriveInv
<1>40. CASE \E s \in Servo : Trip(s)
  BY <1>0, <1>40 DEF Trip, DriveInv, RegisterTypes
<1> QED
  BY <1>1, <1>2, <1>3, <1>4, <1>5, <1>6, <1>7, <1>8, <1>9, <1>10, <1>11, <1>12,
     <1>13, <1>14, <1>15, <1>16, <1>17, <1>18, <1>19, <1>20, <1>21, <1>22,
     <1>23, <1>24, <1>25, <1>26, <1>27, <1>28, <1>29, <1>30, <1>31, <1>32,
     <1>33, <1>34, <1>35, <1>36, <1>37, <1>38, <1>39, <1>40
  DEF Next, Activation, Deactivation, Switch, Passive, Environment

(* Nothing is switched on yet, so the initial states have the invariant.   *)
LEMMA InvInit == Init => SafeInv /\ LimpInv
<1> SUFFICES ASSUME Init PROVE SafeInv /\ LimpInv
  OBVIOUS
<1>1. op = "idle" /\ phase = "none" /\ activated = FALSE
  BY DEF Init
<1>2. \A s \in Servo : ~enabled[s]
  BY DEF Init
<1> QED
  BY <1>1, <1>2
  DEF SafeInv, ActiveInv, ArmInv, ClearInv, TorqueProtected, LimpInv, At

(* The inductive invariant, without what only callers that join provide.   *)
IInv == TypeOK /\ SafeInv /\ LimpInv

(* Every reachable state has the inductive invariant.                      *)
THEOREM Invariance == Spec => []IInv
<1>1. Init => IInv
  BY TypeInit, InvInit DEF IInv
<1>2. IInv /\ [Next]_vars => IInv'
  BY TypeStep, SafeStep, LimpStep DEF IInv
<1> QED
  BY <1>1, <1>2, PTL DEF Spec

(* A servo that activate() or a mode switch turned on keeps torque and its *)
(* Bus Watchdog until a torque-off reached it, whatever fails and whenever *)
(* the bus is quiesced, for every number of joints.                        *)
THEOREM Protected == Spec => []TorqueProtected
<1>1. IInv => TorqueProtected
  BY DEF IInv, SafeInv
<1> QED
  BY Invariance, <1>1, PTL

-----------------------------------------------------------------------------
(* No goal write switches a servo on.                                      *)

(* Nothing is verified yet.                                                *)
LEMMA DriveInit == Init => DriveInv
<1> SUFFICES ASSUME Init PROVE DriveInv
  OBVIOUS
<1>1. /\ op = "idle" /\ phase = "none" /\ thread = "none"
      /\ activated = FALSE /\ verified = FALSE
  BY DEF Init
<1> QED
  BY <1>1 DEF DriveInv

(* A step that raises the torque of a servo is a torque-on or the caller's *)
(* configurator.                                                           *)
LEMMA DriveSafe ==
    ASSUME TypeOK, DriveInv, Next, NEW s \in Servo, ~torque[s], torque'[s]
    PROVE  phase \in {"on", "configure"}
<1> USE DEF At, Broadcast
<1>1. CASE ActivateBegin \/ Verify \/ Reverify \/ Check \/ ReadPresent
         \/ DeactivateBroken \/ DeactivateEnd \/ SwitchBegin \/ SwitchRead \/ PassiveBegin
         \/ PassiveVerify \/ PassiveCheck \/ StartThread \/ StagePreload \/ RequestQuiesce
  BY <1>1
  DEF ActivateBegin, Verify, VerifyStep, Reverify, Check, ReadPresent,
      DeactivateBroken, DeactivateEnd, Stopping, SwitchBegin, SwitchRead,
      PassiveBegin, PassiveVerify, PassiveCheck, StartThread, StagePreload,
      RequestQuiesce, registers
<1>2. CASE ActivateTorqueOff \/ ReleaseTorqueOff \/ DeactivateTorqueOff \/ SwitchTorqueOff \/ PassiveTorqueOff
         \/ PassiveRelease
  BY <1>2, OffFacts
  DEF ActivateTorqueOff, ReleaseTorqueOff, DeactivateTorqueOff, Stopping,
      SwitchTorqueOff, PassiveTorqueOff, PassiveRelease
<1>3. CASE ActivateWatchdogClear \/ ArmWatchdog \/ ReleaseClear \/ DeactivateClear
  BY <1>3, WatchdogFacts
  DEF ActivateWatchdogClear, ArmWatchdog, ReleaseClear, DeactivateClear,
      Stopping
<1>4. CASE Program \/ SwitchMode \/ Configure \/ (\E z \in Servo : Trip(z))
  BY <1>4 DEF Program, SwitchMode, Configure, Trip
<1>5. CASE TorqueOn \/ SwitchTorqueOn
  BY <1>5 DEF TorqueOn, SwitchTorqueOn
<1>6. CASE GoalSnap
  BY <1>6, GoalFacts DEF GoalSnap, DriveInv
<1>7. CASE Preload
  BY <1>7, GoalFacts DEF Preload, DriveInv
<1>8. CASE SwitchGoals
  BY <1>8, GoalFacts DEF SwitchGoals, DriveInv
<1>9. CASE ThreadWrites
  BY <1>9, GoalFacts DEF ThreadWrites, DriveInv
<1>10. CASE ReleaseZero
  BY <1>10, GoalFacts DEF ReleaseZero, DriveInv
<1>11. CASE DeactivateZero
  BY <1>11, GoalFacts DEF DeactivateZero, Stopping, DriveInv
<1>12. CASE StopThread
  BY <1>12, GoalFacts DEF StopThread, JoinThread, DriveInv, registers
<1>13. CASE DeactivateBegin
  BY <1>13, GoalFacts
  DEF DeactivateBegin, JoinThread, StopLoops, DriveInv, registers
<1>14. CASE EscalateBegin
  BY <1>14, GoalFacts
  DEF EscalateBegin, JoinThread, StopLoops, DriveInv, registers
<1> QED
  BY <1>1, <1>2, <1>3, <1>4, <1>5, <1>6, <1>7, <1>8, <1>9, <1>10, <1>11, <1>12,
     <1>13, <1>14
  DEF Next, Activation, Deactivation, Switch, Passive, Environment

(* With callers that join an escalated thread first, a zero, preload or    *)
(* command goal never switches a servo on: Drive Mode bit 3 is known to be *)
(* clear wherever one is written, for every number of joints.              *)
THEOREM GoalWritesAreSafe == ASSUME JoinsFirst PROVE Spec => NoTorqueByGoalWrite
<1>1. Init => TypeOK /\ DriveInv
  BY TypeInit, DriveInit
<1>2. TypeOK /\ DriveInv /\ [Next]_vars => (TypeOK /\ DriveInv)'
  BY TypeStep, DriveStep
<1>3. TypeOK /\ DriveInv /\ [Next]_vars =>
        [\A s \in Servo : ~torque[s] /\ torque'[s] => phase \in {"on", "configure"}]_vars
  BY DriveSafe
<1> QED
  BY <1>1, <1>2, <1>3, PTL DEF Spec, NoTorqueByGoalWrite

-----------------------------------------------------------------------------
(* Servos without torque, whoever switched them on.                        *)

(* What a stop that may still be called clean has switched off so far.     *)
CleanInv ==
    op \in {"deactivate", "escalate"} /\ clean =>
      /\ phase = "off" => \A s \in Servo : s < i => ~torque[s]
      /\ phase = "clear" => \A s \in Servo : s <= i => ~torque[s]
      /\ phase = "end" /\ ~quiesced => \A s \in Servo : ~torque[s]

(* Passive feedback is granted over servos that were switched off, and no  *)
(* call that may switch one on starts with the permission in place.        *)
PassiveInv ==
    /\ At("passive", "off") => \A s \in Servo : s < i => ~torque[s]
    /\ At("passive", "check") => \A s \in Servo : ~torque[s]
    /\ passive => \A s \in Servo : ~torque[s]
    /\ passive => thread = "none"
    /\ passive => ~activated /\ op \in {"idle", "deactivate", "escalate"}
    /\ op = "passive" => thread = "none" /\ ~activated
    /\ op = "switch" => activated
    /\ verified => DriveModesClear
    /\ phase = "zero" => verified

OffInv == CleanInv /\ PassiveInv

(* No step but a goal write of a stop raises torque while passive feedback *)
(* is granted, and that one is made with the drive modes known to be clear.*)
LEMMA OffStep == TypeOK /\ OffInv /\ [Next]_vars => OffInv'
<1> SUFFICES ASSUME TypeOK, OffInv, Next PROVE OffInv'
  BY DEF OffInv, CleanInv, PassiveInv, DriveModesClear, At, vars, registers, config,
         silence, members, control
<1>0. RegisterTypes /\ MemberTypes /\ ControlTypes
  BY TypesSplit
<1> USE DEF registers, config, silence, members, control, At, Goto, JointsLeft, NextJoint, Return,
            Begin, Servo, DriveModesClear, OffInv, CleanInv, PassiveInv
<1>1. CASE ActivateBegin
  BY <1>0, <1>1 DEF ActivateBegin, PassiveAtActivation
<1>2. CASE Verify \/ Reverify
  <2>1. verified' => DriveModesClear
    BY <1>2, Zenon DEF Verify, Reverify, VerifyStep
  <2>2. UNCHANGED <<torque, goalUpdate, activated, passive, thread>> /\ op = "activate"
    BY <1>2 DEF Verify, Reverify, VerifyStep
  <2>3. \/ op' = op /\ phase' \in {"off", "check"}
        \/ op' = "release" /\ phase' \in {"zero", "off"} /\ (phase' = "zero" <=> verified')
    BY <1>2, ReleaseFacts DEF Verify, Reverify, VerifyStep
  <2> QED
    BY <2>1, <2>2, <2>3
<1>3. CASE ActivateTorqueOff
  BY <1>0, <1>3, FailFacts, OffFacts DEF ActivateTorqueOff
<1>4. CASE ActivateWatchdogClear
  BY <1>0, <1>4, FailFacts, WatchdogFacts DEF ActivateWatchdogClear
<1>5. CASE Program
  BY <1>0, <1>5, FailFacts DEF Program
<1>6. CASE Configure
  BY <1>0, <1>6, ReleaseFacts DEF Configure, VerifiedAfterConfigurator
<1>7. CASE Check
  BY <1>0, <1>7, FailFacts DEF Check
<1>8. CASE ReadPresent
  BY <1>0, <1>8, FailFacts DEF ReadPresent
<1>9. CASE GoalSnap
  BY <1>0, <1>9, FailFacts, GoalFacts DEF GoalSnap, Broadcast
<1>10. CASE ArmWatchdog
  BY <1>0, <1>10, FailFacts, WatchdogFacts DEF ArmWatchdog, Armed
<1>11. CASE Preload
  BY <1>0, <1>11, FailFacts, GoalFacts DEF Preload, Broadcast
<1>12. CASE TorqueOn
  BY <1>0, <1>12, FailFacts, OnFacts DEF TorqueOn
<1>13. CASE ReleaseZero
  BY <1>0, <1>13, GoalFacts DEF ReleaseZero
<1>14. CASE ReleaseTorqueOff
  BY <1>0, <1>14, OffFacts
  DEF ReleaseTorqueOff, ReleaseNext, StopConfirmed, ActiveAfterRelease
<1>15. CASE ReleaseClear
  BY <1>0, <1>15, WatchdogFacts DEF ReleaseClear, ReleaseNext, ActiveAfterRelease
<1>16. CASE StopThread
  BY <1>0, <1>16, GoalFacts DEF StopThread, JoinThread, Broadcast
<1>17. CASE DeactivateBegin
  BY <1>0, <1>17, GoalFacts
  DEF DeactivateBegin, JoinThread, Broadcast, StopLoops
<1>18. CASE EscalateBegin
  BY <1>0, <1>18, GoalFacts
  DEF EscalateBegin, JoinThread, Broadcast, StopLoops
<1>19. CASE DeactivateBroken
  BY <1>0, <1>19 DEF DeactivateBroken
<1>20. CASE DeactivateZero
  BY <1>0, <1>20, GoalFacts, NAssumption DEF DeactivateZero, Stopping
<1>21. CASE DeactivateTorqueOff
  <2>1. PICK o \in Outcomes :
          /\ WriteTorqueOff(o)
          /\ \/ zeroed[i] /\ o.ok /\ phase' = "clear" /\ UNCHANGED <<i, clean>>
             \/ NextStop /\ clean' = FALSE
    BY <1>21 DEF DeactivateTorqueOff, StopConfirmed
  <2>2. /\ op' = op /\ op \in {"deactivate", "escalate"} /\ phase = "off"
        /\ UNCHANGED <<goalUpdate, activated, verified, passive, thread>>
    BY <1>21, OffFacts DEF DeactivateTorqueOff, Stopping, NextStop
  <2>3. phase' # "zero" /\ \A s \in Servo : torque'[s] => torque[s]
    BY <2>1, <2>2, OffFacts DEF NextStop
  <2>4. PassiveInv'
    BY <2>2, <2>3
  <2>5. CASE clean' = FALSE
    BY <2>4, <2>5
  <2>6. CASE zeroed[i] /\ o.ok /\ phase' = "clear" /\ UNCHANGED <<i, clean>>
    <3>1. ~torque'[i]
      BY <2>1, <2>6, OffFacts, OutcomeFacts, <1>0 DEF RegisterTypes, WriteTorqueOff, ControlTypes
    <3>2. \A s \in Servo : clean => (s <= i => ~torque'[s])
      BY <1>0, <2>2, <2>3, <3>1 DEF ControlTypes
    <3> QED
      BY <2>2, <2>4, <2>6, <3>2
  <2> QED
    BY <2>1, <2>5, <2>6
<1>22. CASE DeactivateClear
  <2>1. /\ op' = op /\ op \in {"deactivate", "escalate"} /\ phase = "clear"
        /\ UNCHANGED <<torque, goalUpdate, activated, verified, passive, thread>>
        /\ (clean' => clean)
    BY <1>22, WatchdogFacts DEF DeactivateClear, Stopping, NextStop
  <2>2. \/ i < N /\ i' = i + 1 /\ phase' = "off"
        \/ ~(i < N) /\ i' = 1 /\ phase' = "end"
    BY <1>22 DEF DeactivateClear, NextStop
  <2>3. clean => \A s \in Servo : s <= i => ~torque[s]
    BY <2>1
  <2>4. PassiveInv'
    BY <2>1, <2>2
  <2> QED
    BY <1>0, <2>1, <2>2, <2>3, <2>4, NAssumption DEF ControlTypes
<1>23. CASE DeactivateEnd
  BY <1>0, <1>23 DEF DeactivateEnd, Stopping, CleanStop
<1>24. CASE SwitchBegin
  BY <1>0, <1>24 DEF SwitchBegin
<1>25. CASE SwitchRead
  BY <1>0, <1>25 DEF SwitchRead
<1>26. CASE SwitchTorqueOff
  BY <1>0, <1>26, FailFacts, OffFacts DEF SwitchTorqueOff
<1>27. CASE SwitchMode
  BY <1>0, <1>27, FailFacts DEF SwitchMode
<1>28. CASE SwitchGoals
  BY <1>0, <1>28, FailFacts, GoalFacts DEF SwitchGoals, Broadcast
<1>29. CASE SwitchTorqueOn
  BY <1>0, <1>29, FailFacts, OnFacts DEF SwitchTorqueOn
<1>30. CASE PassiveBegin
  BY <1>0, <1>30 DEF PassiveBegin
<1>31. CASE PassiveVerify
  BY <1>0, <1>31 DEF PassiveVerify
<1>32. CASE PassiveTorqueOff
  <2>1. PICK o \in Outcomes :
          WriteTorqueOff(o) /\ IF o.ok THEN NextJoint("check") ELSE Goto("end")
    BY <1>32 DEF PassiveTorqueOff
  <2>2. /\ op' = op /\ op = "passive" /\ phase = "off" /\ phase' # "zero"
        /\ \A s \in Servo : s < i => ~torque[s]
        /\ \A s \in Servo : torque'[s] => torque[s]
        /\ UNCHANGED <<goalUpdate, activated, verified, passive, thread>>
    BY <1>32, <2>1, OffFacts DEF PassiveTorqueOff
  <2>3. CASE o.ok
    <3>1. ~torque'[i]
      BY <2>1, <2>3, OffFacts, OutcomeFacts, <1>0 DEF RegisterTypes, WriteTorqueOff, ControlTypes
    <3>2. \A s \in Servo : s <= i => ~torque'[s]
      BY <1>0, <2>2, <3>1 DEF ControlTypes
    <3>3. \/ i < N /\ i' = i + 1 /\ phase' = phase
          \/ ~(i < N) /\ i' = 1 /\ phase' = "check"
      BY <2>1, <2>3
    <3> QED
      BY <1>0, <2>2, <3>2, <3>3, NAssumption DEF ControlTypes
  <2>4. CASE ~o.ok
    BY <2>1, <2>2, <2>4
  <2> QED
    BY <2>3, <2>4
<1>33. CASE PassiveRelease
  BY <1>0, <1>33, OffFacts DEF PassiveRelease
<1>34. CASE PassiveCheck
  BY <1>0, <1>34 DEF PassiveCheck
<1>35. CASE StartThread
  BY <1>0, <1>35 DEF StartThread
<1>36. CASE ThreadWrites
  BY <1>0, <1>36, GoalFacts DEF ThreadWrites, Broadcast
<1>37. CASE StagePreload
  BY <1>0, <1>37 DEF StagePreload
<1>38. CASE RequestQuiesce
  BY <1>0, <1>38 DEF RequestQuiesce
<1>39. CASE \E s \in Servo : Trip(s)
  BY <1>0, <1>39 DEF Trip
<1> QED
  BY <1>1, <1>2, <1>3, <1>4, <1>5, <1>6, <1>7, <1>8, <1>9, <1>10, <1>11, <1>12,
     <1>13, <1>14, <1>15, <1>16, <1>17, <1>18, <1>19, <1>20, <1>21, <1>22,
     <1>23, <1>24, <1>25, <1>26, <1>27, <1>28, <1>29, <1>30, <1>31, <1>32,
     <1>33, <1>34, <1>35, <1>36, <1>37, <1>38, <1>39
  DEF Next, Activation, Deactivation, Switch, Passive, Environment

(* The initial states and every step have the invariant.                   *)
LEMMA OffInvariance == Spec => [](TypeOK /\ OffInv)
<1>1. Init => TypeOK /\ OffInv
  <2> SUFFICES ASSUME Init PROVE OffInv
    BY TypeInit
  <2>1. /\ op = "idle" /\ phase = "none" /\ activated = FALSE
        /\ verified = FALSE /\ passive = FALSE
    BY DEF Init
  <2> QED
    BY <2>1 DEF OffInv, CleanInv, PassiveInv, At
<1>2. TypeOK /\ OffInv /\ [Next]_vars => (TypeOK /\ OffInv)'
  BY TypeStep, OffStep
<1> QED
  BY <1>1, <1>2, PTL DEF Spec

(* The two calls whose success says that the arm is limp return it only    *)
(* with every torque off, whoever had switched it on.                      *)
LEMMA ReturnsOff ==
    ASSUME TypeOK, OffInv, Next, result' \in {"clean", "limp"}, result' # result
    PROVE  \A s \in Servo : ~torque'[s]
<1> USE DEF At, Return, Begin
<1>1. DeactivateEnd \/ PassiveCheck
  <2>1. CASE Activation
    BY <2>1
    DEF Activation, ActivateBegin, Verify, Reverify, VerifyStep, ActivateTorqueOff,
        ActivateWatchdogClear, Program, Configure, Check, ReadPresent, GoalSnap,
        ArmWatchdog, Preload, TorqueOn, ReleaseZero, ReleaseTorqueOff,
        ReleaseClear, ReleaseNext
  <2>2. CASE Deactivation
    BY <2>2
    DEF Deactivation, StopThread, DeactivateBegin, EscalateBegin, StopLoops,
        DeactivateBroken, DeactivateZero, DeactivateTorqueOff, DeactivateClear,
        control
  <2>3. CASE Switch
    BY <2>3
    DEF Switch, SwitchBegin, SwitchRead, SwitchTorqueOff, SwitchMode, SwitchGoals,
        SwitchTorqueOn
  <2>4. CASE Passive
    BY <2>4
    DEF Passive, PassiveBegin, PassiveVerify, PassiveTorqueOff, PassiveRelease
  <2>5. CASE Environment
    BY <2>5
    DEF Environment, StartThread, ThreadWrites, StagePreload, RequestQuiesce, Trip,
        control
  <2> QED
    BY <2>1, <2>2, <2>3, <2>4, <2>5 DEF Next
<1>2. CASE DeactivateEnd
  <2>1. clean /\ ~quiesced /\ torque' = torque
    BY <1>2 DEF DeactivateEnd, CleanStop, registers
  <2> QED
    BY <1>2, <2>1 DEF DeactivateEnd, Stopping, OffInv, CleanInv
<1>3. CASE PassiveCheck
  BY <1>3 DEF PassiveCheck, OffInv, PassiveInv, registers
<1> QED
  BY <1>1, <1>2, <1>3

(* Behind a stop that is reported clean, and while passive feedback is     *)
(* permitted, no servo has torque, for every number of joints and whatever *)
(* a thrown-out configurator or an earlier program had switched on.        *)
THEOREM LimpMeansOff == Spec => LimpIsOff
<1>1. TypeOK /\ OffInv /\ OffInv' /\ [Next]_vars =>
        [passive' \/ (result' = "clean" /\ result' # result) =>
           \A s \in Servo : ~torque'[s]]_vars
  <2>1. OffInv' => (passive' => \A s \in Servo : ~torque'[s])
    BY DEF OffInv, PassiveInv
  <2> QED
    BY <2>1, ReturnsOff
<1> QED
  BY OffInvariance, <1>1, PTL DEF Spec, LimpIsOff

-----------------------------------------------------------------------------
(* ServoSession implements AbstractSession.                                *)

On == {s \in Servo : enabled[s]}

AbstractState == <<op # "idle", result, On, activated, thread, Silent>>

(* What it takes for a step to be a step of the abstract session.          *)
LEMMA IsTransaction ==
    ASSUME op # "idle", op' # "idle",
           UNCHANGED <<result, activated, thread, quiesced, portOpen>>,
           Silent => enabled' = enabled
    PROVE  Session!SessionNext
<1>1. Silent' = Silent /\ (Silent => On' = On)
  BY DEF Silent, On
<1>2. Session!Switches
  BY <1>1 DEF Session!Switches, On
<1>3. Session!Transaction
  BY <1>1, <1>2 DEF Session!Transaction
<1> QED
  BY <1>3 DEF Session!SessionNext

(* A call that begins.                                                     *)
LEMMA IsCall ==
    ASSUME op = "idle", op' # "idle", result' = "none",
           thread' \in {thread, "none"},
           UNCHANGED <<enabled, activated, quiesced, portOpen>>
    PROVE  Session!SessionNext
<1>1. Silent' = Silent /\ On' = On
  BY DEF Silent, On
<1>2. Session!Call
  BY <1>1 DEF Session!Call, On
<1> QED
  BY <1>2 DEF Session!SessionNext

(* A call that returns r.                                                  *)
LEMMA IsReturn ==
    ASSUME NEW r \in {"active", "refused", "released", "clean", "unclean",
                      "limp", "threw"},
           op # "idle" \/ r = "refused", op' = "idle", result' = r,
           Session!Promise(r),
           Silent => enabled' = enabled, Silent => Silent',
           thread' = thread \/ (thread = "running" /\ thread' = "exited")
    PROVE  Session!SessionNext
<1>1. Silent => On' = On
  BY DEF On
<1>2. Session!Switches
  BY <1>1 DEF Session!Switches, On
<1>3. Silent' \in {Silent, TRUE}
  BY Zenon DEF Silent
<1>4. Session!Return(r)
  BY <1>2, <1>3 DEF Session!Return
<1> QED
  BY <1>4 DEF Session!SessionNext, Session!Returns

(* A step the abstract session does not see.                               *)
LEMMA IsStutter ==
    ASSUME op # "idle" <=> op' # "idle",
           UNCHANGED <<result, enabled, activated, thread, quiesced, portOpen>>
    PROVE  UNCHANGED AbstractState
BY DEF AbstractState, On, Silent

(* The four kinds of result.                                               *)
LEMMA IsStopped ==
    ASSUME NEW r \in {"released", "unclean", "threw"},
           op # "idle", op' = "idle", result' = r, activated' = FALSE,
           Silent => enabled' = enabled, Silent => Silent',
           thread' = thread \/ (thread = "running" /\ thread' = "exited")
    PROVE  Session!SessionNext
<1>1. Session!Promise(r)
  BY DEF Session!Promise
<1> QED
  BY <1>1, IsReturn

(* A refusal.                                                              *)
LEMMA IsRefused ==
    ASSUME op' = "idle", result' = "refused",
           UNCHANGED <<activated, thread, quiesced, portOpen>>,
           \A s \in Servo : enabled'[s] => enabled[s],
           activated => \A s \in Servo : enabled'[s],
           Silent => enabled' = enabled
    PROVE  Session!SessionNext
<1>1. On' \subseteq On /\ (activated => On' = Servo)
  BY DEF On
<1>2. Session!Promise("refused")
  BY <1>1 DEF Session!Promise, On
<1>3. Silent => Silent'
  BY DEF Silent
<1> QED
  BY <1>2, <1>3, IsReturn

(* A completed activation or mode switch.                                  *)
LEMMA IsActive ==
    ASSUME op # "idle", op' = "idle", result' = "active", activated' = TRUE, ~Silent,
           UNCHANGED <<thread, quiesced, portOpen>>,
           \A s \in Servo : enabled'[s]
    PROVE  Session!SessionNext
<1>1. On' = Servo
  BY DEF On
<1>2. Session!Promise("active")
  BY <1>1 DEF Session!Promise, On
<1> QED
  BY <1>2, IsReturn

(* A clean deactivation, or a passive preparation.                         *)
LEMMA IsLimp ==
    ASSUME NEW r \in {"clean", "limp"},
           op # "idle", op' = "idle", result' = r, activated' = FALSE, ~Silent,
           thread' = thread \/ (thread = "running" /\ thread' = "exited"),
           \A s \in Servo : ~enabled'[s]
    PROVE  Session!SessionNext
<1>1. On' = {}
  BY DEF On
<1>2. Session!Promise(r)
  BY <1>1 DEF Session!Promise, On
<1> QED
  BY <1>2, IsReturn

(* Every step of the calls is one step of the abstract session or none.    *)
LEMMA RefinesStep ==
    ASSUME TypeOK, SafeInv, LimpInv, Next
    PROVE  Session!SessionNext \/ UNCHANGED AbstractState
<1>0. RegisterTypes /\ MemberTypes /\ ControlTypes
  BY TypesSplit
<1> USE DEF registers, config, silence, members, control, At, Goto, JointsLeft, NextJoint, Return,
            Begin, Stopping
<1>1. CASE ActivateBegin
  <2>1. ASSUME op' # "idle" PROVE Session!SessionNext
    BY <1>1, <2>1, IsCall DEF ActivateBegin
  <2>2. ASSUME op' = "idle" PROVE Session!SessionNext
    BY <1>1, <2>2, IsRefused DEF ActivateBegin
  <2> QED
    BY <2>1, <2>2
<1>2. CASE SwitchBegin
  BY <1>2, IsCall DEF SwitchBegin
<1>3. CASE PassiveBegin
  BY <1>3, IsCall DEF PassiveBegin
<1>4. CASE DeactivateBegin
  <2>1. enabled' = enabled /\ thread' \in {thread, "none"}
    BY <1>4, GoalFacts DEF DeactivateBegin, JoinThread, Broadcast
  <2> QED
    BY <1>4, <2>1, IsCall DEF DeactivateBegin, StopLoops, JoinThread
<1>5. CASE EscalateBegin
  <2>1. enabled' = enabled /\ thread' \in {thread, "none"}
    BY <1>5, GoalFacts DEF EscalateBegin, JoinThread, Broadcast
  <2> QED
    BY <1>5, <2>1, IsCall DEF EscalateBegin, StopLoops, JoinThread
<1>6. CASE Verify
  BY <1>6, FailFacts, ReleaseFacts, IsTransaction DEF Verify, VerifyStep
<1>7. CASE Reverify
  BY <1>7, FailFacts, ReleaseFacts, IsTransaction DEF Reverify, VerifyStep
<1>8. CASE ActivateTorqueOff
  BY <1>8, OutcomeFacts, OffFacts, FailFacts, ReleaseFacts, IsTransaction
  DEF ActivateTorqueOff
<1>9. CASE ActivateWatchdogClear
  BY <1>9, OutcomeFacts, WatchdogFacts, FailFacts, ReleaseFacts, IsTransaction
  DEF ActivateWatchdogClear
<1>10. CASE Program
  BY <1>10, FailFacts, ReleaseFacts, IsTransaction DEF Program
<1>11. CASE Configure
  <2>0. /\ op = "activate" /\ enabled' = enabled /\ activated' = activated
        /\ UNCHANGED <<thread, quiesced, portOpen>>
    BY <1>11 DEF Configure
  <2>1. ASSUME op' # "idle" PROVE Session!SessionNext
    BY <1>11, <2>1, FailFacts, ReleaseFacts, IsTransaction DEF Configure
  <2>2. ASSUME op' = "idle" PROVE Session!SessionNext
    <3>1. result' = "threw"
      BY <1>11, <2>2, ReleaseFacts DEF Configure
    <3>2. activated' = FALSE
      BY <1>0, <2>0 DEF SafeInv, ActiveInv, MemberTypes
    <3> QED
      BY <2>0, <2>2, <3>1, <3>2, IsStopped DEF Silent
  <2> QED
    BY <2>1, <2>2
<1>12. CASE Check
  BY <1>12, FailFacts, ReleaseFacts, IsTransaction DEF Check
<1>13. CASE ReadPresent
  BY <1>13, FailFacts, ReleaseFacts, IsTransaction DEF ReadPresent
<1>14. CASE GoalSnap
  BY <1>14, GoalFacts, FailFacts, ReleaseFacts, IsTransaction
  DEF GoalSnap, Broadcast
<1>15. CASE Preload
  BY <1>15, GoalFacts, FailFacts, ReleaseFacts, IsTransaction
  DEF Preload, Broadcast
<1>16. CASE SwitchGoals
  BY <1>16, GoalFacts, FailFacts, ReleaseFacts, IsTransaction
  DEF SwitchGoals, Broadcast
<1>17. CASE ArmWatchdog
  BY <1>17, OutcomeFacts, WatchdogFacts, FailFacts, ReleaseFacts,
     IsTransaction
  DEF ArmWatchdog
<1>18. CASE TorqueOn
  <2>0. PICK o \in Outcomes : WriteTorqueOn(o) /\ (~o.ok => Fail)
                             /\ (o.ok => zeroed' = zeroed)
    BY <1>18 DEF TorqueOn
  <2>1. ASSUME op' # "idle" PROVE Session!SessionNext
    BY <1>18, <2>0, <2>1, OutcomeFacts, OnFacts, IsTransaction DEF TorqueOn
  <2>2. ASSUME op' = "idle" PROVE Session!SessionNext
    <3>1. ~JointsLeft /\ result' = "active" /\ activated' = TRUE
          /\ UNCHANGED <<thread, quiesced, portOpen>> /\ op # "idle"
      BY <1>18, <2>2, FailFacts DEF TorqueOn, SafeInv, ActiveInv, MemberTypes
    <3>2. o.ok
      BY <2>0, <2>2, FailFacts
    <3>3. ~Silent /\ i = N
      BY <3>1, <3>2, <1>0, OutcomeFacts, NAssumption DEF ControlTypes, Servo
    <3>4. \A s \in Servo : enabled'[s]
      BY <1>18, <2>0, <3>2, <3>3, OutcomeFacts, OnFacts, NAssumption
      DEF TorqueOn, SafeInv, ArmInv, Servo
    <3> QED
      BY <2>2, <3>1, <3>3, <3>4, IsActive
  <2> QED
    BY <2>1, <2>2
<1>19. CASE SwitchTorqueOn
  <2>0. PICK o \in Outcomes : WriteTorqueOn(o) /\ (~o.ok => Fail)
                             /\ (o.ok => zeroed' = zeroed)
    BY <1>19 DEF SwitchTorqueOn
  <2>1. ASSUME op' # "idle" PROVE Session!SessionNext
    BY <1>19, <2>0, <2>1, OutcomeFacts, OnFacts, IsTransaction
    DEF SwitchTorqueOn
  <2>2. ASSUME op' = "idle" PROVE Session!SessionNext
    <3>1. ~JointsLeft /\ result' = "active" /\ activated' = TRUE
          /\ UNCHANGED <<thread, quiesced, portOpen>> /\ op # "idle"
      BY <1>19, <2>2, FailFacts
      DEF SwitchTorqueOn, SafeInv, ActiveInv, MemberTypes
    <3>2. o.ok
      BY <2>0, <2>2, FailFacts
    <3>3. ~Silent /\ i = N
      BY <3>1, <3>2, <1>0, OutcomeFacts, NAssumption DEF ControlTypes, Servo
    <3>4. \A s \in Servo : enabled'[s]
      BY <1>19, <2>0, <3>2, <3>3, OutcomeFacts, OnFacts, NAssumption
      DEF SwitchTorqueOn, SafeInv, ArmInv, Servo
    <3> QED
      BY <2>2, <3>1, <3>3, <3>4, IsActive
  <2> QED
    BY <2>1, <2>2
<1>20. CASE ReleaseZero
  BY <1>20, OutcomeFacts, GoalFacts, IsTransaction DEF ReleaseZero
<1>21. CASE ReleaseTorqueOff
  <2>0. (Silent => enabled' = enabled) /\ UNCHANGED <<thread, quiesced, portOpen>>
        /\ op = "release"
    BY <1>21, OutcomeFacts, OffFacts DEF ReleaseTorqueOff
  <2>1. ASSUME op' # "idle" PROVE Session!SessionNext
    BY <1>21, <2>0, <2>1, IsTransaction DEF ReleaseTorqueOff, ReleaseNext
  <2>2. ASSUME op' = "idle" PROVE Session!SessionNext
    <3>1. result' = "released" /\ activated' = FALSE
      BY <1>21, <2>0, <2>2 DEF ReleaseTorqueOff, ReleaseNext, ActiveAfterRelease
    <3> QED
      BY <2>0, <2>2, <3>1, IsStopped DEF Silent
  <2> QED
    BY <2>1, <2>2
<1>22. CASE ReleaseClear
  <2>0. (Silent => enabled' = enabled) /\ UNCHANGED <<thread, quiesced, portOpen>>
        /\ op = "release"
    BY <1>22, OutcomeFacts, WatchdogFacts DEF ReleaseClear
  <2>1. ASSUME op' # "idle" PROVE Session!SessionNext
    BY <1>22, <2>0, <2>1, IsTransaction DEF ReleaseClear, ReleaseNext
  <2>2. ASSUME op' = "idle" PROVE Session!SessionNext
    <3>1. result' = "released" /\ activated' = FALSE
      BY <1>22, <2>0, <2>2 DEF ReleaseClear, ReleaseNext, ActiveAfterRelease
    <3> QED
      BY <2>0, <2>2, <3>1, IsStopped DEF Silent
  <2> QED
    BY <2>1, <2>2
<1>23. CASE StopThread
  <2>1. enabled' = enabled
    BY <1>23, GoalFacts DEF StopThread, JoinThread, Broadcast
  <2>2. On' = On /\ Silent' = Silent
    BY <1>23, <2>1 DEF StopThread, On, Silent
  <2>3. Session!ThreadJoined
    BY <1>23, <2>2 DEF StopThread, JoinThread, Session!ThreadJoined, On
  <2> QED
    BY <2>3 DEF Session!SessionNext
<1>24. CASE DeactivateBroken
  BY <1>24, IsTransaction DEF DeactivateBroken
<1>25. CASE DeactivateZero
  BY <1>25, OutcomeFacts, GoalFacts, IsTransaction DEF DeactivateZero
<1>26. CASE DeactivateTorqueOff
  BY <1>26, OutcomeFacts, OffFacts, IsTransaction
  DEF DeactivateTorqueOff, NextStop
<1>27. CASE DeactivateClear
  BY <1>27, OutcomeFacts, WatchdogFacts, IsTransaction
  DEF DeactivateClear, NextStop
<1>28. CASE DeactivateEnd
  <2>1. /\ op # "idle" /\ op' = "idle" /\ activated' = FALSE
        /\ enabled' = enabled /\ (Silent => Silent')
        /\ thread' = thread \/ (thread = "running" /\ thread' = "exited")
    BY <1>28 DEF DeactivateEnd, Silent
  <2>2. CASE CleanStop
    <3>1. result' = "clean" /\ ~Silent /\ \A s \in Servo : ~enabled'[s]
      BY <1>28, <2>1, <2>2 DEF DeactivateEnd, CleanStop, LimpInv, Silent
    <3> QED
      BY <2>1, <3>1, IsLimp
  <2>3. CASE ~CleanStop
    <3>1. result' = "unclean"
      BY <1>28, <2>3 DEF DeactivateEnd
    <3> QED
      BY <2>1, <3>1, IsStopped
  <2> QED
    BY <2>2, <2>3
<1>29. CASE SwitchRead
  <2>1. ASSUME op' # "idle" PROVE Session!SessionNext
    BY <1>29, <2>1, IsTransaction DEF SwitchRead
  <2>2. ASSUME op' = "idle" PROVE Session!SessionNext
    BY <1>29, <2>2, IsRefused DEF SwitchRead, SafeInv, ActiveInv
  <2> QED
    BY <2>1, <2>2
<1>30. CASE SwitchTorqueOff
  BY <1>30, OutcomeFacts, OffFacts, FailFacts, ReleaseFacts, IsTransaction
  DEF SwitchTorqueOff
<1>31. CASE SwitchMode
  BY <1>31, FailFacts, ReleaseFacts, IsTransaction DEF SwitchMode
<1>32. CASE PassiveVerify
  <2>1. ASSUME op' # "idle" PROVE Session!SessionNext
    BY <1>32, <2>1, IsTransaction DEF PassiveVerify
  <2>2. ASSUME op' = "idle" PROVE Session!SessionNext
    BY <1>32, <2>2, IsRefused DEF PassiveVerify, SafeInv, ActiveInv
  <2> QED
    BY <2>1, <2>2
<1>33. CASE PassiveTorqueOff
  BY <1>33, OutcomeFacts, OffFacts, IsTransaction DEF PassiveTorqueOff
<1>34. CASE PassiveRelease
  <2>1. PICK o \in Outcomes : WriteTorqueOff(o)
    BY <1>34 DEF PassiveRelease
  <2>2. /\ Silent => enabled' = enabled
        /\ \A s \in Servo : enabled'[s] => enabled[s]
        /\ ~activated
    BY <1>34, <2>1, OutcomeFacts, OffFacts
    DEF PassiveRelease, SafeInv, ActiveInv
  <2>3. ASSUME op' # "idle" PROVE Session!SessionNext
    BY <1>34, <2>2, <2>3, IsTransaction DEF PassiveRelease
  <2>4. ASSUME op' = "idle" PROVE Session!SessionNext
    BY <1>34, <2>2, <2>4, IsRefused DEF PassiveRelease
  <2> QED
    BY <2>3, <2>4
<1>35. CASE PassiveCheck
  <2>1. op = "passive" /\ ~activated /\ activated' = FALSE /\ enabled' = enabled
        /\ UNCHANGED <<thread, quiesced, portOpen>>
        /\ \A s \in Servo : ~enabled[s]
    BY <1>35, <1>0 DEF PassiveCheck, SafeInv, ActiveInv, LimpInv, MemberTypes
  <2>2. CASE op' # "idle"
    BY <1>35, <2>1, <2>2, IsTransaction DEF PassiveCheck
  <2>3. CASE op' = "idle" /\ result' = "refused"
    <3>1. /\ \A s \in Servo : enabled'[s] => enabled[s]
          /\ activated => \A s \in Servo : enabled'[s]
          /\ activated' = activated
      BY <1>35, <2>1 DEF PassiveCheck
    <3> QED
      BY <2>1, <2>3, <3>1, IsRefused
  <2>4. CASE op' = "idle" /\ result' = "limp" /\ ~Silent
    BY <2>1, <2>4, IsLimp
  <2> QED
    BY <1>35, <2>2, <2>3, <2>4 DEF PassiveCheck
<1>36. CASE StartThread
  <2>1. On' = On /\ Silent' = Silent
    BY <1>36 DEF StartThread, On, Silent
  <2>2. Session!ThreadStarts
    BY <1>36, <2>1 DEF StartThread, Session!ThreadStarts, On
  <2> QED
    BY <2>2 DEF Session!SessionNext
<1>37. CASE ThreadWrites
  BY <1>37, GoalFacts, IsStutter DEF ThreadWrites, Broadcast
<1>38. CASE StagePreload
  BY <1>38, IsStutter DEF StagePreload
<1>39. CASE \E s \in Servo : Trip(s)
  BY <1>39, IsStutter DEF Trip
<1>40. CASE RequestQuiesce
  <2>1. On' = On /\ Silent' = TRUE
    BY <1>40 DEF RequestQuiesce, On, Silent
  <2>2. Session!Silenced
    BY <1>40, <2>1 DEF RequestQuiesce, Session!Silenced, On
  <2> QED
    BY <2>2 DEF Session!SessionNext
<1> QED
  BY <1>1, <1>2, <1>3, <1>4, <1>5, <1>6, <1>7, <1>8, <1>9, <1>10, <1>11, <1>12,
     <1>13, <1>14, <1>15, <1>16, <1>17, <1>18, <1>19, <1>20, <1>21, <1>22, <1>23, <1>24,
     <1>25, <1>26, <1>27, <1>28, <1>29, <1>30, <1>31, <1>32, <1>33, <1>34, <1>35, <1>36,
     <1>37, <1>38, <1>39, <1>40
  DEF Next, Activation, Deactivation, Switch, Passive, Environment

(* With the transactions forgotten, the calls keep the promises of         *)
(* crane_x7.hpp: "active" only with every servo switched on, "clean" and   *)
(* "limp" only with none left on, a refusal leaves the arm as it was, and  *)
(* nothing but a call or an escalation changes the session; for every      *)
(* number of joints and every set of modes.                                *)
THEOREM Refinement == Spec => ImplementsSession
<1>1. Init => Session!SessionInit
  <2> SUFFICES ASSUME Init PROVE Session!SessionInit
    OBVIOUS
  <2>1. /\ op = "idle" /\ result = "none" /\ activated = FALSE /\ thread = "none"
        /\ quiesced = FALSE /\ portOpen = TRUE
        /\ \A s \in Servo : ~enabled[s]
    BY DEF Init
  <2>2. On = {} /\ Silent = FALSE
    BY <2>1 DEF On, Silent
  <2>3. (op # "idle") = FALSE
    BY <2>1
  <2> QED
    BY <2>1, <2>2, <2>3 DEF Session!SessionInit, On
<1>2. ASSUME IInv, [Next]_vars PROVE Session!SessionNext \/ UNCHANGED AbstractState
  <2>1. CASE Next
    BY <1>2, <2>1, RefinesStep DEF IInv
  <2>2. CASE UNCHANGED vars
    BY <2>2
    DEF vars, registers, silence, members, control, AbstractState, On, Silent
  <2> QED
    BY <1>2, <2>1, <2>2
<1>3. IInv /\ [Next]_vars => [Session!SessionNext]_Session!sessionVars
  BY <1>2 DEF Session!sessionVars, AbstractState, On
<1> QED
  BY <1>1, <1>3, Invariance, PTL
  DEF Spec, ImplementsSession, Session!SessionSpec
=============================================================================
