---------------------------- MODULE ServoSession ----------------------------
(***************************************************************************)
(* The servo side of src/hw/crane_x7.cpp: what activate(), deactivate(),   *)
(* bestEffortRelease(), switchToCurrentModeWithPreload() and               *)
(* preparePassiveFeedback() do to the servos' registers, one bus           *)
(* transaction per action, when any transaction may fail, a servo's Bus    *)
(* Watchdog may trip and requestQuiesce() may land between any two.        *)
(*                                                                         *)
(* One call of the API runs at a time (crane_x7.hpp: deactivate() and      *)
(* escalate() "must never be entered concurrently"); requestQuiesce() is   *)
(* the exception.  The background thread appears as what it does to the    *)
(* servos: goal writes while it runs, and its own escalation.  Joints are  *)
(* visited in order, so a servo is its index.                              *)
(***************************************************************************)
EXTENDS Naturals

CONSTANTS
    N,                 \* number of joints
    Modes,             \* operating modes the configuration may ask for
    JoinsFirst         \* the caller joins an escalated thread (stopThread or
                       \* deactivate) before it activates again

ASSUME NAssumption == N \in Nat \ {0}
ASSUME ModesAssumption == Modes \subseteq {"position", "velocity", "current"}
ASSUME JoinsFirstAssumption == JoinsFirst \in BOOLEAN

Servo == 1..N

VARIABLES
    \* external: registers of the servos
    torque,        \* Torque Enable
    watchdog,      \* Bus Watchdog: "off", "armed", "tripped" (reads 0xFF)
    goal,          \* what the goal registers hold
    goalUpdate,    \* Drive Mode bit 3, Torque On by Goal Update
    \* members of CraneX7
    mode,          \* joints[*].operating_mode
    configurator,  \* an activation_configurator is installed
    activated,     \* activated_
    verified,      \* drive_modes_verified_
    passive,       \* passive_feedback_ready_
    preload,       \* preload_amps_ is not empty
    quiesced,      \* quiesced_
    portOpen,      \* FALSE once the caller's onEscalate hook closed the port
    thread,        \* thread_: "none", "running", "exited" (still joinable)
    \* the call in progress
    op, phase, i,  \* which call, where in it, at which joint
    zeroed,        \* deactivate()'s zeroed[], bestEffortRelease()'s zeroed
    clean,         \* deactivate()'s ok
    result,        \* what the last finished call returned
    enabled        \* history: servos this program's torque-on write reached

registers == <<torque, watchdog, goal, goalUpdate, enabled>>
config == <<mode, configurator>>
silence == <<quiesced, portOpen>>
members == <<activated, verified, passive, preload, silence, thread>>
control == <<op, phase, i, zeroed, clean, result>>
vars == <<registers, config, members, control>>

Ops == {"idle", "activate", "release", "deactivate", "escalate", "switch",
        "passive"}

Phases == {"none", "verify", "off", "clear", "program", "configure",
           "reverify", "check", "read", "snap", "arm", "preload", "on",
           "join", "zero", "end", "mode"}

Results == {"none", "active", "refused", "released", "clean", "unclean",
            "limp", "threw"}

TypeOK ==
    /\ torque \in [Servo -> BOOLEAN]
    /\ watchdog \in [Servo -> {"off", "armed", "tripped"}]
    /\ goal \in [Servo -> {"foreign", "present", "preload", "command", "zero"}]
    /\ goalUpdate \in [Servo -> BOOLEAN]
    /\ enabled \in [Servo -> BOOLEAN]
    /\ mode \in {"position", "velocity", "current"}
    /\ configurator \in BOOLEAN
    /\ activated \in BOOLEAN
    /\ verified \in BOOLEAN
    /\ passive \in BOOLEAN
    /\ preload \in BOOLEAN
    /\ quiesced \in BOOLEAN
    /\ portOpen \in BOOLEAN
    /\ thread \in {"none", "running", "exited"}
    /\ op \in Ops
    /\ phase \in Phases
    /\ i \in Servo
    /\ zeroed \in [Servo -> BOOLEAN]
    /\ clean \in BOOLEAN
    /\ result \in Results
    /\ op = "idle" <=> phase = "none"

(* The servos are in whatever state the previous program left them. *)
Init ==
    /\ torque \in [Servo -> BOOLEAN]
    /\ watchdog \in [Servo -> {"off", "armed", "tripped"}]
    /\ goal = [s \in Servo |-> "foreign"]
    /\ goalUpdate \in [Servo -> BOOLEAN]
    /\ enabled = [s \in Servo |-> FALSE]
    /\ mode \in Modes
    /\ configurator \in BOOLEAN
    /\ activated = FALSE
    /\ verified = FALSE
    /\ passive = FALSE
    /\ preload = FALSE
    /\ quiesced = FALSE
    /\ portOpen = TRUE
    /\ thread = "none"
    /\ op = "idle"
    /\ phase = "none"
    /\ i = 1
    /\ zeroed = [s \in Servo |-> FALSE]
    /\ clean = TRUE
    /\ result = "none"

-----------------------------------------------------------------------------
(* The bus.                                                                *)

(* Once quiesced, or closed, the transport refuses every transmission. *)
Silent == quiesced \/ ~portOpen

(* One instruction: applied says whether the servo executed it, ok whether *)
(* the host knows.  A lost status reply leaves the host not knowing.       *)
Acked   == [applied |-> TRUE, ok |-> TRUE]
Unacked == [applied |-> TRUE, ok |-> FALSE]
Lost    == [applied |-> FALSE, ok |-> FALSE]
Outcomes == IF Silent THEN {Lost} ELSE {Acked, Unacked, Lost}

WriteTorqueOff(o) ==
    /\ torque' = [torque EXCEPT ![i] = @ /\ ~o.applied]
    /\ enabled' = [enabled EXCEPT ![i] = @ /\ ~o.applied]
    /\ UNCHANGED <<watchdog, goal, goalUpdate>>

WriteTorqueOn(o) ==
    /\ torque' = [torque EXCEPT ![i] = @ \/ o.applied]
    /\ enabled' = [enabled EXCEPT ![i] = @ \/ o.applied]
    /\ UNCHANGED <<watchdog, goal, goalUpdate>>

(* Only writing 0 clears a trip. *)
WriteWatchdog(o, value) ==
    /\ watchdog' = [watchdog EXCEPT ![i] =
                      IF ~o.applied \/ (value = "armed" /\ @ = "tripped")
                        THEN @ ELSE value]
    /\ UNCHANGED <<torque, goal, goalUpdate, enabled>>

(* A goal write reaches the servos in S.  A servo whose watchdog tripped   *)
(* rejects it; one with Torque On by Goal Update switches its torque on.   *)
WriteGoals(S, value) ==
    LET takes == {s \in S : watchdog[s] # "tripped"}
    IN  /\ goal' = [s \in Servo |-> IF s \in takes THEN value ELSE goal[s]]
        /\ torque' = [s \in Servo |-> torque[s] \/ (s \in takes /\ goalUpdate[s])]
        /\ UNCHANGED <<watchdog, goalUpdate, enabled>>

(* A group write is a broadcast: it is sent or not, nobody acknowledges    *)
(* it, and each servo may miss it.                                         *)
Broadcast(sent, S, value) ==
    /\ S \subseteq Servo
    /\ Silent => ~sent
    /\ ~sent => S = {}
    /\ WriteGoals(S, value)

-----------------------------------------------------------------------------
(* Control flow of the calls.                                              *)

At(o, p) == op = o /\ phase = p

Goto(p) == phase' = p /\ i' = 1 /\ op' = op

JointsLeft == i < N

NextJoint(p) ==
    IF JointsLeft THEN i' = i + 1 /\ UNCHANGED <<op, phase>> ELSE Goto(p)

Return(r) ==
    /\ op' = "idle" /\ phase' = "none" /\ i' = 1
    /\ result' = r

Begin(o, p) ==
    /\ op = "idle"
    /\ op' = o /\ phase' = p /\ i' = 1
    /\ result' = "none"

(* A failing step of activate() or of the mode switch: bestEffortRelease, *)
(* which writes zero goals only while the Drive Modes are verified.        *)
Release(goalsSafe) ==
    /\ op' = "release" /\ i' = 1
    /\ phase' = IF goalsSafe THEN "zero" ELSE "off"
    /\ zeroed' = [s \in Servo |-> ~goalsSafe]

Fail == Release(verified)

-----------------------------------------------------------------------------
(* activate() and activateSteps().                                         *)

(* Fault: an activation keeps the permission of passive feedback. *)
FaultPassiveAtActivation == passive

PassiveAtActivation == FALSE

(* The option checks touch no bus: a refusal has nothing to release. *)
ActivateBegin ==
    /\ ~activated
    /\ JoinsFirst => thread # "exited"
    /\ \/ Begin("activate", "verify")
       \/ op = "idle" /\ Return("refused")
    /\ passive' = PassiveAtActivation
    /\ verified' = FALSE
    /\ UNCHANGED <<registers, config, activated, preload, silence, thread,
                   zeroed, clean>>

(* verifyServos, verifyDriveModes and the read-only bus profile, before    *)
(* any write and again after the configurator; next is where the sequence  *)
(* goes on.                                                                *)
DriveModesClear == \A s \in Servo : ~goalUpdate[s]

VerifyStep(at, next) ==
    /\ At("activate", at)
    /\ \/ /\ ~Silent
          /\ DriveModesClear
          /\ verified' = TRUE
          /\ Goto(next)
          /\ UNCHANGED zeroed
       \/ \* verifyServos, a read, or (after the drive modes) the profile fails
          /\ verified' \in {verified, verified \/ (DriveModesClear /\ ~Silent)}
          /\ Release(verified')
    /\ UNCHANGED <<registers, config, activated, passive, preload, silence,
                   thread, clean, result>>

Verify == VerifyStep("verify", "off")
Reverify == VerifyStep("reverify", "check")

ActivateTorqueOff ==
    /\ At("activate", "off")
    /\ \E o \in Outcomes :
         /\ WriteTorqueOff(o)
         /\ IF o.ok THEN phase' = "clear" /\ UNCHANGED <<op, i, zeroed>> ELSE Fail
    /\ UNCHANGED <<config, members, clean, result>>

ActivateWatchdogClear ==
    /\ At("activate", "clear")
    /\ \E o \in Outcomes :
         /\ WriteWatchdog(o, "off")
         /\ IF ~o.ok
              THEN Fail
              ELSE /\ IF JointsLeft THEN i' = i + 1 /\ phase' = "off" /\ op' = op
                               ELSE Goto("program")
                   /\ UNCHANGED zeroed
    /\ UNCHANGED <<config, members, clean, result>>

(* setupIndirect, the operating-mode writes, which reset a servo's goals,  *)
(* and the position P gain.                                                *)
Program ==
    /\ At("activate", "program")
    /\ \E reset \in SUBSET Servo :
         /\ Silent => reset = {}
         /\ goal' = [s \in Servo |-> IF s \in reset THEN "present" ELSE goal[s]]
         /\ \/ /\ ~Silent /\ reset = Servo
               /\ Goto(IF configurator THEN "configure" ELSE "check")
               /\ UNCHANGED zeroed
            \/ Fail
    /\ UNCHANGED <<torque, watchdog, goalUpdate, enabled, config, members, clean,
                   result>>

(* Fault: the verification made before the configurator is kept. *)
FaultVerifiedAfterConfigurator == verified

VerifiedAfterConfigurator == FALSE

(* The caller's activation_configurator: it may rewrite Drive Mode or      *)
(* enable torque, and it may succeed, fail or throw.                       *)
Configure ==
    /\ At("activate", "configure")
    /\ verified' = VerifiedAfterConfigurator
    /\ IF Silent
         THEN UNCHANGED <<torque, goalUpdate>>
         ELSE /\ goalUpdate' \in [Servo -> BOOLEAN]
              /\ torque' \in {t \in [Servo -> BOOLEAN] :
                                \A s \in Servo : torque[s] => t[s]}
    /\ \/ ~Silent /\ Goto("reverify") /\ UNCHANGED <<zeroed, result>>
       \/ Release(verified') /\ UNCHANGED result
       \/ Return("threw") /\ UNCHANGED zeroed
    /\ UNCHANGED <<watchdog, goal, enabled, config, activated, passive, preload,
                   silence, thread, clean>>

(* Torque must read 0 on every servo; the limits are read along with it. *)
Check ==
    /\ At("activate", "check")
    /\ \/ ~Silent /\ ~torque[i] /\ NextJoint("read") /\ UNCHANGED zeroed
       \/ Fail
    /\ UNCHANGED <<registers, config, members, clean, result>>

ReadPresent ==
    /\ At("activate", "read")
    /\ \/ ~Silent /\ Goto("snap") /\ UNCHANGED zeroed
       \/ Fail
    /\ UNCHANGED <<registers, config, members, clean, result>>

GoalSnap ==
    /\ At("activate", "snap")
    /\ \E sent \in BOOLEAN, S \in SUBSET Servo :
         /\ Broadcast(sent, S, "present")
         /\ IF sent THEN Goto("arm") /\ UNCHANGED zeroed ELSE Fail
    /\ UNCHANGED <<config, members, clean, result>>

(* With the bounded read, armBoundedRead's read-back may fail after the     *)
(* last joint: to the program that is an unacknowledged arming.            *)

(* Fault: the arming write is not checked. *)
FaultArmed(o) == TRUE

Armed(o) == o.ok

ArmWatchdog ==
    /\ At("activate", "arm")
    /\ \E o \in Outcomes :
         /\ WriteWatchdog(o, "armed")
         /\ IF Armed(o)
              THEN NextJoint(IF preload THEN "preload" ELSE "on") /\ UNCHANGED zeroed
              ELSE Fail
    /\ UNCHANGED <<config, members, clean, result>>

(* The preload needs current mode on every joint and no clipping. *)
Preload ==
    /\ At("activate", "preload")
    /\ \E sent \in BOOLEAN, S \in SUBSET Servo :
         /\ sent => mode = "current"
         /\ Broadcast(sent, S, "preload")
         /\ IF sent THEN Goto("on") /\ UNCHANGED zeroed ELSE Fail
    /\ UNCHANGED <<config, members, clean, result>>

TorqueOn ==
    /\ At("activate", "on")
    /\ \E o \in Outcomes :
         /\ WriteTorqueOn(o)
         /\ IF ~o.ok
              THEN Fail /\ UNCHANGED <<activated, result>>
              ELSE /\ UNCHANGED zeroed
                   /\ IF JointsLeft
                        THEN /\ i' = i + 1
                             /\ UNCHANGED <<op, phase, activated, result>>
                        ELSE Return("active") /\ activated' = TRUE
    /\ UNCHANGED <<config, verified, passive, preload, silence, thread, clean>>

-----------------------------------------------------------------------------
(* bestEffortRelease().                                                    *)

ReleaseZero ==
    /\ At("release", "zero")
    /\ \E o \in Outcomes :
         /\ WriteGoals(IF o.applied THEN {i} ELSE {}, "zero")
         /\ zeroed' = [zeroed EXCEPT ![i] = o.ok /\ watchdog[i] # "tripped"]
    /\ phase' = "off"
    /\ UNCHANGED <<op, i, config, members, clean, result>>

(* Fault: the watchdog is cleared whether or not the stop was confirmed. *)
FaultStopAssumed(zeroOk, offOk) == zeroOk \in BOOLEAN /\ offOk \in BOOLEAN

(* Only a confirmed zero (when one is written) and a confirmed torque-off  *)
(* let the watchdog, the servo's last protection, be cleared.              *)
StopConfirmed(zeroOk, offOk) == zeroOk /\ offOk

ActiveAfterRelease == FALSE

ReleaseNext ==
    IF JointsLeft
      THEN /\ i' = i + 1 /\ op' = op
           /\ phase' = IF verified THEN "zero" ELSE "off"
           /\ UNCHANGED <<activated, result>>
      ELSE Return("released") /\ activated' = ActiveAfterRelease

ReleaseTorqueOff ==
    /\ At("release", "off")
    /\ \E o \in Outcomes :
         /\ WriteTorqueOff(o)
         /\ IF StopConfirmed(zeroed[i], o.ok)
              THEN phase' = "clear" /\ UNCHANGED <<op, i, activated, result>>
              ELSE ReleaseNext
    /\ UNCHANGED <<config, verified, passive, preload, silence, thread, zeroed,
                   clean>>

ReleaseClear ==
    /\ At("release", "clear")
    /\ \E o \in Outcomes : WriteWatchdog(o, "off")
    /\ ReleaseNext
    /\ UNCHANGED <<config, verified, passive, preload, silence, thread, zeroed,
                   clean>>

Activation ==
    \/ ActivateBegin \/ Verify \/ Reverify \/ ActivateTorqueOff
    \/ ActivateWatchdogClear \/ Program \/ Configure \/ Check \/ ReadPresent
    \/ GoalSnap \/ ArmWatchdog \/ Preload \/ TorqueOn
    \/ ReleaseZero \/ ReleaseTorqueOff \/ ReleaseClear

-----------------------------------------------------------------------------
(* stopThread() and deactivate().                                          *)

(* The part of stopThread after the join: a thread that ran, or still      *)
(* waits to be joined, is followed by a zero goal in the modes that move   *)
(* on one.  Nothing here looks at drive_modes_verified_.                   *)
JoinThread ==
    /\ IF thread # "none" /\ ~quiesced /\ mode \in {"velocity", "current"}
         THEN \E sent \in BOOLEAN, S \in SUBSET Servo : Broadcast(sent, S, "zero")
         ELSE UNCHANGED registers
    /\ thread' = "none"

StopThread ==
    /\ op = "idle"
    /\ thread # "none"
    /\ JoinThread
    /\ UNCHANGED <<config, activated, verified, passive, preload, silence,
                   control>>

(* deactivate() up to its loops; stopThread called from the thread itself  *)
(* only signals.                                                           *)
StopLoops(o) ==
    /\ Begin(o, IF verified THEN "zero" ELSE "off")
    /\ preload' = FALSE
    /\ zeroed' = [s \in Servo |-> ~verified]
    /\ clean' = TRUE
    /\ UNCHANGED <<config, activated, verified, passive, silence>>

DeactivateBegin == StopLoops("deactivate") /\ JoinThread

(* escalate(): by the thread itself, on its deadman or a failing bus, or   *)
(* by the application, which joins like deactivate().                      *)
EscalateBegin ==
    /\ StopLoops("escalate")
    /\ \/ thread = "running" /\ UNCHANGED <<registers, thread>>
       \/ JoinThread

Stopping(p) == op \in {"deactivate", "escalate"} /\ phase = p

(* The flag is re-checked between transactions: a quiesce landing in the   *)
(* middle suppresses the remainder.                                        *)
DeactivateBroken ==
    /\ op \in {"deactivate", "escalate"}
    /\ phase # "end"
    /\ quiesced
    /\ Goto("end")
    /\ UNCHANGED <<registers, config, members, zeroed, clean, result>>

DeactivateZero ==
    /\ Stopping("zero")
    /\ ~quiesced
    /\ \E o \in Outcomes :
         LET ok == o.ok /\ watchdog[i] # "tripped"
         IN  /\ WriteGoals(IF o.applied THEN {i} ELSE {}, "zero")
             /\ zeroed' = [zeroed EXCEPT ![i] = ok]
             /\ clean' = (clean /\ ok)
    /\ NextJoint("off")
    /\ UNCHANGED <<config, members, result>>

NextStop ==
    IF JointsLeft THEN i' = i + 1 /\ phase' = "off" /\ op' = op ELSE Goto("end")

DeactivateTorqueOff ==
    /\ Stopping("off")
    /\ ~quiesced
    /\ \E o \in Outcomes :
         /\ WriteTorqueOff(o)
         /\ IF StopConfirmed(zeroed[i], o.ok)
              THEN phase' = "clear" /\ UNCHANGED <<op, i, clean>>
              ELSE NextStop /\ clean' = FALSE
    /\ UNCHANGED <<config, members, zeroed, result>>

DeactivateClear ==
    /\ Stopping("clear")
    /\ ~quiesced
    /\ \E o \in Outcomes : WriteWatchdog(o, "off") /\ clean' = (clean /\ o.ok)
    /\ NextStop
    /\ UNCHANGED <<config, members, zeroed, result>>

(* Fault: the result forgets the flag that cut the loops short. *)
FaultCleanStop == clean

CleanStop == clean /\ ~quiesced

(* After an escalation the hook may close the port, and the thread's loop  *)
(* ends; it stays joinable.                                                *)
DeactivateEnd ==
    /\ Stopping("end")
    /\ activated' = FALSE
    /\ verified' = FALSE
    /\ IF op = "escalate"
         THEN /\ thread' = IF thread = "running" THEN "exited" ELSE thread
              /\ portOpen' \in {portOpen, FALSE}
         ELSE UNCHANGED <<thread, portOpen>>
    /\ Return(IF CleanStop THEN "clean" ELSE "unclean")
    /\ UNCHANGED <<registers, config, passive, preload, quiesced, zeroed, clean>>

Deactivation ==
    \/ StopThread \/ DeactivateBegin \/ EscalateBegin \/ DeactivateBroken
    \/ DeactivateZero \/ DeactivateTorqueOff \/ DeactivateClear
    \/ DeactivateEnd

-----------------------------------------------------------------------------
(* switchToCurrentModeWithPreload().                                       *)

SwitchBegin ==
    /\ activated /\ ~quiesced /\ thread = "none"
    /\ Begin("switch", "read")
    /\ UNCHANGED <<registers, config, members, zeroed, clean>>

(* The state read and the limiter, before anything is written: a refusal   *)
(* leaves the arm active and held.                                         *)
SwitchRead ==
    /\ At("switch", "read")
    /\ \/ ~Silent /\ Goto("off") /\ UNCHANGED result
       \/ Return("refused")
    /\ UNCHANGED <<registers, config, members, zeroed, clean>>

SwitchTorqueOff ==
    /\ At("switch", "off")
    /\ \E o \in Outcomes :
         /\ WriteTorqueOff(o)
         /\ IF o.ok THEN NextJoint("mode") /\ UNCHANGED zeroed ELSE Fail
    /\ UNCHANGED <<config, members, clean, result>>

(* The servo resets its goals on an operating-mode write. *)
SwitchMode ==
    /\ At("switch", "mode")
    /\ \E o \in Outcomes :
         /\ goal' = [goal EXCEPT ![i] = IF o.applied THEN "present" ELSE @]
         /\ IF o.ok THEN NextJoint("snap") /\ UNCHANGED zeroed ELSE Fail
    /\ UNCHANGED <<torque, watchdog, goalUpdate, enabled, config, members, clean,
                   result>>

SwitchGoals ==
    /\ At("switch", "snap")
    /\ \E sent \in BOOLEAN, S \in SUBSET Servo :
         /\ Broadcast(sent, S, "preload")
         /\ IF sent THEN Goto("on") /\ UNCHANGED zeroed ELSE Fail
    /\ UNCHANGED <<config, members, clean, result>>

SwitchTorqueOn ==
    /\ At("switch", "on")
    /\ \E o \in Outcomes :
         /\ WriteTorqueOn(o)
         /\ IF ~o.ok
              THEN Fail /\ UNCHANGED <<mode, result>>
              ELSE /\ UNCHANGED zeroed
                   /\ IF JointsLeft
                        THEN i' = i + 1 /\ UNCHANGED <<op, phase, mode, result>>
                        ELSE Return("active") /\ mode' = "current"
    /\ UNCHANGED <<configurator, members, clean>>

Switch ==
    \/ SwitchBegin \/ SwitchRead \/ SwitchTorqueOff \/ SwitchMode
    \/ SwitchGoals \/ SwitchTorqueOn

-----------------------------------------------------------------------------
(* preparePassiveFeedback().                                               *)

PassiveBegin ==
    /\ ~activated /\ thread = "none"
    /\ Begin("passive", "verify")
    /\ passive' = FALSE
    /\ UNCHANGED <<registers, config, activated, verified, preload, silence,
                   thread, zeroed, clean>>

PassiveVerify ==
    /\ At("passive", "verify")
    /\ \/ ~Silent /\ Goto("off") /\ UNCHANGED result
       \/ Return("refused")
    /\ UNCHANGED <<registers, config, members, zeroed, clean>>

(* A failing torque-off is followed by one for every joint, unchecked. *)
PassiveTorqueOff ==
    /\ At("passive", "off")
    /\ \E o \in Outcomes :
         WriteTorqueOff(o) /\ IF o.ok THEN NextJoint("check") ELSE Goto("end")
    /\ UNCHANGED <<config, members, zeroed, clean, result>>

PassiveRelease ==
    /\ At("passive", "end")
    /\ \E o \in Outcomes : WriteTorqueOff(o)
    /\ IF JointsLeft THEN i' = i + 1 /\ UNCHANGED <<op, phase, result>>
                ELSE Return("refused")
    /\ UNCHANGED <<config, members, zeroed, clean>>

PassiveCheck ==
    /\ At("passive", "check")
    /\ \/ /\ ~Silent /\ ~torque[i]
          /\ IF JointsLeft
               THEN i' = i + 1 /\ UNCHANGED <<op, phase, passive, result>>
               ELSE Return("limp") /\ passive' = TRUE
       \/ Return("refused") /\ UNCHANGED passive
    /\ UNCHANGED <<registers, config, activated, verified, preload, silence,
                   thread, zeroed, clean>>

Passive ==
    \/ PassiveBegin \/ PassiveVerify \/ PassiveTorqueOff \/ PassiveRelease
    \/ PassiveCheck

-----------------------------------------------------------------------------
(* The thread, the servos, the other threads.                              *)

(* startThread with no thread to join; with one it returns true at once.   *)
StartThread ==
    /\ op = "idle" /\ activated /\ thread = "none"
    /\ thread' = "running"
    /\ UNCHANGED <<registers, config, activated, verified, passive, preload,
                   silence, control>>

ThreadWrites ==
    /\ op = "idle" /\ activated /\ thread = "running" /\ ~quiesced
    /\ \E S \in SUBSET Servo : Broadcast(~Silent, S, "command")
    /\ UNCHANGED <<config, members, control>>

StagePreload ==
    /\ op = "idle" /\ ~activated /\ ~preload
    /\ preload' = TRUE
    /\ UNCHANGED <<registers, config, activated, verified, passive, silence,
                   thread, control>>

RequestQuiesce ==
    /\ ~quiesced
    /\ quiesced' = TRUE
    /\ UNCHANGED <<registers, config, activated, verified, passive, preload,
                   portOpen, thread, control>>

(* external: a torqued servo that hears no instruction for its interval    *)
(* freezes.  A host stall or a lost packet can cause it at any time.       *)
Trip(s) ==
    /\ watchdog[s] = "armed" /\ torque[s]
    /\ watchdog' = [watchdog EXCEPT ![s] = "tripped"]
    /\ UNCHANGED <<torque, goal, goalUpdate, enabled, config, members, control>>

Environment ==
    \/ StartThread \/ ThreadWrites \/ StagePreload \/ RequestQuiesce
    \/ \E s \in Servo : Trip(s)

Next == Activation \/ Deactivation \/ Switch \/ Passive \/ Environment

Spec == Init /\ [][Next]_vars

(* A silent bus is the one thing that makes a trip certain. *)
FairSpec == Spec /\ \A s \in Servo : WF_vars(Silent /\ Trip(s))

-----------------------------------------------------------------------------
(* Properties.                                                             *)

(* A servo this program switched on is never without its Bus Watchdog,     *)
(* whatever failed where: in an activation, its release, a mode switch, a  *)
(* deactivation, or one cut short by a quiesce.                            *)
TorqueProtected == \A s \in Servo : enabled[s] => torque[s] /\ watchdog[s] # "off"

Session == INSTANCE AbstractSession WITH
    busy <- op # "idle", on <- {s \in Servo : enabled[s]},
    active <- activated, silent <- Silent

(* The calls keep the promises of crane_x7.hpp: "active" is every servo    *)
(* switched on by a completed sequence, "clean" and "limp" are none left   *)
(* on, a refusal leaves the arm as it was, and nothing but a call or an    *)
(* escalation changes the session.                                         *)
ImplementsSession == Session!SessionSpec

(* The arm is without torque when deactivate() succeeds and for as long as *)
(* the permission of preparePassiveFeedback() stands, whoever had switched *)
(* it on: this program, the caller's configurator (which may throw, past   *)
(* every cleanup of activate()) or an earlier program.  An activation,     *)
(* failed or thrown out of, withdraws the permission.                      *)
LimpIsOff ==
    [][passive' \/ (result' = "clean" /\ result' # result) =>
         \A s \in Servo : ~torque'[s]]_vars

(* No goal write switches a servo on: torque comes from the last step of   *)
(* an activation or of a mode switch (or from the caller's configurator).  *)
NoTorqueByGoalWrite ==
    [][\A s \in Servo : ~torque[s] /\ torque'[s] => phase \in {"on", "configure"}]_vars

(* Silencing the bus stops the arm: every servo left switched on freezes.  *)
SilenceStops ==
    Silent ~> \A s \in Servo : enabled[s] => watchdog[s] = "tripped"
=============================================================================
