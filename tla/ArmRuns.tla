------------------------------- MODULE ArmRuns -------------------------------
(***************************************************************************)
(* The loops that command an arm cycle by cycle while it is on: FollowRun, *)
(* TrackingRun and runPositionHome, arm::run with the observers of         *)
(* x7_float, x7_gravity_demo and x7_teach, and the torque-off loop of      *)
(* x7_teach.  One action is one cycle: poll the keyboard, read, decide,    *)
(* write, log, step.  Between two cycles the operator may press ENTER.     *)
(***************************************************************************)
EXTENDS Integers

CONSTANTS
    Kinds,        \* the loops that are run
    Intervals,    \* sample intervals of the reference
    Retries,      \* home.correction_retries
    Sustain,      \* cycles of a sustained error that abort
    Hold,         \* cycles of a hold: the fixed wait, or the operator's timeout
    Marker,       \* kMarkerDeadlineS, in control periods
    Window,       \* the evaluation window
    Margin,       \* kDurationMarginS
    MaxGap        \* kMaxSeqGap, and the whole periods of kMaxSampleInterval

ASSUME RunConstants ==
    /\ Kinds \subseteq {"follow", "posture", "track", "float", "feel", "demo",
                        "teach", "passive"}
    /\ {Intervals, Sustain, Hold, Marker, Window, MaxGap} \subseteq Nat \ {0}
    /\ {Retries, Margin} \subseteq Nat

(* A sample read during the latest allowed gap after the marker's deadline *)
(* may still start a window: x7_float's margin is 2 s against 25 ms.       *)
ASSUME MarginIsWide == Margin >= 2 * MaxGap

VARIABLES
    kind, asks,      \* the loop; whether its last hold waits for the operator
    phase,           \* where it is
    step, tries,     \* cycle of the phase; corrections of the home posture
    error, over,     \* level of the last feedback's error; cycles it has lasted
    status,          \* the result
    hold,            \* "none", "begun", "answered", "elapsed", "lost"
    sent,            \* what the last command was
    clock, t, began, \* "none", "read", "running"; time; time the stage began
    cycles,          \* cycles of arm::run and of runTracking
    keys,            \* unread bytes of stdin: "none", "early", "answer"
    polled, early    \* stdin was read once; an early key was acted upon

task == <<kind, asks>>
progress == <<phase, step, tries, status, hold>>
feedback == <<error, over>>
time == <<clock, t, began, cycles>>
operator == <<keys, polled, early>>
runVars == <<task, progress, feedback, sent, time, operator>>

Follows == kind \in {"follow", "posture"}
Runs == kind \in {"float", "feel", "demo", "teach"}     \* through arm::run
Over == phase = "over"
Small == 0
Sustained == 1
Immediate == 2
Errors == {Small, Sustained, Immediate}

(* The prompt "press Enter to ..." is on the screen. *)
Prompted ==
    CASE Follows \/ kind = "track" -> phase \in {"final", "abort"}
      [] OTHER -> TRUE

RunInit ==
    /\ kind \in Kinds /\ asks \in BOOLEAN
    /\ phase = (IF Follows THEN "start" ELSE IF kind = "track" THEN "home" ELSE "await")
    /\ step = 0 /\ tries = 0 /\ error = Small /\ over = 0
    /\ status = "IoFailure" /\ hold = "none" /\ sent = "none"
    /\ clock = "none" /\ t = 0 /\ began = 0 /\ cycles = 0
    /\ keys \in {"none", "early"} /\ polled = FALSE /\ early = FALSE

Press ==
    /\ ~Over
    /\ keys' = IF Prompted THEN "answer" ELSE "early"
    /\ UNCHANGED <<task, progress, feedback, sent, time, polled, early>>

-----------------------------------------------------------------------------
(* The keyboard.                                                           *)

(* pollReleaseKey and pollStopKey take whatever was typed. *)
PollsBlindly == kind \in {"float", "feel", "demo"}

(* Fault: EnterReader without its first poll. *)
FaultPressed == keys # "none"

(* EnterReader: the first poll only empties stdin. *)
Pressed == keys # "none" /\ (polled \/ PollsBlindly)

Polls ==
    /\ keys' = "none" /\ polled' = TRUE
    /\ early' = (early \/ (Pressed /\ keys = "early"))

Quiet == UNCHANGED operator

-----------------------------------------------------------------------------
(* One command: the write, the log row, the step of the arm.               *)

Reads == error' \in Errors

Sends(what) == sent' = what
Silent == UNCHANGED sent

Stays == UNCHANGED <<status, hold>>
Goto(p) == phase' = p /\ step' = 0
Ends(s) == phase' = "over" /\ status' = s /\ UNCHANGED step

(* A read or a write fails before, a row or a step after the command. *)
Fails(what) == sent' \in {sent, what}

-----------------------------------------------------------------------------
(* FollowRun.                                                              *)

FollowStart ==
    /\ phase = "start"
    /\ Reads
    /\ \/ Ends("IoFailure") /\ UNCHANGED hold
       \/ kind = "posture" /\ error' # Small /\ Goto("abort")
            /\ status' = "HomeRefused" /\ UNCHANGED hold
       \/ kind = "posture" /\ error' = Small /\ Goto("track") /\ Stays
       \/ kind = "follow" /\ Goto("home") /\ Stays
    /\ Silent /\ Quiet /\ UNCHANGED <<task, tries, over, time>>

(* moveHome: the motion, then settle, measure and correct. *)
Home ==
    /\ Follows /\ phase = "home"
    /\ Reads /\ Quiet
    /\ \/ /\ Sends("home")
          /\ IF step < 1 THEN step' = step + 1 /\ UNCHANGED phase ELSE Goto("settle")
       \/ Fails("home") /\ Goto("abort")
    /\ Stays /\ UNCHANGED <<task, tries, over, time>>

Settle ==
    /\ Follows /\ phase \in {"settle", "correct"}
    /\ Reads /\ Quiet
    /\ \/ Sends("home") /\ Goto(IF phase = "settle" THEN "measure" ELSE "settle")
       \/ Fails("home") /\ Goto("abort")
    /\ Stays /\ UNCHANGED <<task, tries, over, time>>

Measure ==
    /\ Follows /\ phase = "measure"
    /\ Reads /\ Quiet /\ Silent
    /\ \/ Goto("abort") /\ Stays /\ UNCHANGED tries
       \/ error' = Small /\ Goto("track") /\ Stays /\ UNCHANGED tries
       \/ error' # Small /\ tries < Retries
            /\ tries' = tries + 1 /\ Goto("correct") /\ Stays
       \/ error' # Small /\ tries = Retries /\ UNCHANGED <<tries, hold>>
            /\ \/ Goto("track") /\ UNCHANGED status      \* strict = false
               \/ Goto("abort") /\ status' = "HomeNotConverged"
    /\ UNCHANGED <<task, over, time>>

(* The error of the last feedback against the next reference sample. *)
Level == {l \in Errors : l \in error - 1 .. error + 1}

Aborts(l) == l = Immediate \/ (l >= Sustained /\ over + 1 >= Sustain)

(* Fault: the gate looks at the feedback of the cycle before. *)
FaultDeparted(before, after) == before = Immediate

(* postureDeparted(): on the feedback just read. *)
Departed(before, after) == after = Immediate

(* Fault: only the tracking error was given a hold. *)
FaultHeld(s) == s = "TrackingError"

(* The aborts that end in a hold. *)
Held(s) == s \in {"TrackingError", "PostureDeparture"}

Abort(s) ==
    /\ status' = s /\ UNCHANGED hold
    /\ IF Held(s) THEN Goto("abort") ELSE phase' = "over" /\ UNCHANGED step

Follow ==
    /\ Follows /\ phase = "track"
    /\ \E l \in Level :
         IF Aborts(l)
           THEN Abort("TrackingError") /\ Silent /\ UNCHANGED <<error, over>>
           ELSE /\ over' = IF l >= Sustained THEN over + 1 ELSE 0
                /\ Reads
                /\ \/ Ends("IoFailure") /\ UNCHANGED <<sent, hold>>
                   \/ /\ kind = "posture" /\ Departed(l, error')
                      /\ Abort("PostureDeparture") /\ Silent
                   \/ /\ kind = "posture" => ~Departed(l, error')
                      /\ \/ Fails("reference") /\ Ends("IoFailure") /\ UNCHANGED hold
                         \/ /\ Sends("reference") /\ Stays
                            /\ IF step < Intervals
                                 THEN step' = step + 1 /\ UNCHANGED phase
                                 ELSE Goto("final")
    /\ Quiet /\ UNCHANGED <<task, tries, time>>

(* finalize(): the hold after the reference and after an abort.  A         *)
(* departure's first cycle is answered before the keyboard is looked at.   *)
Unpolled == step = 0 /\ status = "PostureDeparture"

(* Fault: a hold that waits for the operator is not counted. *)
FaultNextHold == IF asks THEN step ELSE step + 1

NextHold == step + 1

FollowHold ==
    /\ Follows /\ phase \in {"final", "abort"}
    /\ LET good == IF phase = "final" THEN "Success" ELSE status
       IN  IF step = Hold
             THEN /\ Ends(IF asks THEN "OperatorTimeout" ELSE good)
                  /\ hold' = "elapsed"
                  /\ Silent /\ Quiet /\ UNCHANGED error
             ELSE /\ IF asks /\ ~Unpolled THEN Polls ELSE Quiet
                  /\ IF asks /\ ~Unpolled /\ Pressed
                       THEN Ends(good) /\ hold' = "answered" /\ Silent /\ UNCHANGED error
                       ELSE /\ IF Unpolled THEN UNCHANGED error ELSE Reads
                            /\ \/ /\ Sends("hold") /\ step' = NextHold
                                  /\ hold' = "begun" /\ UNCHANGED <<phase, status>>
                               \/ Fails("hold") /\ Ends(status) /\ hold' = "lost"
    /\ UNCHANGED <<task, tries, over, time>>

-----------------------------------------------------------------------------
(* runPositionHome and TrackingRun.  An abort ends the run without a hold. *)

TrackHome ==
    /\ kind = "track" /\ phase \in {"home", "settle", "measure"}
    /\ Reads /\ Quiet /\ UNCHANGED <<task, tries, over, hold>>
    /\ \/ /\ phase # "measure" /\ Sends("home") /\ UNCHANGED status
          /\ Goto(IF phase = "home" THEN "settle" ELSE "measure") /\ UNCHANGED time
       \/ /\ phase = "measure" /\ Silent
          /\ \/ Ends("HomeNotConverged") /\ error' # Small /\ UNCHANGED time
             \/ /\ Goto("track") /\ UNCHANGED status        \* converged, or not strict
                /\ cycles' = 0 /\ t' = 0 /\ UNCHANGED <<clock, began>>
       \/ Fails("home") /\ Ends("IoFailure") /\ UNCHANGED time

TrackCap == 4 * Intervals

Track ==
    /\ kind = "track" /\ phase = "track"
    /\ Reads /\ Quiet /\ UNCHANGED <<task, tries, hold, clock, began>>
    /\ \/ Ends("IoFailure") /\ Fails("effort") /\ UNCHANGED <<over, t, cycles>>
       \/ cycles = TrackCap /\ Ends("IoFailure") /\ Silent /\ UNCHANGED <<over, t, cycles>>
       \/ \E d \in 0..1 :
            /\ cycles < TrackCap /\ cycles' = cycles + 1 /\ t' = t + d
            /\ IF t' >= Intervals
                 THEN Goto("final") /\ Silent /\ UNCHANGED <<status, over>>
                 ELSE /\ Sends("effort")
                      /\ over' = IF error' >= Sustained THEN over + 1 ELSE 0
                      /\ \/ Aborts(error') /\ Ends("HardTrackingError")
                         \/ Ends("PositionGate")     \* the applied command was cut
                         \/ ~Aborts(error') /\ UNCHANGED <<phase, step, status>>

TrackHold ==
    /\ kind = "track" /\ phase = "final"
    /\ UNCHANGED <<task, tries, over, time>>
    /\ IF step = Hold
         THEN /\ Ends(IF asks THEN "OperatorTimeout" ELSE "Success") /\ hold' = "elapsed"
              /\ Silent /\ Quiet /\ UNCHANGED error
         ELSE /\ IF asks THEN Polls ELSE Quiet
              /\ IF asks /\ Pressed
                   THEN /\ Ends("Success") /\ hold' = "answered"
                        /\ Silent /\ UNCHANGED error
                   ELSE /\ Reads
                        /\ \/ /\ Sends("hold") /\ step' = NextHold
                              /\ hold' = "begun" /\ UNCHANGED <<phase, status>>
                           \/ Fails("hold") /\ Ends("IoFailure") /\ hold' = "lost"

-----------------------------------------------------------------------------
(* The observers, at time n.                                               *)

Becomes(p, n) == phase' = p /\ began' = n /\ UNCHANGED status
Remains == UNCHANGED <<phase, began, status>>
Vetoes(s) == phase' = "over" /\ status' = s /\ UNCHANGED began

(* FloatLogObserver: the release, then the window, at most once each cycle. *)
FloatObserves(n) ==
    LET released == phase = "released" \/ Pressed
        since == IF phase = "released" THEN began ELSE n
    IN  CASE kind = "float" /\ released /\ n >= since + Window -> Vetoes("window")
          [] ~released /\ n > Marker -> Vetoes("marker_timeout")
          [] ~released /\ n <= Marker -> Remains
          [] OTHER -> Becomes("released", since)

DemoObserves(n) == IF Pressed THEN Vetoes("stopped") ELSE Remains

(* GravityTeachObserver, and the loop of runPassive, which needs no support. *)
TeachObserves(n) ==
    CASE phase = "await" ->
           IF Pressed THEN Becomes("recording", n)
             ELSE IF n >= Marker THEN Vetoes("start_timeout") ELSE Remains
      [] phase = "recording" ->
           IF ~Pressed /\ n - began < Window THEN Remains
             ELSE IF kind = "passive" THEN Vetoes("success") ELSE Becomes("support", n)
      [] phase = "support" ->
           IF Pressed THEN Vetoes("success")
             ELSE IF n - began >= Hold THEN Vetoes("operator_timeout") ELSE Remains

Observes(n) ==
    CASE kind \in {"float", "feel"} -> FloatObserves(n)
      [] kind = "demo" -> DemoObserves(n)
      [] OTHER -> TeachObserves(n)

-----------------------------------------------------------------------------
(* arm::run.                                                               *)

(* Fault: the outer deadline without its margin. *)
FaultDuration == Marker + Window

(* The shortest outer deadline main accepts. *)
Duration == Marker + Window + Margin

Capped == cycles = 4 * Duration + 8

RunEnds(s) ==
    /\ phase' = "over" /\ status' = s
    /\ UNCHANGED <<sent, operator, clock, t, began, cycles>>

(* The sample is accepted at time n: done, or commanded and observed. *)
Accepts(n, c) ==
    IF n >= Duration
      THEN RunEnds("deadline")
      ELSE /\ Sends("effort") /\ Polls /\ Observes(n)
           /\ t' = n /\ clock' = c /\ cycles' = cycles + 1

(* An unchanged sample counts against the cap. *)
Duplicate ==
    /\ cycles' = cycles + 1
    /\ UNCHANGED <<phase, status, sent, operator, clock, t, began>>

Run ==
    /\ Runs /\ ~Over
    /\ \/ RunEnds("failed")     \* read, write or step; clock, gap, interval
       \/ Capped /\ RunEnds("failed")
       \/ /\ ~Capped
          /\ CASE clock = "none" -> Accepts(0, "read")
               [] clock = "read" -> Duplicate \/ Accepts(0, "running")
               [] OTHER -> Duplicate \/ \E d \in 1..MaxGap : Accepts(t + d, "running")
    /\ UNCHANGED <<task, step, tries, hold, feedback>>

(* runPassive: on the host's clock, no command. *)
Passive ==
    /\ kind = "passive" /\ ~Over
    /\ \/ RunEnds("failed")     \* feedback_failure, feedback_gap
       \/ \E d \in 1..MaxGap :
            /\ Polls /\ Observes(t + d)
            /\ t' = t + d /\ UNCHANGED <<sent, clock, cycles>>
    /\ UNCHANGED <<task, step, tries, hold, feedback>>

Cycle ==
    \/ FollowStart \/ Home \/ Settle \/ Measure \/ Follow \/ FollowHold
    \/ TrackHome \/ Track \/ TrackHold
    \/ Run \/ Passive

RunNext == Press \/ Cycle

RunSpec == RunInit /\ [][RunNext]_runVars
FairRunSpec == RunSpec /\ WF_runVars(Cycle)

-----------------------------------------------------------------------------
RunTypeOK ==
    /\ kind \in Kinds /\ asks \in BOOLEAN
    /\ phase \in {"start", "home", "settle", "measure", "correct", "track", "final",
                  "abort", "await", "released", "recording", "support", "over"}
    /\ step \in 0..(Intervals + Hold) /\ tries \in 0..Retries
    /\ error \in Errors /\ over \in Nat
    /\ hold \in {"none", "begun", "answered", "elapsed", "lost"}
    /\ sent \in {"none", "home", "reference", "hold", "effort"}
    /\ clock \in {"none", "read", "running"} /\ {t, began, cycles} \subseteq Nat
    /\ keys \in {"none", "early", "answer"} /\ {polled, early} \subseteq BOOLEAN

(* A refusal of a follow run never ends in a falling arm: whatever refused *)
(* it, a hold was commanded before the torque goes off, and only an I/O    *)
(* failure before it, or in it, takes that away.  (FollowRun::run)         *)
HoldBeforeLimp ==
    Over /\ Follows /\ status # "IoFailure" => hold \in {"answered", "elapsed", "lost"}

(* A posture run commands its reference only from a feedback within the    *)
(* gate: the one just read, never the one before it.                       *)
NoReferenceFromDeparture ==
    [][kind = "posture" /\ phase = "track" /\ phase' \in {"track", "final"}
         => error' # Immediate]_runVars

(* What was typed before the prompt is never taken for its answer.         *)
EarlyKeysIgnored == ~PollsBlindly => ~early

(* The outer deadline of x7_float never cuts a measured window short, at   *)
(* whatever sample the marker falls, the last before its deadline too.     *)
WindowIsWhole == kind = "float" => status # "deadline"

(* Every loop ends, also on an arm whose feedback no longer changes.       *)
RunsEnd == <>Over
=============================================================================
