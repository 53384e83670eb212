---------------------------- MODULE CycleThread ----------------------------
(***************************************************************************)
(* The background read -> window -> limit -> write -> check thread of      *)
(* src/hw/crane_x7.cpp (threadLoop), the calls a controller makes on it    *)
(* (startThread, setTarget*, waitFeedback*, stopThread, activate,          *)
(* deactivate), the host deadman and requestQuiesce().                     *)
(*                                                                         *)
(* Two threads share the members: the main thread, which is also the       *)
(* controller, and the background thread, whose program counter is pc.     *)
(* One hold of state_mutex_ is one action.  requestQuiesce() comes from    *)
(* anywhere.  What activation and deactivation do to each servo is         *)
(* ServoSession's; here they are their outcome on the arm.                 *)
(*                                                                         *)
(* Time is counted in control cycles.  The code compares every instant     *)
(* with now_(), so the model keeps ages, cut off one above the bound they  *)
(* are compared with, and relations between sequence numbers instead of    *)
(* the numbers: held and source say how a feedback sequence number stands  *)
(* to feedback_seq_.                                                       *)
(***************************************************************************)
EXTENDS Naturals

CONSTANTS
    Modes,             \* operating modes of the group
    Timeout,           \* host_command_timeout_s, in control cycles
    Deadline,          \* controller_deadline_s, in control cycles
    MaxReadFailures,   \* max_read_failures
    MaxWriteFailures,  \* max_write_failures
    Sync               \* the synchronize_commands a caller may start with

ASSUME ModesAssumption == Modes \subseteq {"position", "velocity", "current"}
ASSUME TimeoutAssumption == Timeout \in Nat \ {0}
ASSUME DeadlineAssumption == Deadline \in Nat /\ Deadline <= Timeout
ASSUME SyncAssumption == Sync \subseteq BOOLEAN
ASSUME FailuresAssumption ==
    MaxReadFailures \in Nat \ {0} /\ MaxWriteFailures \in Nat \ {0}

VARIABLES
    mode,        \* the group's operating mode
    \* members shared by the threads
    activated,   \* activated_
    escalated,   \* escalated_
    quiesced,    \* quiesced_
    run,         \* thread_run_
    thread,      \* thread_: "none", "running", "exited" (joinable until joined)
    sync,        \* synchronize_commands_
    have,        \* have_targets_
    target,      \* where targets_ come from, see Targets
    source,      \* target_source_feedback_seq_: "untagged", or against
                 \* feedback_seq_ "latest" or "older"
    armed,       \* submission_armed_
    windowOpen,  \* command_window_open_
    cmdAge,      \* now - last_command_
    subAge,      \* now - last_submission_
    fbAge,       \* now - feedback_time_
    \* the background thread
    pc,
    noFeedback,  \* the cycle's own feedback is still empty
    readOk,      \* read_ok
    received,    \* a target came in through this cycle's window
    missed,      \* controller_deadline_missed
    command,     \* the cycle's copy of the targets
    readFails,   \* failed_reads_row
    writeFails,  \* failed_writes_row
    due,         \* the sleep's wake time has come
    \* the main thread
    mainPc,      \* "idle", or in stopThread or deactivate
    held,        \* the feedback the controller computes from: "none",
                 \* or against feedback_seq_ "latest" or "older"
    \* the arm
    goal,        \* the goal the servos act on; "off" when released
    since        \* history: writes of the thread since the last submission

(* "session": submitted since this activation; "previous": since an        *)
(* earlier one; "early": while inactive; "default": what startThread or    *)
(* activation chose; "zero": the zero of a missed velocity window or a     *)
(* stop.                                                                   *)
Targets == {"none", "default", "session", "previous", "early", "zero"}

session == <<activated, escalated, quiesced>>
lifecycle == <<run, thread, sync, pc, due, mainPc>>
submission == <<have, target, source, armed>>
ages == <<cmdAge, subAge, fbAge>>
locals == <<noFeedback, readOk, received, missed, command, readFails, writeFails>>
vars == <<mode, session, lifecycle, submission, windowOpen, ages, locals, held,
          goal, since>>

(* A cycle writes at most once and lasts at least one period. *)
WriteBound == Timeout + 2

FlagTypes ==
    /\ activated \in BOOLEAN /\ escalated \in BOOLEAN /\ quiesced \in BOOLEAN
    /\ run \in BOOLEAN /\ sync \in BOOLEAN /\ due \in BOOLEAN
    /\ have \in BOOLEAN /\ armed \in BOOLEAN /\ windowOpen \in BOOLEAN
    /\ noFeedback \in BOOLEAN /\ readOk \in BOOLEAN
    /\ received \in BOOLEAN /\ missed \in BOOLEAN

CountTypes ==
    /\ cmdAge \in 0..(Timeout + 1)
    /\ subAge \in 0..(Timeout + 1)
    /\ fbAge \in 0..(Deadline + 1)
    /\ readFails \in 0..MaxReadFailures
    /\ writeFails \in 0..MaxWriteFailures
    /\ since \in 0..(WriteBound + 1)

PlaceTypes ==
    /\ mode \in Modes
    /\ thread \in {"none", "running", "exited"}
    /\ pc \in {"none", "top", "read", "window", "write", "book", "stopping",
               "sleep"}
    /\ thread = "running" <=> pc # "none"
    /\ mainPc \in {"idle", "join", "joinDeactivate", "deactivate"}
    /\ target \in Targets /\ command \in Targets /\ goal \in Targets \cup {"off"}
    /\ source \in {"untagged", "latest", "older"}
    /\ held \in {"none", "latest", "older"}

TypeOK == FlagTypes /\ CountTypes /\ PlaceTypes

Init ==
    /\ mode \in Modes
    /\ activated = FALSE /\ escalated = FALSE /\ quiesced = FALSE
    /\ run = FALSE /\ thread = "none" /\ sync = FALSE
    /\ have = FALSE /\ target = "none" /\ source = "untagged" /\ armed = FALSE
    /\ windowOpen = FALSE
    /\ cmdAge = 0 /\ subAge = 0 /\ fbAge = 0
    /\ pc = "none" /\ due = FALSE
    /\ noFeedback = TRUE /\ readOk = FALSE /\ received = FALSE /\ missed = FALSE
    /\ command = "none" /\ readFails = 0 /\ writeFails = 0
    /\ mainPc = "idle" /\ held = "none"
    /\ goal = "off"
    /\ since = 0

UpTo(n, bound) == IF n < bound THEN n + 1 ELSE bound

Moves == mode \in {"velocity", "current"}

-----------------------------------------------------------------------------
(* Time.                                                                   *)

Tick ==
    /\ cmdAge' = UpTo(cmdAge, Timeout + 1)
    /\ subAge' = UpTo(subAge, Timeout + 1)
    /\ fbAge' = UpTo(fbAge, Deadline + 1)
    /\ due' = (pc = "sleep")
    /\ UNCHANGED <<mode, session, run, thread, sync, pc, mainPc, submission,
                   windowOpen, locals, held, goal, since>>

RequestQuiesce ==
    /\ ~quiesced
    /\ quiesced' = TRUE
    /\ UNCHANGED <<mode, activated, escalated, lifecycle, submission, windowOpen,
                   ages, locals, held, goal, since>>

-----------------------------------------------------------------------------
(* The main thread.                                                        *)

(* activate(): its full read is a new feedback, its goal snap the default  *)
(* posture.  Targets and have_targets_ are left as they are; what an       *)
(* earlier session submitted is now a previous one's.                      *)
ActivatedTargets ==
    target' = IF target = "session" THEN "previous" ELSE target

NewFeedback ==
    /\ held' = IF held = "latest" THEN "older" ELSE held
    /\ source' = IF source = "latest" THEN "older" ELSE source
    /\ fbAge' = 0

Activate ==
    /\ mainPc = "idle" /\ ~activated
    /\ escalated' = FALSE
    /\ armed' = FALSE
    /\ \/ /\ ~quiesced
          /\ activated' = TRUE
          /\ cmdAge' = 0
          /\ goal' = "default"
          /\ ActivatedTargets
          /\ NewFeedback
       \/ UNCHANGED <<activated, target, source, cmdAge, fbAge, held, goal>>
    /\ since' = 0
    /\ UNCHANGED <<mode, quiesced, lifecycle, have, windowOpen, subAge, locals>>

(* startThread with no joinable thread; with one, running or exited, it    *)
(* returns true and changes nothing.                                       *)
StartThread(s) ==
    /\ mainPc = "idle" /\ activated /\ thread = "none"
    /\ sync' = s
    /\ have' = TRUE
    /\ target' = IF have THEN target ELSE "default"
    /\ run' = TRUE /\ thread' = "running" /\ pc' = "top" /\ due' = FALSE
    /\ noFeedback' = TRUE /\ readFails' = 0 /\ writeFails' = 0
    /\ windowOpen' = FALSE
    /\ UNCHANGED <<mode, session, mainPc, source, armed, ages, readOk, received,
                   missed, command, held, goal, since>>

(* waitFeedback, waitFeedbackStamped or readState: the controller gets the *)
(* latest feedback, in synchronized mode only through an open window.      *)
TakeFeedback ==
    /\ mainPc = "idle" /\ run /\ ~quiesced
    /\ held # "latest"
    /\ sync => windowOpen
    /\ held' = "latest"
    /\ UNCHANGED <<mode, session, lifecycle, submission, windowOpen, ages, locals,
                   goal, since>>

(* Fault: feedback of the current window stands for the latest one. *)
FaultSourceIsLatest == held # "none"

SourceIsLatest == held = "latest"

FreshTag == SourceIsLatest /\ fbAge <= Deadline /\ (sync => windowOpen)

Accept(src) ==
    /\ target' = IF activated THEN "session" ELSE "early"
    /\ source' = src
    /\ have' = TRUE
    /\ received' = (received \/ pc = "window")
    /\ since' = 0

(* A rejected submission arms and feeds the submission deadman too. *)
Reject ==
    /\ since' = 0
    /\ UNCHANGED <<target, source, have, received>>

Submit(tagged) ==
    /\ mainPc = "idle"
    /\ IF ~tagged THEN Accept("untagged")
       ELSE IF FreshTag THEN Accept(held) ELSE Reject
    /\ armed' = TRUE
    /\ subAge' = 0
    /\ UNCHANGED <<mode, session, lifecycle, windowOpen, cmdAge, fbAge, noFeedback,
                   readOk, missed, command, readFails, writeFails, held, goal>>

(* stopThread() up to its join, called alone or by deactivate(). *)
StopRequest(next) ==
    /\ mainPc = "idle"
    /\ thread # "none" \/ next = "joinDeactivate"
    /\ mainPc' = IF thread = "none" THEN "deactivate" ELSE next
    /\ run' = FALSE
    /\ UNCHANGED <<mode, session, thread, sync, pc, due, submission, windowOpen,
                   ages, locals, held, goal, since>>

(* The join and what follows it: a zero goal in the modes that move on     *)
(* one, if it gets through.                                                *)
Join ==
    /\ mainPc \in {"join", "joinDeactivate"}
    /\ thread = "exited"
    /\ thread' = "none"
    /\ mainPc' = IF mainPc = "join" THEN "idle" ELSE "deactivate"
    /\ goal' \in IF Moves /\ ~quiesced /\ goal # "off" THEN {goal, "zero"}
                                                      ELSE {goal}
    /\ UNCHANGED <<mode, session, run, sync, pc, due, submission, windowOpen, ages,
                   locals, held, since>>

(* The rest of deactivate(): the arm is released as far as the bus let it. *)
Released == goal' \in IF quiesced THEN {goal} ELSE {goal, "off"}

Deactivate ==
    /\ mainPc = "deactivate"
    /\ mainPc' = "idle"
    /\ activated' = FALSE
    /\ Released
    /\ UNCHANGED <<mode, escalated, quiesced, run, thread, sync, pc, due, submission,
                   windowOpen, ages, locals, held, since>>

(* Without a thread, a client writes goals and calls checkDeadman itself.  *)
DirectWrite ==
    /\ mainPc = "idle" /\ thread = "none" /\ activated /\ ~escalated /\ ~quiesced
    /\ cmdAge' = 0
    /\ goal' = "session"
    /\ UNCHANGED <<mode, session, lifecycle, submission, windowOpen, subAge, fbAge,
                   locals, held, since>>

CommandStale == cmdAge > Timeout

(* Fault: successful retransmissions are taken for a live controller. *)
FaultSubmissionStale == FALSE

SubmissionStale == armed /\ subAge > Timeout

DirectEscalate ==
    /\ mainPc = "idle" /\ thread = "none" /\ activated /\ ~escalated
    /\ CommandStale \/ SubmissionStale
    /\ escalated' = TRUE
    /\ activated' = FALSE
    /\ Released
    /\ UNCHANGED <<mode, quiesced, lifecycle, submission, windowOpen, ages, locals,
                   held, since>>

Main ==
    \/ Activate
    \/ \E s \in Sync : StartThread(s)
    \/ TakeFeedback
    \/ \E tagged \in BOOLEAN : Submit(tagged)
    \/ StopRequest("join") \/ StopRequest("joinDeactivate")
    \/ Join
    \/ Deactivate
    \/ DirectWrite \/ DirectEscalate

-----------------------------------------------------------------------------
(* The background thread.                                                  *)

(* end_cycle: the thread sleeps until the next period boundary, and the    *)
(* cycle's locals go out of scope.                                         *)
EndCycle ==
    /\ pc' = "sleep" /\ due' = FALSE
    /\ readOk' = FALSE /\ received' = FALSE /\ missed' = FALSE /\ command' = "none"

LoopEnds == ~run

(* The loop's condition and the gate before the read. *)
LoopTop ==
    /\ pc = "top"
    /\ IF LoopEnds
         THEN /\ pc' = "none" /\ thread' = "exited" /\ due' = FALSE
              /\ noFeedback' = TRUE /\ readFails' = 0 /\ writeFails' = 0
              /\ UNCHANGED <<readOk, received, missed, command>>
         ELSE /\ UNCHANGED <<thread, noFeedback, readFails, writeFails>>
              /\ IF quiesced
                   THEN EndCycle
                   ELSE /\ pc' = "read"
                        /\ UNCHANGED <<due, readOk, received, missed, command>>
    /\ UNCHANGED <<mode, session, run, sync, mainPc, submission, windowOpen, ages,
                   held, goal, since>>

CopyTargets(gotOne, miss) ==
    /\ received' = gotOne
    /\ missed' = miss
    /\ command' = IF miss /\ mode = "velocity" THEN "zero" ELSE target

(* readFeedback: the transport refuses it once quiesced.  Then the second  *)
(* gate, and the window opens or the targets are copied.                   *)
ReadFails ==
    /\ pc = "read"
    /\ readFails' = UpTo(readFails, MaxReadFailures)
    /\ IF quiesced
         THEN EndCycle
         ELSE /\ pc' = "write" /\ readOk' = FALSE
              /\ CopyTargets(FALSE, FALSE)
              /\ UNCHANGED due
    /\ UNCHANGED <<mode, session, run, thread, sync, mainPc, submission, windowOpen,
                   ages, noFeedback, writeFails, held, goal, since>>

ReadSucceeds ==
    /\ pc = "read" /\ ~quiesced
    /\ readFails' = 0
    /\ noFeedback' = FALSE
    /\ readOk' = TRUE
    /\ NewFeedback
    /\ IF sync
         THEN /\ windowOpen' = TRUE
              /\ pc' = "window"
              /\ UNCHANGED <<received, missed, command>>
         ELSE /\ CopyTargets(FALSE, FALSE)
              /\ pc' = "write"
              /\ UNCHANGED windowOpen
    /\ UNCHANGED <<mode, session, run, thread, sync, due, mainPc, have, target,
                   armed, cmdAge, subAge, writeFails, goal, since>>

(* Fault: the miss is accounted but the old velocity goes out. *)
FaultMiss == FALSE

Miss == ~received /\ armed /\ run /\ ~quiesced

(* Fault: the wait for a target has no cutoff. *)
FaultCutoff == received \/ ~run \/ quiesced

(* The cutoff comes at any moment. *)
Cutoff == TRUE

(* target_cv_.wait_until returned: a target, the cutoff, a stop or a       *)
(* quiesce.                                                                *)
CloseWindow ==
    /\ pc = "window"
    /\ Cutoff
    /\ windowOpen' = FALSE
    /\ CopyTargets(received, Miss)
    /\ pc' = "write"
    /\ UNCHANGED <<mode, session, run, thread, sync, due, mainPc, submission, ages,
                   noFeedback, readOk, readFails, writeFails, held, goal, since>>

(* The gate before the write. *)
SkipWrite ==
    /\ pc = "write"
    /\ quiesced \/ ~run
    /\ EndCycle
    /\ UNCHANGED <<mode, session, run, thread, sync, mainPc, submission,
                   windowOpen, ages, noFeedback, readFails, writeFails, held, goal,
                   since>>

WriterAccepts == activated /\ ~escalated /\ (Moves => ~noFeedback)

WriteSucceeds ==
    /\ pc = "write" /\ run /\ ~quiesced
    /\ WriterAccepts
    /\ goal' = command
    /\ cmdAge' = 0
    /\ writeFails' = 0
    /\ since' = UpTo(since, WriteBound + 1)
    /\ pc' = "book"
    /\ UNCHANGED <<mode, session, run, thread, sync, due, mainPc, submission,
                   windowOpen, subAge, fbAge, noFeedback, readOk, received, missed,
                   command, readFails, held>>

(* The writer refused, or the bus write failed. *)
WriteFails ==
    /\ pc = "write" /\ run /\ ~quiesced
    /\ writeFails' = UpTo(writeFails, MaxWriteFailures)
    /\ pc' = "book"
    /\ UNCHANGED <<mode, session, run, thread, sync, due, mainPc, submission,
                   windowOpen, ages, noFeedback, readOk, received, missed, command,
                   readFails, held, goal, since>>

(* Fault: a failing read alone does not stop the thread. *)
FaultBusFailing == writeFails >= MaxWriteFailures

BusFailing == readFails >= MaxReadFailures \/ writeFails >= MaxWriteFailures

MustEscalate == BusFailing \/ CommandStale \/ SubmissionStale

(* The end of a cycle that wrote: nothing is escalated once quiesced.      *)
Check ==
    /\ pc = "book"
    /\ IF ~quiesced /\ MustEscalate
         THEN /\ pc' = "stopping"
              /\ escalated' = TRUE
              /\ UNCHANGED <<due, readOk, received, missed, command>>
         ELSE EndCycle /\ UNCHANGED escalated
    /\ UNCHANGED <<mode, activated, quiesced, run, thread, sync, mainPc,
                   submission, windowOpen, ages, noFeedback, readFails, writeFails,
                   held, goal, since>>

ActiveAfterEscalation == FALSE

(* stopThread() called from the thread itself only signals. *)
ThreadAfterEscalation == thread

(* escalate()'s deactivate(), run by the thread, and the flag after it. *)
Escalate ==
    /\ pc = "stopping"
    /\ activated' = ActiveAfterEscalation
    /\ run' = FALSE
    /\ thread' = ThreadAfterEscalation
    /\ Released
    /\ EndCycle
    /\ UNCHANGED <<mode, escalated, quiesced, sync, mainPc, submission,
                   windowOpen, ages, noFeedback, readFails, writeFails, held,
                   since>>

Wake ==
    /\ pc = "sleep"
    /\ due
    /\ pc' = "top"
    /\ UNCHANGED <<mode, session, run, thread, sync, due, mainPc, submission,
                   windowOpen, ages, locals, held, goal, since>>

Thread ==
    \/ LoopTop \/ ReadFails \/ ReadSucceeds \/ CloseWindow \/ SkipWrite
    \/ WriteSucceeds \/ WriteFails \/ Check \/ Escalate \/ Wake

Next == Main \/ Thread \/ Tick \/ RequestQuiesce

Spec == Init /\ [][Next]_vars

(* The thread and the clock keep going; a main thread inside stopThread or *)
(* deactivate goes on.  Nobody has to submit, stop or quiesce.             *)
FairSpec ==
    /\ Spec
    /\ WF_vars(Thread) /\ WF_vars(Tick)
    /\ WF_vars(Join) /\ WF_vars(Deactivate)

-----------------------------------------------------------------------------
(* Properties.                                                             *)

(* The deadman: once a controller armed it, the thread writes at most one  *)
(* command per cycle of host_command_timeout_s and one more, then escalates*)
(* unless a submission came in between.  The thread's own retransmissions  *)
(* do not feed it; a rejected submission does.                             *)
DeadmanBoundsWrites == armed => since <= WriteBound

(* Frozen feedback or a dead write path is not survived: after the allowed *)
(* failures in a row the thread is stopping, stopped, or silent.           *)
FailuresStop ==
    pc \in {"top", "read", "sleep"} /\ run
        => quiesced \/ (readFails < MaxReadFailures /\ writeFails < MaxWriteFailures)

(* In velocity mode a window the controller missed sends no old velocity:  *)
(* a synchronized velocity command of this session goes out only in the    *)
(* cycle that received it, or in one whose read failed and opened no       *)
(* window.  Position mode holds the goal before and current mode keeps the *)
(* command before, which DeadmanBoundsWrites bounds.                       *)
MissSendsZero ==
    [][pc = "write" /\ pc' = "book" /\ sync /\ mode = "velocity" /\ readOk
         => command # "session" \/ received]_vars

(* In synchronized mode a tagged command that came in through the window   *)
(* was computed from the feedback of that very cycle.                      *)
FreshMeansThisCycle ==
    pc = "write" /\ received /\ source # "untagged" => source = "latest"

(* An escalation is final: the thread that escalated writes no more, and   *)
(* only another activate() makes the arm active again.                     *)
EscalatedIsOver ==
    escalated => ~activated \/ pc = "stopping"

(* A controller that falls silent is noticed: it submits again, or the     *)
(* thread stops, or the bus is silent.                                     *)
LostControllerStops ==
    (armed /\ thread = "running") ~> (subAge = 0 \/ ~run \/ quiesced)

=============================================================================
