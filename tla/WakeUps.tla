------------------------------ MODULE WakeUps ------------------------------
(***************************************************************************)
(* The condition variables of src/hw/crane_x7.cpp: who waits on            *)
(* feedback_cv_ and cycle_cv_ (waitFeedback, waitFeedbackStamped,          *)
(* waitCycle), what each of them checks under its mutex before it sleeps,  *)
(* and who notifies: the background thread, requestQuiesce, stopThread.    *)
(*                                                                         *)
(* CycleThread has what the background thread computes and writes; here    *)
(* only what wakes a waiter is kept, and the step CycleThread merges is    *)
(* taken apart: a waiter has checked its predicate, and holds the mutex,   *)
(* but does not sleep yet.  thread_run_ and quiesced_ are atomics that     *)
(* change without the mutex.  Spurious wake-ups, which nothing promises,   *)
(* are left out.                                                           *)
(***************************************************************************)
EXTENDS Naturals

CONSTANTS
    Syncs,            \* the synchronize_commands a caller may start with
    RemoteQuiesce,    \* requestQuiesce() comes from another thread than the
                      \* waiter, as its documentation allows
    Prompt,           \* the sleep to the next period outlasts the gap between
                      \* a waiter's check and its sleep
    MaxReadFailures   \* max_read_failures

ASSUME SyncsAssumption == Syncs \subseteq BOOLEAN
ASSUME FlagsAssumption == RemoteQuiesce \in BOOLEAN /\ Prompt \in BOOLEAN
ASSUME FailuresAssumption == MaxReadFailures \in Nat \ {0}

FeedbackCalls == {"feedback", "stamped"}  \* waitFeedback, waitFeedbackStamped
Calls == FeedbackCalls \cup {"cycle"}     \* waitCycle

VARIABLES
    \* shared members
    run,        \* thread_run_
    quiesced,   \* quiesced_
    sync,       \* synchronize_commands_
    open,       \* command_window_open_
    unseen,     \* the calls whose last_seen is behind the sequence number
    \* the background thread
    pc,
    readFails,  \* failed_reads_row
    \* the waiter, which is the controller's thread
    call,       \* the wait it is in, or was last in
    at,         \* "away", or in the call: "checked" (holds the mutex, about
                \* to sleep), "blocked", "woken" (notified, wants the mutex)
    result      \* of its last return: "none", "zero", "seq"

flags == <<run, quiesced, sync>>
thread == <<pc, readFails>>
waiter == <<call, at, result>>
vars == <<flags, open, unseen, thread, waiter>>

TypeOK ==
    /\ run \in BOOLEAN /\ quiesced \in BOOLEAN /\ sync \in BOOLEAN
    /\ open \in BOOLEAN
    /\ unseen \subseteq Calls
    /\ pc \in {"none", "top", "read", "open", "window", "write", "book", "end",
               "sleep", "exit"}
    /\ readFails \in 0..MaxReadFailures
    /\ call \in Calls
    /\ at \in {"away", "checked", "blocked", "woken"}
    /\ result \in {"none", "zero", "seq"}
    /\ open => pc = "window"

Init ==
    /\ run = FALSE /\ quiesced = FALSE /\ sync = FALSE
    /\ open = FALSE
    /\ unseen = {}
    /\ pc = "none" /\ readFails = 0
    /\ call = "cycle" /\ at = "away" /\ result = "none"

(* Whoever wants the mutex of the calls in C waits for a waiter that has   *)
(* checked and does not sleep yet.                                         *)
Free(C) == ~(at = "checked" /\ call \in C)

(* notify_all() on the condition variable of the calls in C: a waiter that *)
(* does not sleep yet hears nothing.                                       *)
Notify(C) ==
    /\ at' = IF at = "blocked" /\ call \in C THEN "woken" ELSE at
    /\ UNCHANGED <<call, result>>

-----------------------------------------------------------------------------
(* The waiter.                                                             *)

WindowReady == sync => open

(* The predicate of the wait. *)
Ready(c) ==
    IF c = "cycle"
      THEN c \in unseen \/ ~run
      ELSE (c \in unseen /\ WindowReady) \/ ~run \/ quiesced

(* waitCycle returns the number it has; waitFeedback looks at the quiesce  *)
(* only, waitFeedbackStamped at both flags.                                *)
Result(c) ==
    LET stopped == CASE c = "cycle"    -> FALSE
                     [] c = "feedback" -> quiesced
                     [] c = "stamped"  -> quiesced \/ ~run
    IN  IF c # "cycle" /\ (stopped \/ c \notin unseen) THEN "zero" ELSE "seq"

(* The caller remembers what it was given as its next last_seen; readState *)
(* moves the one of step() along.                                          *)
Seen(c) == IF c = "stamped" THEN FeedbackCalls ELSE {c}

CheckAndReturn(c) ==
    IF Ready(c)
      THEN /\ at' = "away"
           /\ result' = Result(c)
           /\ unseen' = IF Result(c) = "seq" THEN unseen \ Seen(c) ELSE unseen
      ELSE at' = "checked" /\ UNCHANGED <<result, unseen>>

(* The call takes the mutex and refuses at once when nothing can come. *)
Enter(c) ==
    /\ at = "away"
    /\ call' = c
    /\ IF ~run \/ (c # "cycle" /\ quiesced)
         THEN at' = "away" /\ result' = "zero" /\ UNCHANGED unseen
         ELSE CheckAndReturn(c)
    /\ UNCHANGED <<flags, open, thread>>

Block ==
    /\ at = "checked"
    /\ at' = "blocked"
    /\ UNCHANGED <<flags, open, unseen, thread, call, result>>

Recheck ==
    /\ at = "woken"
    /\ CheckAndReturn(call)
    /\ UNCHANGED <<flags, open, thread, call>>

(* startThread(), stopThread() and, unless RemoteQuiesce, requestQuiesce() *)
(* are called by the waiter's own thread, between waits.                   *)
Start(s) ==
    /\ at = "away" /\ pc = "none"
    /\ run' = TRUE /\ sync' = s /\ open' = FALSE
    /\ pc' = "top" /\ readFails' = 0
    /\ UNCHANGED <<quiesced, unseen, waiter>>

Stop ==
    /\ at = "away" /\ run
    /\ run' = FALSE
    /\ Notify(FeedbackCalls)
    /\ UNCHANGED <<quiesced, sync, open, unseen, thread>>

RequestQuiesce ==
    /\ ~quiesced
    /\ at = "away" \/ RemoteQuiesce
    /\ quiesced' = TRUE
    /\ Notify(FeedbackCalls)
    /\ UNCHANGED <<run, sync, open, unseen, thread>>

-----------------------------------------------------------------------------
(* The background thread.                                                  *)

LoopTop ==
    /\ pc = "top"
    /\ pc' = IF ~run THEN "exit" ELSE IF quiesced THEN "end" ELSE "read"
    /\ UNCHANGED <<flags, open, unseen, readFails, waiter>>

(* readFeedback publishes under the mutex and notifies nobody. *)
ReadSucceeds ==
    /\ pc = "read" /\ ~quiesced /\ Free(FeedbackCalls)
    /\ unseen' = unseen \cup FeedbackCalls
    /\ readFails' = 0
    /\ pc' = IF sync THEN "open" ELSE "write"
    /\ UNCHANGED <<flags, open, waiter>>

ReadFails ==
    /\ pc = "read"
    /\ readFails' = IF readFails < MaxReadFailures THEN readFails + 1 ELSE readFails
    /\ pc' = IF quiesced THEN "end" ELSE "write"
    /\ UNCHANGED <<flags, open, unseen, waiter>>

WindowWakes == FeedbackCalls

(* The gate after the read; then the window opens and wakes the controller. *)
OpenWindow ==
    /\ pc = "open"
    /\ IF quiesced
         THEN pc' = "end" /\ UNCHANGED <<open, waiter>>
         ELSE /\ Free(FeedbackCalls)
              /\ pc' = "window" /\ open' = TRUE
              /\ Notify(WindowWakes)
    /\ UNCHANGED <<flags, unseen, readFails>>

CloseLeavesOpen == FALSE

(* The cutoff, a target, a stop or a quiesce. *)
CloseWindow ==
    /\ pc = "window" /\ Free(FeedbackCalls)
    /\ open' = CloseLeavesOpen
    /\ pc' = "write"
    /\ UNCHANGED <<flags, unseen, readFails, waiter>>

(* The gate before the write, the write, the records under the mutex. *)
Write ==
    /\ pc = "write"
    /\ IF quiesced \/ ~run THEN pc' = "end"
                           ELSE Free(FeedbackCalls) /\ pc' = "book"
    /\ UNCHANGED <<flags, open, unseen, readFails, waiter>>

(* Failing reads escalate, and a failing write or the deadman may:         *)
(* stopThread() called from the thread itself signals.                     *)
Book ==
    /\ pc = "book"
    /\ pc' = "end"
    /\ \/ /\ ~quiesced
          /\ run' = FALSE
          /\ Notify(FeedbackCalls)
       \/ /\ quiesced \/ readFails < MaxReadFailures
          /\ UNCHANGED <<run, waiter>>
    /\ UNCHANGED <<quiesced, sync, open, unseen, readFails>>

(* Fault: a quiesced cycle is not booked. *)
FaultCycleBooked == ~quiesced

CycleBooked == TRUE

EndCycle ==
    /\ pc = "end" /\ Free({"cycle"})
    /\ pc' = "sleep"
    /\ IF CycleBooked
         THEN unseen' = unseen \cup {"cycle"} /\ Notify({"cycle"})
         ELSE UNCHANGED <<unseen, waiter>>
    /\ UNCHANGED <<flags, open, readFails>>

Wake ==
    /\ pc = "sleep"
    /\ Prompt => at # "checked"
    /\ pc' = "top"
    /\ UNCHANGED <<flags, open, unseen, readFails, waiter>>

(* Fault: the loop leaves without the last notifications. *)
FaultExitWakes == {}

ExitWakes == Calls

Exit ==
    /\ pc = "exit"
    /\ pc' = "none"
    /\ Notify(ExitWakes)
    /\ UNCHANGED <<flags, open, unseen, readFails>>

Thread ==
    \/ LoopTop \/ ReadSucceeds \/ ReadFails \/ OpenWindow \/ CloseWindow
    \/ Write \/ Book \/ EndCycle \/ Wake \/ Exit

Waiter == (\E c \in Calls : Enter(c)) \/ Block \/ Recheck

Next ==
    \/ Waiter \/ Thread
    \/ \E s \in Syncs : Start(s)
    \/ Stop \/ RequestQuiesce

Spec == Init /\ [][Next]_vars

(* The threads run.  A controller woken into a window gets the mutex       *)
(* before some window closes: a window takes most of a control cycle.      *)
FairSpec ==
    /\ Spec
    /\ WF_vars(Thread)
    /\ WF_vars(Block) /\ WF_vars(Recheck)
    /\ SF_vars(Recheck /\ at' = "away")

-----------------------------------------------------------------------------
(* Properties.                                                             *)

(* When the background thread has left its loop nobody still sleeps on its *)
(* condition variables: no one else would wake it.                         *)
NobodyLeftAsleep == pc = "none" => at # "blocked"

(* waitCycle() stays responsive, also on a quiesced bus.                   *)
CycleWaitReturns == (at # "away" /\ call = "cycle") ~> at = "away"

(* waitFeedback() and waitFeedbackStamped() return: with a new feedback,   *)
(* or because the thread stopped or the bus was quiesced.                  *)
FeedbackWaitReturns == (at # "away" /\ call # "cycle") ~> at = "away"

=============================================================================
