----------------------------- MODULE LoopProofs -----------------------------
(***************************************************************************)
(* The loops of an arm that is on: the background thread of CycleThread,   *)
(* and the runs of ArmRuns, which command the arm cycle by cycle.          *)
(***************************************************************************)
EXTENDS CycleThread, ArmRuns, TLAPS

(***************************************************************************)
(* Proofs about CycleThread, for every timeout, deadline and number of     *)
(* failures, every operating mode and both ways to start the thread.       *)
(*                                                                         *)
(* The deadman's bound is the invariant DeadmanInv: while the thread may   *)
(* still write, the writes since the last submission are no more than its  *)
(* age in cycles, and one more between a write and the end of its cycle.   *)
(***************************************************************************)
(* The thread outlives its activation only to leave its loop. *)
ActiveInv ==
    /\ ~activated => pc \in {"none", "sleep", "top"}
    /\ ~activated /\ pc # "none" => ~run
    /\ EscalatedIsOver
    /\ mainPc = "deactivate" => thread = "none"

(* A count below its limit lets the thread go on. *)
FailureInv ==
    run /\ ~quiesced =>
        /\ pc \in {"top", "read", "sleep", "window"} => readFails < MaxReadFailures
        /\ pc \in {"top", "read", "sleep", "window", "write"} => writeFails < MaxWriteFailures

(* What came in through the window, and what it was computed from. *)
WindowInv ==
    /\ pc \in {"none", "top", "read", "sleep"} => ~received
    /\ pc \in {"window", "write"} /\ received => source \in {"untagged", "latest"}

(* The cycle's command is an old one only if the write will not happen. *)
CommandInv ==
    /\ activated /\ target = "session" => armed
    /\ pc = "write" /\ sync /\ readOk /\ mode = "velocity"
         => command # "session" \/ received \/ ~run \/ quiesced

(* The cycle has written and its sleep is not over. *)
Written == pc = "book" \/ (pc = "sleep" /\ ~due)

MayWrite == activated /\ ~quiesced /\ pc # "stopping"

DeadmanInv ==
    armed =>
        /\ since <= WriteBound
        /\ MayWrite => /\ since <= subAge + (IF Written THEN 1 ELSE 0)
                       /\ pc # "book" => since <= Timeout + 1

IInv == TypeOK /\ ActiveInv /\ FailureInv /\ WindowInv /\ CommandInv /\ DeadmanInv

-----------------------------------------------------------------------------
(* The types.                                                              *)

(* What the assumptions say of the constants. *)
LEMMA Bounds ==
    /\ Timeout \in Nat /\ Deadline \in Nat
    /\ MaxReadFailures \in Nat \ {0} /\ MaxWriteFailures \in Nat \ {0}
    /\ WriteBound = Timeout + 2
BY TimeoutAssumption, DeadlineAssumption, FailuresAssumption DEF WriteBound

(* A counter that stops at its bound.                                      *)
LEMMA UpToTyped ==
    ASSUME NEW bound \in Nat, NEW n \in 0..bound
    PROVE  /\ UpTo(n, bound) \in 0..bound
           /\ UpTo(n, bound) = n + 1 \/ (n = bound /\ UpTo(n, bound) = bound)
BY DEF UpTo

(* The initial state of the thread is well typed. *)
LEMMA TypeInit == Init => TypeOK
<1> SUFFICES ASSUME Init PROVE TypeOK
  OBVIOUS
<1>1. FlagTypes
  BY DEF Init, FlagTypes
<1>2. CountTypes
  BY Bounds DEF Init, CountTypes
<1>3. PlaceTypes
  BY DEF Init, PlaceTypes, Targets
<1> QED
  BY <1>1, <1>2, <1>3 DEF TypeOK

(* Time, and what the main thread does.                                    *)
LEMMA TypeMain ==
    ASSUME TypeOK, Main \/ Tick \/ RequestQuiesce
    PROVE  TypeOK'
<1> USE DEF session, lifecycle, submission, ages, locals
<1>1. CASE Tick
  <2>1. FlagTypes'
    BY <1>1 DEF Tick, TypeOK, FlagTypes
  <2>2. CountTypes'
    BY <1>1, Bounds, UpToTyped DEF Tick, TypeOK, CountTypes
  <2>3. PlaceTypes'
    BY <1>1 DEF Tick, TypeOK, PlaceTypes, Targets
  <2> QED
    BY <2>1, <2>2, <2>3 DEF TypeOK
<1>2. CASE RequestQuiesce
  <2>1. FlagTypes'
    BY <1>2 DEF RequestQuiesce, TypeOK, FlagTypes
  <2>2. CountTypes'
    BY <1>2 DEF RequestQuiesce, TypeOK, CountTypes
  <2>3. PlaceTypes'
    BY <1>2 DEF RequestQuiesce, TypeOK, PlaceTypes, Targets
  <2> QED
    BY <2>1, <2>2, <2>3 DEF TypeOK
<1>3. CASE Activate
  <2>1. FlagTypes'
    BY <1>3 DEF Activate, NewFeedback, ActivatedTargets, TypeOK, FlagTypes
  <2>2. CountTypes'
    BY <1>3, Bounds DEF Activate, NewFeedback, ActivatedTargets, TypeOK, CountTypes
  <2>3. PlaceTypes'
    BY <1>3 DEF Activate, NewFeedback, ActivatedTargets, TypeOK, PlaceTypes, Targets
  <2> QED
    BY <2>1, <2>2, <2>3 DEF TypeOK
<1>4. ASSUME NEW s \in Sync, StartThread(s) PROVE TypeOK'
  <2>1. FlagTypes'
    BY <1>4, SyncAssumption DEF StartThread, TypeOK, FlagTypes
  <2>2. CountTypes'
    BY <1>4, Bounds DEF StartThread, TypeOK, CountTypes
  <2>3. PlaceTypes'
    BY <1>4 DEF StartThread, TypeOK, PlaceTypes, Targets
  <2> QED
    BY <2>1, <2>2, <2>3 DEF TypeOK
<1>5. CASE TakeFeedback
  <2>1. FlagTypes'
    BY <1>5 DEF TakeFeedback, TypeOK, FlagTypes
  <2>2. CountTypes'
    BY <1>5 DEF TakeFeedback, TypeOK, CountTypes
  <2>3. PlaceTypes'
    BY <1>5 DEF TakeFeedback, TypeOK, PlaceTypes, Targets
  <2> QED
    BY <2>1, <2>2, <2>3 DEF TypeOK
<1>6. ASSUME NEW tagged \in BOOLEAN, Submit(tagged) PROVE TypeOK'
  <2>1. FlagTypes'
    <3>1. FlagTypes
      BY DEF TypeOK
    <3>2. CASE Accept("untagged") \/ Accept(held)
      <4>1. received' \in BOOLEAN /\ have' \in BOOLEAN
        BY <3>2 DEF Accept
      <4> QED
        BY <1>6, <3>1, <4>1 DEF Submit, FlagTypes
    <3>3. CASE Reject
      BY <1>6, <3>1, <3>3 DEF Submit, Reject, FlagTypes
    <3> QED
      BY <1>6, <3>2, <3>3 DEF Submit
  <2>2. CountTypes'
    BY <1>6, Bounds DEF Submit, Accept, Reject, TypeOK, CountTypes
  <2>3. PlaceTypes'
    BY <1>6
      DEF Submit, Accept, Reject, FreshTag, SourceIsLatest, TypeOK, PlaceTypes,
          Targets
  <2> QED
    BY <2>1, <2>2, <2>3 DEF TypeOK
<1>7. CASE StopRequest("join") \/ StopRequest("joinDeactivate")
  <2>1. FlagTypes'
    <3>1. run' = FALSE
          /\ UNCHANGED <<session, sync, due, submission, windowOpen, locals>>
      BY <1>7, Zenon DEF StopRequest
    <3> QED
      BY <3>1 DEF TypeOK, FlagTypes
  <2>2. CountTypes'
    BY <1>7 DEF StopRequest, TypeOK, CountTypes
  <2>3. PlaceTypes'
    BY <1>7 DEF StopRequest, TypeOK, PlaceTypes, Targets
  <2> QED
    BY <2>1, <2>2, <2>3 DEF TypeOK
<1>8. CASE Join
  <2>1. FlagTypes'
    BY <1>8 DEF Join, TypeOK, FlagTypes
  <2>2. CountTypes'
    BY <1>8 DEF Join, TypeOK, CountTypes
  <2>3. PlaceTypes'
    BY <1>8 DEF Join, TypeOK, PlaceTypes, Targets
  <2> QED
    BY <2>1, <2>2, <2>3 DEF TypeOK
<1>9. CASE Deactivate
  <2>1. FlagTypes'
    BY <1>9 DEF Deactivate, Released, TypeOK, FlagTypes
  <2>2. CountTypes'
    BY <1>9 DEF Deactivate, Released, TypeOK, CountTypes
  <2>3. PlaceTypes'
    BY <1>9 DEF Deactivate, Released, TypeOK, PlaceTypes, Targets
  <2> QED
    BY <2>1, <2>2, <2>3 DEF TypeOK
<1>10. CASE DirectWrite
  <2>1. FlagTypes'
    BY <1>10 DEF DirectWrite, TypeOK, FlagTypes
  <2>2. CountTypes'
    BY <1>10, Bounds DEF DirectWrite, TypeOK, CountTypes
  <2>3. PlaceTypes'
    BY <1>10 DEF DirectWrite, TypeOK, PlaceTypes, Targets
  <2> QED
    BY <2>1, <2>2, <2>3 DEF TypeOK
<1>11. CASE DirectEscalate
  <2>1. FlagTypes'
    BY <1>11 DEF DirectEscalate, Released, TypeOK, FlagTypes
  <2>2. CountTypes'
    BY <1>11 DEF DirectEscalate, Released, TypeOK, CountTypes
  <2>3. PlaceTypes'
    BY <1>11 DEF DirectEscalate, Released, TypeOK, PlaceTypes, Targets
  <2> QED
    BY <2>1, <2>2, <2>3 DEF TypeOK
<1> QED
  BY <1>1, <1>2, <1>3, <1>4, <1>5, <1>6, <1>7, <1>8, <1>9, <1>10, <1>11 DEF Main

(* What the background thread does.                                        *)
LEMMA TypeThread ==
    ASSUME TypeOK, Thread
    PROVE  TypeOK'
<1> USE DEF session, lifecycle, submission, ages, locals
<1>1. CASE LoopTop
  <2>1. FlagTypes'
    <3> USE DEF LoopTop, EndCycle, FlagTypes
    <3>1. FlagTypes
      BY DEF TypeOK
    <3>2. CASE LoopEnds
      BY <1>1, <3>1, <3>2
    <3>3. CASE ~LoopEnds /\ quiesced
      BY <1>1, <3>1, <3>3
    <3>4. CASE ~LoopEnds /\ ~quiesced
      BY <1>1, <3>1, <3>4
    <3> QED
      BY <3>2, <3>3, <3>4
  <2>2. CountTypes'
    BY <1>1, Bounds DEF LoopTop, EndCycle, TypeOK, CountTypes
  <2>3. PlaceTypes'
    BY <1>1 DEF LoopTop, EndCycle, TypeOK, PlaceTypes, Targets
  <2> QED
    BY <2>1, <2>2, <2>3 DEF TypeOK
<1>2. CASE ReadFails
  <2>1. FlagTypes'
    BY <1>2 DEF ReadFails, CopyTargets, EndCycle, TypeOK, FlagTypes
  <2>2. CountTypes'
    BY <1>2, Bounds, UpToTyped
      DEF ReadFails, CopyTargets, EndCycle, TypeOK, CountTypes
  <2>3. PlaceTypes'
    BY <1>2 DEF ReadFails, CopyTargets, EndCycle, TypeOK, PlaceTypes, Targets
  <2> QED
    BY <2>1, <2>2, <2>3 DEF TypeOK
<1>3. CASE ReadSucceeds
  <2>1. FlagTypes'
    BY <1>3 DEF ReadSucceeds, CopyTargets, NewFeedback, TypeOK, FlagTypes
  <2>2. CountTypes'
    BY <1>3, Bounds DEF ReadSucceeds, CopyTargets, NewFeedback, TypeOK, CountTypes
  <2>3. PlaceTypes'
    BY <1>3 DEF ReadSucceeds, CopyTargets, NewFeedback, TypeOK, PlaceTypes, Targets
  <2> QED
    BY <2>1, <2>2, <2>3 DEF TypeOK
<1>4. CASE CloseWindow
  <2>1. FlagTypes'
    BY <1>4 DEF CloseWindow, CopyTargets, Miss, TypeOK, FlagTypes
  <2>2. CountTypes'
    BY <1>4 DEF CloseWindow, CopyTargets, TypeOK, CountTypes
  <2>3. PlaceTypes'
    BY <1>4 DEF CloseWindow, CopyTargets, TypeOK, PlaceTypes, Targets
  <2> QED
    BY <2>1, <2>2, <2>3 DEF TypeOK
<1>5. CASE SkipWrite
  <2>1. FlagTypes'
    BY <1>5 DEF SkipWrite, EndCycle, TypeOK, FlagTypes
  <2>2. CountTypes'
    BY <1>5 DEF SkipWrite, EndCycle, TypeOK, CountTypes
  <2>3. PlaceTypes'
    BY <1>5 DEF SkipWrite, EndCycle, TypeOK, PlaceTypes, Targets
  <2> QED
    BY <2>1, <2>2, <2>3 DEF TypeOK
<1>6. CASE WriteSucceeds
  <2>1. FlagTypes'
    BY <1>6 DEF WriteSucceeds, TypeOK, FlagTypes
  <2>2. CountTypes'
    BY <1>6, Bounds, UpToTyped DEF WriteSucceeds, TypeOK, CountTypes
  <2>3. PlaceTypes'
    BY <1>6 DEF WriteSucceeds, TypeOK, PlaceTypes, Targets
  <2> QED
    BY <2>1, <2>2, <2>3 DEF TypeOK
<1>7. CASE WriteFails
  <2>1. FlagTypes'
    BY <1>7 DEF WriteFails, TypeOK, FlagTypes
  <2>2. CountTypes'
    BY <1>7, Bounds, UpToTyped DEF WriteFails, TypeOK, CountTypes
  <2>3. PlaceTypes'
    BY <1>7 DEF WriteFails, TypeOK, PlaceTypes, Targets
  <2> QED
    BY <2>1, <2>2, <2>3 DEF TypeOK
<1>8. CASE Check
  <2>1. FlagTypes'
    <3>1. /\ escalated' = TRUE \/ escalated' = escalated
          /\ EndCycle \/ UNCHANGED <<due, readOk, received, missed>>
      BY <1>8, Zenon DEF Check
    <3>2. UNCHANGED <<activated, quiesced, run, sync, have, armed, windowOpen, noFeedback>>
      BY <1>8 DEF Check
    <3>3. escalated' \in BOOLEAN
      BY <3>1 DEF TypeOK, FlagTypes
    <3>4. CASE EndCycle
      BY <3>2, <3>3, <3>4 DEF EndCycle, TypeOK, FlagTypes
    <3>5. CASE UNCHANGED <<due, readOk, received, missed>>
      BY <3>2, <3>3, <3>5 DEF TypeOK, FlagTypes
    <3> QED
      BY <3>1, <3>4, <3>5
  <2>2. CountTypes'
    BY <1>8 DEF Check, EndCycle, TypeOK, CountTypes
  <2>3. PlaceTypes'
    BY <1>8 DEF Check, EndCycle, TypeOK, PlaceTypes, Targets
  <2> QED
    BY <2>1, <2>2, <2>3 DEF TypeOK
<1>9. CASE Escalate
  <2>1. FlagTypes'
    BY <1>9
      DEF Escalate, EndCycle, ActiveAfterEscalation, ThreadAfterEscalation, Released,
          TypeOK, FlagTypes
  <2>2. CountTypes'
    BY <1>9
      DEF Escalate, EndCycle, ActiveAfterEscalation, ThreadAfterEscalation, Released,
          TypeOK, CountTypes
  <2>3. PlaceTypes'
    BY <1>9
      DEF Escalate, EndCycle, ActiveAfterEscalation, ThreadAfterEscalation, Released,
          TypeOK, PlaceTypes, Targets
  <2> QED
    BY <2>1, <2>2, <2>3 DEF TypeOK
<1>10. CASE Wake
  <2>1. FlagTypes'
    BY <1>10 DEF Wake, TypeOK, FlagTypes
  <2>2. CountTypes'
    BY <1>10 DEF Wake, TypeOK, CountTypes
  <2>3. PlaceTypes'
    BY <1>10 DEF Wake, TypeOK, PlaceTypes, Targets
  <2> QED
    BY <2>1, <2>2, <2>3 DEF TypeOK
<1> QED
  BY <1>1, <1>2, <1>3, <1>4, <1>5, <1>6, <1>7, <1>8, <1>9, <1>10 DEF Thread

(* Every step of either thread keeps the types. *)
LEMMA TypeStep == TypeOK /\ [Next]_vars => TypeOK'
<1> SUFFICES ASSUME TypeOK, [Next]_vars PROVE TypeOK'
  OBVIOUS
<1>1. CASE UNCHANGED vars
  <2>1. FlagTypes'
    BY <1>1 DEF TypeOK, FlagTypes, vars, session, lifecycle, submission, locals
  <2>2. CountTypes'
    BY <1>1 DEF TypeOK, CountTypes, vars, ages, locals
  <2>3. PlaceTypes'
    BY <1>1 DEF TypeOK, PlaceTypes, vars, lifecycle, submission, locals
  <2> QED
    BY <2>1, <2>2, <2>3 DEF TypeOK
<1> QED
  BY <1>1, TypeMain, TypeThread DEF Next

(* Every variable keeps its type.                                          *)
THEOREM TypeCorrect == Spec => []TypeOK
BY TypeInit, TypeStep, PTL DEF Spec

-----------------------------------------------------------------------------
(* Activation and the thread.                                              *)

(* Every step keeps what an active session means. *)
LEMMA ActiveStep == TypeOK /\ ActiveInv /\ [Next]_vars => ActiveInv'
<1> SUFFICES ASSUME TypeOK, ActiveInv, [Next]_vars PROVE ActiveInv'
  OBVIOUS
<1> USE DEF ActiveInv, EscalatedIsOver, session, lifecycle
<1>1. thread = "running" <=> pc # "none"
  BY DEF TypeOK, PlaceTypes
<1>2. CASE Tick \/ RequestQuiesce \/ TakeFeedback \/ DirectWrite \/ Activate
  BY <1>2 DEF Tick, RequestQuiesce, TakeFeedback, DirectWrite, Activate
<1>3. ASSUME NEW s \in Sync, StartThread(s) PROVE ActiveInv'
  BY <1>1, <1>3 DEF StartThread
<1>4. ASSUME NEW tagged \in BOOLEAN, Submit(tagged) PROVE ActiveInv'
  BY <1>4 DEF Submit
<1>5. ASSUME NEW next \in {"join", "joinDeactivate"}, StopRequest(next) PROVE ActiveInv'
  BY <1>5 DEF StopRequest
<1>6. CASE Join \/ Deactivate \/ DirectEscalate
  BY <1>1, <1>6 DEF Join, Deactivate, DirectEscalate
<1>7. CASE LoopTop
  BY <1>1, <1>7 DEF LoopTop, LoopEnds, EndCycle
<1>8. CASE ReadFails \/ ReadSucceeds \/ CloseWindow \/ SkipWrite \/ WriteSucceeds \/ WriteFails
  <2>1. /\ pc \in {"read", "window", "write"} /\ pc' # "stopping"
        /\ UNCHANGED <<session, run, thread, mainPc>>
    BY <1>8 DEF ReadFails, ReadSucceeds, CloseWindow, SkipWrite, WriteSucceeds,
                WriteFails, EndCycle
  <2> QED
    BY <2>1
<1>9. CASE Check
  BY <1>9 DEF Check, EndCycle
<1>10. CASE Escalate \/ Wake
  BY <1>10 DEF Escalate, Wake, EndCycle, ActiveAfterEscalation, ThreadAfterEscalation
<1>11. CASE UNCHANGED vars
  BY <1>11 DEF vars
<1> QED
  BY <1>2, <1>3, <1>4, <1>5, <1>6, <1>7, <1>8, <1>9, <1>10, <1>11
    DEF Next, Main, Thread

-----------------------------------------------------------------------------
(* Failures in a row.                                                      *)

(* Every step keeps the bounds of the failure counters. *)
LEMMA FailureStep == TypeOK /\ FailureInv /\ [Next]_vars => FailureInv'
<1> SUFFICES ASSUME TypeOK, FailureInv, [Next]_vars PROVE FailureInv'
  OBVIOUS
<1> USE DEF FailureInv, session, lifecycle, locals
<1>1. CASE Tick \/ RequestQuiesce \/ TakeFeedback \/ DirectWrite \/ Activate
           \/ Join \/ Deactivate \/ DirectEscalate
  BY <1>1 DEF Tick, RequestQuiesce, TakeFeedback, DirectWrite, Activate, Join,
              Deactivate, DirectEscalate
<1>2. ASSUME NEW s \in Sync, StartThread(s) PROVE FailureInv'
  BY <1>2, Bounds DEF StartThread
<1>3. ASSUME NEW tagged \in BOOLEAN, Submit(tagged) PROVE FailureInv'
  BY <1>3 DEF Submit
<1>4. ASSUME NEW next \in {"join", "joinDeactivate"}, StopRequest(next) PROVE FailureInv'
  BY <1>4 DEF StopRequest
<1>5. CASE LoopTop
  BY <1>5 DEF LoopTop, LoopEnds, EndCycle
<1>6. CASE ReadFails
  BY <1>6 DEF ReadFails, EndCycle
<1>7. CASE ReadSucceeds
  BY <1>7, Bounds DEF ReadSucceeds
<1>8. CASE CloseWindow \/ SkipWrite
  BY <1>8 DEF CloseWindow, SkipWrite, EndCycle
<1>9. CASE WriteSucceeds \/ WriteFails
  BY <1>9 DEF WriteSucceeds, WriteFails
<1>10. CASE Check
  <2>1. CASE ~quiesced /\ MustEscalate
    BY <1>10, <2>1 DEF Check
  <2>2. CASE quiesced
    BY <1>10, <2>2 DEF Check
  <2>3. CASE ~quiesced /\ ~MustEscalate
    <3>1. readFails < MaxReadFailures /\ writeFails < MaxWriteFailures
      BY <2>3, Bounds DEF MustEscalate, BusFailing, TypeOK, CountTypes
    <3>2. UNCHANGED <<readFails, writeFails, run, quiesced>> /\ pc' = "sleep"
      BY <1>10, <2>3 DEF Check, EndCycle
    <3> QED
      BY <3>1, <3>2
  <2> QED
    BY <2>1, <2>2, <2>3
<1>11. CASE Escalate \/ Wake
  BY <1>11 DEF Escalate, Wake
<1>12. CASE UNCHANGED vars
  BY <1>12 DEF vars
<1> QED
  BY <1>1, <1>2, <1>3, <1>4, <1>5, <1>6, <1>7, <1>8, <1>9, <1>10, <1>11, <1>12
  DEF Next, Main, Thread

-----------------------------------------------------------------------------
(* The command window.                                                     *)

(* Every step keeps when a window may be open. *)
LEMMA WindowStep == TypeOK /\ ActiveInv /\ WindowInv /\ [Next]_vars => WindowInv'
<1> SUFFICES ASSUME TypeOK, ActiveInv, WindowInv, [Next]_vars PROVE WindowInv'
  OBVIOUS
<1> USE DEF WindowInv, lifecycle, submission, locals
<1>1. CASE Tick \/ RequestQuiesce \/ TakeFeedback \/ DirectWrite
           \/ Join \/ Deactivate \/ DirectEscalate
  BY <1>1 DEF Tick, RequestQuiesce, TakeFeedback, DirectWrite, Join, Deactivate,
              DirectEscalate
<1>2. CASE Activate
  <2>1. pc \notin {"window", "write"} /\ UNCHANGED <<pc, received>>
    BY <1>2 DEF Activate, ActiveInv
  <2> QED
    BY <2>1
<1>3. ASSUME NEW s \in Sync, StartThread(s) PROVE WindowInv'
  <2>1. pc = "none" /\ pc' = "top" /\ received' = received
    BY <1>3 DEF StartThread, TypeOK, PlaceTypes
  <2> QED
    BY <2>1
<1>4. ASSUME NEW tagged \in BOOLEAN, Submit(tagged) PROVE WindowInv'
  <2>1. pc' = pc
    BY <1>4 DEF Submit
  <2>2. CASE Reject
    BY <2>1, <2>2 DEF Reject
  <2>3. CASE source' \in {"untagged", "latest"} /\ received' = (received \/ pc = "window")
    BY <2>1, <2>3
  <2>4. tagged /\ FreshTag => held = "latest"
    BY DEF FreshTag, SourceIsLatest
  <2> QED
    BY <1>4, <2>2, <2>3, <2>4 DEF Submit, Accept
<1>5. ASSUME NEW next \in {"join", "joinDeactivate"}, StopRequest(next) PROVE WindowInv'
  BY <1>5 DEF StopRequest
<1>6. CASE LoopTop
  BY <1>6 DEF LoopTop, LoopEnds, EndCycle
<1>7. CASE ReadFails
  BY <1>7 DEF ReadFails, EndCycle, CopyTargets
<1>8. CASE ReadSucceeds
  BY <1>8 DEF ReadSucceeds, CopyTargets
<1>9. CASE CloseWindow
  BY <1>9 DEF CloseWindow, CopyTargets
<1>10. CASE SkipWrite \/ WriteSucceeds \/ WriteFails
  BY <1>10 DEF SkipWrite, WriteSucceeds, WriteFails, EndCycle
<1>11. CASE Check
  BY <1>11 DEF Check, EndCycle
<1>12. CASE Escalate \/ Wake
  BY <1>12 DEF Escalate, Wake, EndCycle
<1>13. CASE UNCHANGED vars
  BY <1>13 DEF vars
<1> QED
  BY <1>1, <1>2, <1>3, <1>4, <1>5, <1>6, <1>7, <1>8, <1>9, <1>10, <1>11, <1>12, <1>13
  DEF Next, Main, Thread

(* Every step keeps where the command in hand came from. *)
LEMMA CommandStep ==
    TypeOK /\ ActiveInv /\ CommandInv /\ [Next]_vars => CommandInv'
<1> SUFFICES ASSUME TypeOK, ActiveInv, CommandInv, [Next]_vars PROVE CommandInv'
  OBVIOUS
<1> USE DEF CommandInv, session, lifecycle, submission, locals
<1>1. CASE Tick \/ RequestQuiesce \/ TakeFeedback \/ DirectWrite
           \/ Join \/ Deactivate \/ DirectEscalate
  BY <1>1 DEF Tick, RequestQuiesce, TakeFeedback, DirectWrite, Join, Deactivate,
              DirectEscalate
<1>2. CASE Activate
  <2>1. pc # "write" /\ pc' = pc
    BY <1>2 DEF Activate, ActiveInv
  <2>2. activated' => target' # "session"
    BY <1>2 DEF Activate, ActivatedTargets
  <2> QED
    BY <2>1, <2>2
<1>3. ASSUME NEW s \in Sync, StartThread(s) PROVE CommandInv'
  BY <1>3 DEF StartThread
<1>4. ASSUME NEW tagged \in BOOLEAN, Submit(tagged) PROVE CommandInv'
  <2>1. armed' /\ UNCHANGED <<pc, sync, readOk, mode, command, run, quiesced>>
    BY <1>4 DEF Submit
  <2>2. received => received'
    BY <1>4 DEF Submit, Accept, Reject
  <2> QED
    BY <2>1, <2>2
<1>5. ASSUME NEW next \in {"join", "joinDeactivate"}, StopRequest(next) PROVE CommandInv'
  BY <1>5 DEF StopRequest
<1>6. CASE LoopTop
  BY <1>6 DEF LoopTop, LoopEnds, EndCycle
<1>7. CASE ReadFails
  BY <1>7 DEF ReadFails, EndCycle
<1>8. CASE ReadSucceeds
  BY <1>8 DEF ReadSucceeds, CopyTargets
<1>9. CASE CloseWindow
  <2>1. activated
    BY <1>9 DEF CloseWindow, ActiveInv
  <2>2. /\ received' = received
        /\ command' = (IF Miss /\ mode = "velocity" THEN "zero" ELSE target)
        /\ UNCHANGED <<mode, session, run, submission>>
    BY <1>9 DEF CloseWindow, CopyTargets
  <2>3. CASE Miss
    BY <2>2, <2>3
  <2>4. CASE ~Miss
    BY <2>1, <2>2, <2>4 DEF Miss
  <2> QED
    BY <2>3, <2>4
<1>10. CASE SkipWrite \/ WriteSucceeds \/ WriteFails
  BY <1>10 DEF SkipWrite, WriteSucceeds, WriteFails, EndCycle
<1>11. CASE Check
  BY <1>11 DEF Check, EndCycle
<1>12. CASE Escalate \/ Wake
  BY <1>12 DEF Escalate, Wake, EndCycle, ActiveAfterEscalation
<1>13. CASE UNCHANGED vars
  BY <1>13 DEF vars
<1> QED
  BY <1>1, <1>2, <1>3, <1>4, <1>5, <1>6, <1>7, <1>8, <1>9, <1>10, <1>11, <1>12, <1>13
  DEF Next, Main, Thread

-----------------------------------------------------------------------------
(* The deadman.                                                            *)

(* A step that neither writes nor lets time pass keeps the bound.          *)
LEMMA NoWriteKeepsDeadman ==
    ASSUME TypeOK, DeadmanInv, UNCHANGED <<armed, subAge, since>>,
           MayWrite' => MayWrite,
           Written' \/ ~Written,
           pc # "book" \/ pc' = "book"
    PROVE  DeadmanInv'
BY Bounds DEF DeadmanInv, TypeOK, CountTypes

(* Every step keeps the count of writes behind the age of the submission. *)
LEMMA DeadmanStep ==
    TypeOK /\ ActiveInv /\ DeadmanInv /\ [Next]_vars => DeadmanInv'
<1> SUFFICES ASSUME TypeOK, ActiveInv, DeadmanInv, [Next]_vars PROVE DeadmanInv'
  OBVIOUS
<1> USE DEF session, lifecycle, submission, ages
<1>1. CASE Tick
  <2>1. /\ subAge' = UpTo(subAge, Timeout + 1)
        /\ due' = (pc = "sleep")
        /\ UNCHANGED <<armed, since, pc, session>>
    BY <1>1 DEF Tick
  <2>2. subAge \in 0..(Timeout + 1) /\ since \in Nat
    BY Bounds DEF TypeOK, CountTypes
  <2>3. MayWrite' = MayWrite
    BY <2>1 DEF MayWrite
  <2>4. CASE pc = "book"
    BY <2>1, <2>2, <2>3, <2>4, Bounds DEF UpTo, DeadmanInv, Written
  <2>5. CASE pc # "book"
    <3>1. ~Written'
      BY <2>1, <2>5 DEF Written
    <3>2. ASSUME armed, MayWrite PROVE since <= subAge'
      <4>1. since <= subAge + 1 /\ since <= Timeout + 1
        BY <2>2, <2>5, <3>2 DEF DeadmanInv
      <4>2. subAge = Timeout + 1 \/ subAge' = subAge + 1
        BY <2>1, <2>2, Bounds DEF UpTo
      <4>3. subAge' = subAge + 1 \/ subAge' = Timeout + 1
        BY <2>1, <2>2, Bounds DEF UpTo
      <4> QED
        BY <2>2, <4>1, <4>3, Bounds
    <3>3. subAge' \in Nat
      BY <2>1, <2>2, Bounds DEF UpTo
    <3>4. armed => since <= WriteBound /\ (MayWrite => since <= Timeout + 1)
      BY <2>5 DEF DeadmanInv
    <3> QED
      BY <2>1, <2>2, <2>3, <3>1, <3>2, <3>3, <3>4, Bounds DEF DeadmanInv
  <2> QED
    BY <2>4, <2>5
<1>2. CASE RequestQuiesce
  BY <1>2, NoWriteKeepsDeadman DEF RequestQuiesce, MayWrite, Written
<1>3. CASE Activate
  BY <1>3 DEF Activate, DeadmanInv
<1>4. ASSUME NEW s \in Sync, StartThread(s) PROVE DeadmanInv'
  <2>1. pc = "none" /\ pc' = "top" /\ UNCHANGED <<armed, subAge, since, session>>
    BY <1>4 DEF StartThread, TypeOK, PlaceTypes
  <2> QED
    BY <2>1, NoWriteKeepsDeadman DEF MayWrite, Written
<1>5. ASSUME NEW tagged \in BOOLEAN, Submit(tagged) PROVE DeadmanInv'
  <2>1. since' = 0 /\ subAge' = 0
    BY <1>5 DEF Submit, Accept, Reject
  <2> QED
    BY <2>1, Bounds DEF DeadmanInv
<1>6. CASE TakeFeedback \/ Join \/ DirectWrite
  BY <1>6, NoWriteKeepsDeadman DEF TakeFeedback, Join, DirectWrite, MayWrite, Written
<1>7. ASSUME NEW next \in {"join", "joinDeactivate"}, StopRequest(next) PROVE DeadmanInv'
  BY <1>7, NoWriteKeepsDeadman DEF StopRequest, MayWrite, Written
<1>8. CASE Deactivate \/ DirectEscalate
  BY <1>8, NoWriteKeepsDeadman DEF Deactivate, DirectEscalate, MayWrite, Written
<1>9. ASSUME pc \in {"top", "read", "window", "write"}, pc' \notin {"book", "stopping"},
             UNCHANGED <<armed, subAge, since, session>>
      PROVE  DeadmanInv'
  BY <1>9, NoWriteKeepsDeadman DEF MayWrite, Written
<1>10. CASE LoopTop \/ SkipWrite
  BY <1>9, <1>10 DEF LoopTop, SkipWrite, EndCycle
<1>11. CASE ReadFails \/ ReadSucceeds \/ CloseWindow
  BY <1>9, <1>11 DEF ReadFails, ReadSucceeds, CloseWindow, EndCycle
<1>12. CASE WriteSucceeds
  <2>1. /\ pc = "write" /\ pc' = "book" /\ MayWrite
        /\ since' = UpTo(since, WriteBound + 1)
        /\ UNCHANGED <<armed, subAge>>
    BY <1>12 DEF WriteSucceeds, WriterAccepts, MayWrite
  <2>2. armed => since <= subAge /\ since <= Timeout + 1
    BY <2>1, Bounds DEF DeadmanInv, Written, TypeOK, CountTypes
  <2>3. armed => since' = since + 1
    BY <2>1, <2>2, Bounds DEF UpTo, TypeOK, CountTypes
  <2>4. Written'
    BY <2>1 DEF Written
  <2> QED
    BY <2>1, <2>2, <2>3, <2>4, Bounds DEF DeadmanInv, TypeOK, CountTypes
<1>13. CASE WriteFails
  BY <1>13, NoWriteKeepsDeadman DEF WriteFails, MayWrite, Written
<1>14. CASE Check
  <2>1. pc = "book" /\ UNCHANGED <<armed, subAge, since, activated, quiesced>>
    BY <1>14 DEF Check
  <2>2. CASE ~quiesced /\ MustEscalate
    <3>1. ~MayWrite'
      BY <1>14, <2>2 DEF Check, MayWrite
    <3> QED
      BY <2>1, <3>1 DEF DeadmanInv
  <2>3. CASE quiesced
    BY <2>1, <2>3 DEF DeadmanInv, MayWrite
  <2>4. CASE ~quiesced /\ ~MustEscalate
    <3>1. pc' = "sleep" /\ Written /\ Written'
      BY <1>14, <2>1, <2>4 DEF Check, EndCycle, Written
    <3>2. armed => subAge <= Timeout
      BY <2>4, Bounds DEF MustEscalate, SubmissionStale, TypeOK, CountTypes
    <3>3. MayWrite' => MayWrite
      BY <2>1 DEF MayWrite
    <3> QED
      BY <2>1, <3>1, <3>2, <3>3, Bounds DEF DeadmanInv, TypeOK, CountTypes
  <2> QED
    BY <2>2, <2>3, <2>4
<1>15. CASE Escalate
  <2>1. ~MayWrite' /\ UNCHANGED <<armed, since>>
    BY <1>15 DEF Escalate, ActiveAfterEscalation, MayWrite
  <2> QED
    BY <2>1 DEF DeadmanInv
<1>16. CASE Wake
  BY <1>16, NoWriteKeepsDeadman DEF Wake, MayWrite, Written
<1>17. CASE UNCHANGED vars
  BY <1>17 DEF vars, DeadmanInv, MayWrite, Written
<1> QED
  BY <1>1, <1>2, <1>3, <1>4, <1>5, <1>6, <1>7, <1>8, <1>10, <1>11, <1>12, <1>13,
     <1>14, <1>15, <1>16, <1>17 DEF Next, Main, Thread

-----------------------------------------------------------------------------
(* The theorems.                                                           *)

(* The inductive invariant holds at the start. *)
LEMMA InvInit == Init => IInv
<1> SUFFICES ASSUME Init PROVE IInv
  OBVIOUS
<1>1. ActiveInv /\ FailureInv /\ WindowInv /\ CommandInv
  BY DEF Init, ActiveInv, EscalatedIsOver, FailureInv, WindowInv, CommandInv
<1>2. DeadmanInv
  BY DEF Init, DeadmanInv
<1> QED
  BY <1>1, <1>2, TypeInit DEF IInv

(* Every step keeps the inductive invariant. *)
LEMMA InvStep == IInv /\ [Next]_vars => IInv'
BY TypeStep, ActiveStep, FailureStep, WindowStep, CommandStep, DeadmanStep DEF IInv

(* The inductive invariant holds in every reachable state. *)
LEMMA InvHolds == Spec => []IInv
BY InvInit, InvStep, PTL DEF Spec

(* Once a controller armed the deadman the thread writes at most           *)
(* host_command_timeout_s / cycle + 2 commands that nobody submitted.      *)
THEOREM DeadmanBounds == Spec => []DeadmanBoundsWrites
<1>1. IInv => DeadmanBoundsWrites
  BY DEF IInv, DeadmanInv, DeadmanBoundsWrites
<1> QED
  BY InvHolds, <1>1, PTL

(* No thread goes on after max_read_failures or max_write_failures in a    *)
(* row, unless the bus is quiesced.                                        *)
THEOREM FailuresAlwaysStop == Spec => []FailuresStop
<1>1. IInv => FailuresStop
  BY DEF IInv, FailureInv, FailuresStop
<1> QED
  BY InvHolds, <1>1, PTL

(* A tagged command that came in through the window of a cycle was         *)
(* computed from the feedback of that cycle.                               *)
THEOREM FreshIsThisCycle == Spec => []FreshMeansThisCycle
<1>1. IInv => FreshMeansThisCycle
  BY DEF IInv, WindowInv, FreshMeansThisCycle
<1> QED
  BY InvHolds, <1>1, PTL

(* In velocity mode a cycle whose window the controller missed sends no    *)
(* velocity of this session again.  In current mode the command before is  *)
(* kept, and DeadmanBounds is what bounds it.                              *)
THEOREM MissedVelocityNotRepeated == Spec => MissSendsZero
<1>1. ASSUME IInv, [Next]_vars
      PROVE  [pc = "write" /\ pc' = "book" /\ sync /\ mode = "velocity" /\ readOk
                => command # "session" \/ received]_vars
  <2>1. CASE pc = "write" /\ pc' = "book"
    <3>1. pc # pc'
      BY <2>1
    <3>2. run /\ ~quiesced
      <4>1. WriteSucceeds \/ WriteFails
        <5>1. ~(UNCHANGED vars)
          BY <3>1 DEF vars, lifecycle
        <5>2. ~Main /\ ~Tick /\ ~RequestQuiesce
          BY <2>1 DEF Main, Tick, RequestQuiesce, Activate, StartThread, TakeFeedback,
                      Submit, StopRequest, Join, Deactivate, DirectWrite,
                      DirectEscalate, lifecycle
        <5>3. Thread
          BY <1>1, <5>1, <5>2 DEF Next
        <5> QED
          BY <2>1, <5>3 DEF Thread, LoopTop, ReadFails, ReadSucceeds, CloseWindow,
                            SkipWrite, Check, Escalate, Wake, EndCycle
      <4> QED
        BY <4>1 DEF WriteSucceeds, WriteFails
    <3> QED
      BY <1>1, <2>1, <3>2 DEF IInv, CommandInv
  <2> QED
    BY <2>1
<1> QED
  BY InvHolds, <1>1, PTL DEF Spec, MissSendsZero

(* An escalation is final: only activate() makes the arm active again.     *)
THEOREM EscalationIsFinal == Spec => []EscalatedIsOver
<1>1. IInv => EscalatedIsOver
  BY DEF IInv, ActiveInv
<1> QED
  BY InvHolds, <1>1, PTL

-----------------------------------------------------------------------------
(***************************************************************************)
(* The loops that command an arm: for every reference, hold and gap, the   *)
(* arm is held before its torque goes off, no reference follows a          *)
(* departure, no early key is obeyed and no measured window is cut short.  *)
(***************************************************************************)

(* The invariant.                                                          *)

(* Where each loop can be. *)
Places ==
    /\ kind = "follow" => phase \in {"start", "home", "settle", "measure", "correct",
                                     "track", "final", "abort", "over"}
    /\ kind = "posture" => phase \in {"start", "track", "final", "abort", "over"}
    /\ kind = "track" => phase \in {"home", "settle", "measure", "track", "final", "over"}
    /\ kind \in {"float", "feel"} => phase \in {"await", "released", "over"}
    /\ kind = "demo" => phase \in {"await", "over"}
    /\ kind \in {"teach", "passive"} => phase \in {"await", "recording", "support", "over"}

(* A phase does not outlast its cycles. *)
Steps ==
    /\ phase = "home" => step <= 1
    /\ phase = "track" => step <= Intervals
    /\ phase \in {"final", "abort"} => step <= Hold

(* The gate saw the feedback that the next command starts from. *)
Gated == kind = "posture" /\ phase = "track" => error # Immediate

(* After the first poll stdin holds nothing from before the prompt. *)
Emptied ==
    ~PollsBlindly =>
      /\ polled => /\ keys # "early"
                   /\ Follows \/ kind = "track" => phase \in {"final", "abort", "over"}
      /\ ~early

(* A float still awaited is within the marker, and a window within its end. *)
Within ==
    kind = "float" =>
      /\ phase = "await" => t <= Marker
      /\ phase = "released" => began <= Marker + MaxGap /\ t < began + Window
      /\ status # "deadline"

(* The clock of arm::run starts with the second sample. *)
Started == Runs /\ clock # "running" => t = 0

RunInv ==
    /\ RunTypeOK /\ Places /\ Steps /\ Gated /\ Emptied /\ Within /\ Started
    /\ HoldBeforeLimp

(* The constants. *)
LEMMA Constants ==
  /\ Intervals \in Nat /\ Intervals > 0 /\ Hold \in Nat /\ Hold > 0
  /\ Window \in Nat /\ Window > 0 /\ MaxGap \in Nat /\ MaxGap > 0
  /\ Marker \in Nat /\ Retries \in Nat /\ Margin \in Nat
  /\ Margin >= 2 * MaxGap
  /\ Kinds \subseteq {"follow", "posture", "track", "float", "feel", "demo", "teach",
                      "passive"}
  BY RunConstants, MarginIsWide

-----------------------------------------------------------------------------
(* One cycle.                                                              *)

(* A key pressed before the prompt is an early one. *)
LEMMA PressStep ==
  ASSUME RunInv, Press
  PROVE  RunInv'
  <1> USE Constants DEF RunInv
  <1>1. RunTypeOK'
    BY DEF RunTypeOK, Errors, Press, Prompted, Over, Follows, task, progress,
           feedback, time, operator
  <1>2. Places'
    BY DEF Places, Follows, Runs, Press, Prompted, Over, Follows, task, progress,
           feedback, time, operator
  <1>3. Steps'
    BY DEF Steps, RunTypeOK, Press, Prompted, Over, Follows, task, progress,
           feedback, time, operator
  <1>4. Gated'
    BY DEF Gated, Press, Prompted, Over, Follows, task, progress, feedback, time,
           operator
  <1>5. Emptied'
    BY DEF Emptied, PollsBlindly, Pressed, Follows, Press, Prompted, Over, Follows,
           task, progress, feedback, time, operator
  <1>6. Within'
    BY DEF Within, Press, Prompted, Over, Follows, task, progress, feedback, time,
           operator
  <1>7. Started'
    BY DEF Started, Follows, Runs, Press, Prompted, Over, Follows, task, progress,
           feedback, time, operator
  <1>8. HoldBeforeLimp'
    BY DEF HoldBeforeLimp, Over, Follows, Press, Prompted, Over, Follows, task,
           progress, feedback, time, operator
  <1> QED
    BY <1>1, <1>2, <1>3, <1>4, <1>5, <1>6, <1>7, <1>8

(* A follow run starts at home, a posture run at its gate. *)
LEMMA FollowStartStep ==
  ASSUME RunInv, FollowStart
  PROVE  RunInv'
  <1> USE Constants DEF RunInv
  <1>1. RunTypeOK'
    BY DEF RunTypeOK, Errors, FollowStart, Reads, Errors, Ends, Goto, Stays, Silent,
           Quiet, Small, Immediate, task, progress, feedback, time, operator
  <1>2. Places'
    BY DEF Places, Follows, Runs, FollowStart, Reads, Errors, Ends, Goto, Stays,
           Silent, Quiet, Small, Immediate, task, progress, feedback, time, operator
  <1>3. Steps'
    BY DEF Steps, RunTypeOK, FollowStart, Reads, Errors, Ends, Goto, Stays, Silent,
           Quiet, Small, Immediate, task, progress, feedback, time, operator
  <1>4. Gated'
    BY DEF Gated, FollowStart, Reads, Errors, Ends, Goto, Stays, Silent, Quiet,
           Small, Immediate, task, progress, feedback, time, operator
  <1>5. Emptied'
    BY DEF Emptied, PollsBlindly, Pressed, Follows, FollowStart, Reads, Errors, Ends,
           Goto, Stays, Silent, Quiet, Small, Immediate, task, progress, feedback,
           time, operator
  <1>6. Within'
    BY DEF Within, FollowStart, Reads, Errors, Ends, Goto, Stays, Silent, Quiet,
           Small, Immediate, task, progress, feedback, time, operator
  <1>7. Started'
    BY DEF Started, Follows, Runs, FollowStart, Reads, Errors, Ends, Goto, Stays,
           Silent, Quiet, Small, Immediate, task, progress, feedback, time, operator
  <1>8. HoldBeforeLimp'
    BY DEF HoldBeforeLimp, Over, Follows, FollowStart, Reads, Errors, Ends, Goto,
           Stays, Silent, Quiet, Small, Immediate, task, progress, feedback, time,
           operator
  <1> QED
    BY <1>1, <1>2, <1>3, <1>4, <1>5, <1>6, <1>7, <1>8

(* The motion home. *)
LEMMA HomeStep ==
  ASSUME RunInv, Home
  PROVE  RunInv'
  <1> USE Constants DEF RunInv
  <1>1. RunTypeOK'
    BY DEF RunTypeOK, Errors, Home, Follows, Reads, Quiet, Sends, Goto, Fails, Stays,
           task, progress, feedback, time, operator
  <1>2. Places'
    BY DEF Places, Follows, Runs, Home, Follows, Reads, Quiet, Sends, Goto, Fails,
           Stays, task, progress, feedback, time, operator
  <1>3. Steps'
    BY DEF Steps, RunTypeOK, Home, Follows, Reads, Quiet, Sends, Goto, Fails, Stays,
           task, progress, feedback, time, operator
  <1>4. Gated'
    BY DEF Gated, Home, Follows, Reads, Quiet, Sends, Goto, Fails, Stays, task,
           progress, feedback, time, operator
  <1>5. Emptied'
    BY DEF Emptied, PollsBlindly, Pressed, Follows, Home, Follows, Reads, Quiet,
           Sends, Goto, Fails, Stays, task, progress, feedback, time, operator
  <1>6. Within'
    BY DEF Within, Home, Follows, Reads, Quiet, Sends, Goto, Fails, Stays, task,
           progress, feedback, time, operator
  <1>7. Started'
    BY DEF Started, Follows, Runs, Home, Follows, Reads, Quiet, Sends, Goto, Fails,
           Stays, task, progress, feedback, time, operator
  <1>8. HoldBeforeLimp'
    BY DEF HoldBeforeLimp, Over, Follows, Home, Follows, Reads, Quiet, Sends, Goto,
           Fails, Stays, task, progress, feedback, time, operator
  <1> QED
    BY <1>1, <1>2, <1>3, <1>4, <1>5, <1>6, <1>7, <1>8

(* Settling and correcting. *)
LEMMA SettleStep ==
  ASSUME RunInv, Settle
  PROVE  RunInv'
  <1> USE Constants DEF RunInv
  <1>1. RunTypeOK'
    BY DEF RunTypeOK, Errors, Settle, Follows, Reads, Quiet, Sends, Goto, Fails,
           Stays, task, progress, feedback, time, operator
  <1>2. Places'
    BY DEF Places, Follows, Runs, Settle, Follows, Reads, Quiet, Sends, Goto, Fails,
           Stays, task, progress, feedback, time, operator
  <1>3. Steps'
    BY DEF Steps, RunTypeOK, Settle, Follows, Reads, Quiet, Sends, Goto, Fails,
           Stays, task, progress, feedback, time, operator
  <1>4. Gated'
    BY DEF Gated, Settle, Follows, Reads, Quiet, Sends, Goto, Fails, Stays, task,
           progress, feedback, time, operator
  <1>5. Emptied'
    BY DEF Emptied, PollsBlindly, Pressed, Follows, Settle, Follows, Reads, Quiet,
           Sends, Goto, Fails, Stays, task, progress, feedback, time, operator
  <1>6. Within'
    BY DEF Within, Settle, Follows, Reads, Quiet, Sends, Goto, Fails, Stays, task,
           progress, feedback, time, operator
  <1>7. Started'
    BY DEF Started, Follows, Runs, Settle, Follows, Reads, Quiet, Sends, Goto, Fails,
           Stays, task, progress, feedback, time, operator
  <1>8. HoldBeforeLimp'
    BY DEF HoldBeforeLimp, Over, Follows, Settle, Follows, Reads, Quiet, Sends, Goto,
           Fails, Stays, task, progress, feedback, time, operator
  <1> QED
    BY <1>1, <1>2, <1>3, <1>4, <1>5, <1>6, <1>7, <1>8

(* The measurement of the home posture. *)
LEMMA MeasureStep ==
  ASSUME RunInv, Measure
  PROVE  RunInv'
  <1> USE Constants DEF RunInv
  <1>1. RunTypeOK'
    BY DEF RunTypeOK, Errors, Measure, Follows, Reads, Quiet, Silent, Goto, Stays,
           task, progress, feedback, time, operator
  <1>2. Places'
    BY DEF Places, Follows, Runs, Measure, Follows, Reads, Quiet, Silent, Goto,
           Stays, task, progress, feedback, time, operator
  <1>3. Steps'
    BY DEF Steps, RunTypeOK, Measure, Follows, Reads, Quiet, Silent, Goto, Stays,
           task, progress, feedback, time, operator
  <1>4. Gated'
    BY DEF Gated, Places, Measure, Follows, Reads, Quiet, Silent, Goto, Stays, task,
           progress, feedback, time, operator
  <1>5. Emptied'
    BY DEF Emptied, PollsBlindly, Pressed, Follows, Measure, Follows, Reads, Quiet,
           Silent, Goto, Stays, task, progress, feedback, time, operator
  <1>6. Within'
    BY DEF Within, Measure, Follows, Reads, Quiet, Silent, Goto, Stays, task,
           progress, feedback, time, operator
  <1>7. Started'
    BY DEF Started, Follows, Runs, Measure, Follows, Reads, Quiet, Silent, Goto,
           Stays, task, progress, feedback, time, operator
  <1>8. HoldBeforeLimp'
    BY DEF HoldBeforeLimp, Over, Follows, Measure, Follows, Reads, Quiet, Silent,
           Goto, Stays, task, progress, feedback, time, operator
  <1> QED
    BY <1>1, <1>2, <1>3, <1>4, <1>5, <1>6, <1>7, <1>8

(* A cycle of the reference. *)
LEMMA FollowStep ==
  ASSUME RunInv, Follow
  PROVE  RunInv'
  <1> USE Constants DEF RunInv
  <1>1. RunTypeOK'
    BY DEF RunTypeOK, Errors, Follow, Follows, Level, Abort, Held, Silent, Reads,
           Ends, Departed, Fails, Sends, Stays, Goto, Quiet, Immediate, task,
           progress, feedback, time, operator
  <1>2. Places'
    BY DEF Places, Follows, Runs, Follow, Follows, Level, Abort, Held, Silent, Reads,
           Ends, Departed, Fails, Sends, Stays, Goto, Quiet, Immediate, task,
           progress, feedback, time, operator
  <1>3. Steps'
    BY DEF Steps, RunTypeOK, Follow, Follows, Level, Abort, Held, Silent, Reads,
           Ends, Departed, Fails, Sends, Stays, Goto, Quiet, Immediate, task,
           progress, feedback, time, operator
  <1>4. Gated'
    BY DEF Gated, Follow, Follows, Level, Abort, Held, Silent, Reads, Ends, Departed,
           Fails, Sends, Stays, Goto, Quiet, Immediate, task, progress, feedback,
           time, operator
  <1>5. Emptied'
    BY DEF Emptied, PollsBlindly, Pressed, Follows, Follow, Follows, Level, Abort,
           Held, Silent, Reads, Ends, Departed, Fails, Sends, Stays, Goto, Quiet,
           Immediate, task, progress, feedback, time, operator
  <1>6. Within'
    BY DEF Within, Follow, Follows, Level, Abort, Held, Silent, Reads, Ends,
           Departed, Fails, Sends, Stays, Goto, Quiet, Immediate, task, progress,
           feedback, time, operator
  <1>7. Started'
    BY DEF Started, Follows, Runs, Follow, Follows, Level, Abort, Held, Silent,
           Reads, Ends, Departed, Fails, Sends, Stays, Goto, Quiet, Immediate, task,
           progress, feedback, time, operator
  <1>8. HoldBeforeLimp'
    BY DEF HoldBeforeLimp, Over, Follows, Follow, Follows, Level, Abort, Held,
           Silent, Reads, Ends, Departed, Fails, Sends, Stays, Goto, Quiet,
           Immediate, task, progress, feedback, time, operator
  <1> QED
    BY <1>1, <1>2, <1>3, <1>4, <1>5, <1>6, <1>7, <1>8

(* A cycle of the hold of a follow run. *)
LEMMA FollowHoldStep ==
  ASSUME RunInv, FollowHold
  PROVE  RunInv'
  <1> USE Constants DEF RunInv
  <1>1. RunTypeOK'
    <2> USE DEF FollowHold, Follows, Ends, Silent, Quiet, Polls, Reads, Sends, NextHold, Fails,
               task, progress, feedback, time, operator
    <2>1. UNCHANGED <<kind, asks, tries, over, clock, t, began, cycles>>
      OBVIOUS
    <2>2. phase' \in {phase, "over"} /\ step' \in {step, step + 1} /\ (step' # step => step # Hold)
      OBVIOUS
    <2>3. error' \in Errors
      BY DEF RunTypeOK
    <2>4. hold' \in {"begun", "answered", "elapsed", "lost"} /\ sent' \in {sent, "hold"}
      OBVIOUS
    <2>5. \/ UNCHANGED operator
          \/ keys' = "none" /\ polled' = TRUE /\ early' = (early \/ (Pressed /\ keys = "early"))
      OBVIOUS
    <2>6. keys' \in {"none", "early", "answer"} /\ polled' \in BOOLEAN /\ early' \in BOOLEAN
      BY <2>5 DEF RunTypeOK, operator
    <2>7. step' \in 0..(Intervals + Hold)
      BY <2>2 DEF RunTypeOK, Steps
    <2> QED
      BY <2>1, <2>2, <2>3, <2>4, <2>6, <2>7 DEF RunTypeOK
  <1>2. Places'
    BY DEF Places, Follows, Runs, FollowHold, Follows, Ends, Silent, Quiet, Polls,
           Reads, Sends, NextHold, Fails, task, progress, feedback, time, operator
  <1>3. Steps'
    BY DEF Steps, RunTypeOK, FollowHold, Follows, Ends, Silent, Quiet, Polls, Reads,
           Sends, NextHold, Fails, task, progress, feedback, time, operator
  <1>4. Gated'
    BY DEF Gated, FollowHold, Follows, Ends, Silent, Quiet, Polls, Reads, Sends,
           NextHold, Fails, task, progress, feedback, time, operator
  <1>5. Emptied'
    BY DEF Emptied, PollsBlindly, Pressed, Follows, FollowHold, Follows, Ends,
           Silent, Quiet, Polls, Reads, Sends, NextHold, Fails, task, progress,
           feedback, time, operator
  <1>6. Within'
    BY DEF Within, FollowHold, Follows, Ends, Silent, Quiet, Polls, Reads, Sends,
           NextHold, Fails, task, progress, feedback, time, operator
  <1>7. Started'
    BY DEF Started, Follows, Runs, FollowHold, Follows, Ends, Silent, Quiet, Polls,
           Reads, Sends, NextHold, Fails, task, progress, feedback, time, operator
  <1>8. HoldBeforeLimp'
    BY DEF HoldBeforeLimp, Over, Follows, FollowHold, Follows, Ends, Silent, Quiet,
           Polls, Reads, Sends, NextHold, Fails, task, progress, feedback, time,
           operator
  <1> QED
    BY <1>1, <1>2, <1>3, <1>4, <1>5, <1>6, <1>7, <1>8

(* The motion home of a track run. *)
LEMMA TrackHomeStep ==
  ASSUME RunInv, TrackHome
  PROVE  RunInv'
  <1> USE Constants DEF RunInv
  <1>1. RunTypeOK'
    BY DEF RunTypeOK, Errors, TrackHome, Reads, Quiet, Sends, Goto, Silent, Ends,
           Fails, task, progress, feedback, time, operator
  <1>2. Places'
    BY DEF Places, Follows, Runs, TrackHome, Reads, Quiet, Sends, Goto, Silent, Ends,
           Fails, task, progress, feedback, time, operator
  <1>3. Steps'
    BY DEF Steps, RunTypeOK, TrackHome, Reads, Quiet, Sends, Goto, Silent, Ends,
           Fails, task, progress, feedback, time, operator
  <1>4. Gated'
    BY DEF Gated, TrackHome, Reads, Quiet, Sends, Goto, Silent, Ends, Fails, task,
           progress, feedback, time, operator
  <1>5. Emptied'
    BY DEF Emptied, PollsBlindly, Pressed, Follows, TrackHome, Reads, Quiet, Sends,
           Goto, Silent, Ends, Fails, task, progress, feedback, time, operator
  <1>6. Within'
    BY DEF Within, TrackHome, Reads, Quiet, Sends, Goto, Silent, Ends, Fails, task,
           progress, feedback, time, operator
  <1>7. Started'
    BY DEF Started, Follows, Runs, TrackHome, Reads, Quiet, Sends, Goto, Silent,
           Ends, Fails, task, progress, feedback, time, operator
  <1>8. HoldBeforeLimp'
    BY DEF HoldBeforeLimp, Over, Follows, TrackHome, Reads, Quiet, Sends, Goto,
           Silent, Ends, Fails, task, progress, feedback, time, operator
  <1> QED
    BY <1>1, <1>2, <1>3, <1>4, <1>5, <1>6, <1>7, <1>8

(* A cycle of a track run. *)
LEMMA TrackStep ==
  ASSUME RunInv, Track
  PROVE  RunInv'
  <1> USE Constants DEF RunInv
  <1>1. RunTypeOK'
    BY DEF RunTypeOK, Errors, Track, Reads, Quiet, Ends, Fails, Silent, Goto, Sends,
           task, progress, feedback, time, operator
  <1>2. Places'
    BY DEF Places, Follows, Runs, Track, Reads, Quiet, Ends, Fails, Silent, Goto,
           Sends, task, progress, feedback, time, operator
  <1>3. Steps'
    BY DEF Steps, RunTypeOK, Track, Reads, Quiet, Ends, Fails, Silent, Goto, Sends,
           task, progress, feedback, time, operator
  <1>4. Gated'
    BY DEF Gated, Track, Reads, Quiet, Ends, Fails, Silent, Goto, Sends, task,
           progress, feedback, time, operator
  <1>5. Emptied'
    BY DEF Emptied, PollsBlindly, Pressed, Follows, Track, Reads, Quiet, Ends, Fails,
           Silent, Goto, Sends, task, progress, feedback, time, operator
  <1>6. Within'
    BY DEF Within, Track, Reads, Quiet, Ends, Fails, Silent, Goto, Sends, task,
           progress, feedback, time, operator
  <1>7. Started'
    BY DEF Started, Follows, Runs, Track, Reads, Quiet, Ends, Fails, Silent, Goto,
           Sends, task, progress, feedback, time, operator
  <1>8. HoldBeforeLimp'
    BY DEF HoldBeforeLimp, Over, Follows, Track, Reads, Quiet, Ends, Fails, Silent,
           Goto, Sends, task, progress, feedback, time, operator
  <1> QED
    BY <1>1, <1>2, <1>3, <1>4, <1>5, <1>6, <1>7, <1>8

(* A cycle of its hold. *)
LEMMA TrackHoldStep ==
  ASSUME RunInv, TrackHold
  PROVE  RunInv'
  <1> USE Constants DEF RunInv
  <1>1. RunTypeOK'
    <2> USE DEF TrackHold, Ends, Silent, Quiet, Polls, Reads, Sends, NextHold, Fails,
               task, progress, feedback, time, operator
    <2>1. UNCHANGED <<kind, asks, tries, over, clock, t, began, cycles>>
      OBVIOUS
    <2>2. phase' \in {phase, "over"} /\ step' \in {step, step + 1} /\ (step' # step => step # Hold)
      OBVIOUS
    <2>3. error' \in Errors
      BY DEF RunTypeOK
    <2>4. hold' \in {"begun", "answered", "elapsed", "lost"} /\ sent' \in {sent, "hold"}
      OBVIOUS
    <2>5. \/ UNCHANGED operator
          \/ keys' = "none" /\ polled' = TRUE /\ early' = (early \/ (Pressed /\ keys = "early"))
      OBVIOUS
    <2>6. keys' \in {"none", "early", "answer"} /\ polled' \in BOOLEAN /\ early' \in BOOLEAN
      BY <2>5 DEF RunTypeOK, operator
    <2>7. step' \in 0..(Intervals + Hold)
      BY <2>2 DEF RunTypeOK, Steps
    <2> QED
      BY <2>1, <2>2, <2>3, <2>4, <2>6, <2>7 DEF RunTypeOK
  <1>2. Places'
    BY DEF Places, Follows, Runs, TrackHold, Ends, Silent, Quiet, Polls, Reads,
           Sends, NextHold, Fails, task, progress, feedback, time, operator
  <1>3. Steps'
    BY DEF Steps, RunTypeOK, TrackHold, Ends, Silent, Quiet, Polls, Reads, Sends,
           NextHold, Fails, task, progress, feedback, time, operator
  <1>4. Gated'
    BY DEF Gated, TrackHold, Ends, Silent, Quiet, Polls, Reads, Sends, NextHold,
           Fails, task, progress, feedback, time, operator
  <1>5. Emptied'
    BY DEF Emptied, PollsBlindly, Pressed, Follows, TrackHold, Ends, Silent, Quiet,
           Polls, Reads, Sends, NextHold, Fails, task, progress, feedback, time,
           operator
  <1>6. Within'
    BY DEF Within, TrackHold, Ends, Silent, Quiet, Polls, Reads, Sends, NextHold,
           Fails, task, progress, feedback, time, operator
  <1>7. Started'
    BY DEF Started, Follows, Runs, TrackHold, Ends, Silent, Quiet, Polls, Reads,
           Sends, NextHold, Fails, task, progress, feedback, time, operator
  <1>8. HoldBeforeLimp'
    BY DEF HoldBeforeLimp, Over, Follows, TrackHold, Ends, Silent, Quiet, Polls,
           Reads, Sends, NextHold, Fails, task, progress, feedback, time, operator
  <1> QED
    BY <1>1, <1>2, <1>3, <1>4, <1>5, <1>6, <1>7, <1>8

-----------------------------------------------------------------------------
(* The observers.                                                          *)

(* What an observer may do at time n, at most one gap after the last sample. *)
LEMMA ObservesFacts ==
  ASSUME RunInv, ~Over, Runs \/ kind = "passive", NEW n \in Nat, t <= n, n <= t + MaxGap,
         Observes(n)
  PROVE  /\ phase' \in {"await", "released", "recording", "support", "over"}
         /\ began' \in {began, n}
         /\ kind \in {"float", "feel"} => phase' \in {"await", "released", "over"}
         /\ kind = "demo" => phase' \in {"await", "over"}
         /\ kind \in {"teach", "passive"} =>
              phase' \in {"await", "recording", "support", "over"}
         /\ kind = "float" =>
              /\ phase' = "await" => n <= Marker
              /\ phase' = "released" => began' <= Marker + MaxGap /\ n < began' + Window
              /\ status' # "deadline"
  <1> USE Constants DEF RunInv
  <1>0. t \in Nat /\ began \in Nat
    BY DEF RunTypeOK
  <1>1. CASE kind \in {"float", "feel"}
    <2>1. FloatObserves(n) /\ phase \in {"await", "released"}
      BY <1>1 DEF Observes, Places, Over
    <2>2. CASE phase = "released"
      BY <1>0, <1>1, <2>1, <2>2 DEF FloatObserves, Within, Becomes, Vetoes, Remains
    <2>3. CASE phase = "await" /\ Pressed
      BY <1>0, <1>1, <2>1, <2>3 DEF FloatObserves, Within, Becomes, Vetoes, Remains
    <2>4. CASE phase = "await" /\ ~Pressed
      BY <1>0, <1>1, <2>1, <2>4 DEF FloatObserves, Within, Becomes, Vetoes, Remains
    <2> QED
      BY <2>1, <2>2, <2>3, <2>4
  <1>2. CASE kind = "demo"
    BY <1>2 DEF Observes, DemoObserves, Vetoes, Remains, Places
  <1>3. CASE kind \in {"teach", "passive"}
    <2>1. TeachObserves(n) /\ phase \in {"await", "recording", "support"}
      BY <1>3 DEF Observes, Places, Over
    <2>2. CASE phase = "await"
      BY <1>3, <2>1, <2>2 DEF TeachObserves, Becomes, Vetoes, Remains
    <2>3. CASE phase = "recording"
      BY <1>3, <2>1, <2>3 DEF TeachObserves, Becomes, Vetoes, Remains
    <2>4. CASE phase = "support"
      BY <1>3, <2>1, <2>4 DEF TeachObserves, Becomes, Vetoes, Remains
    <2> QED
      BY <1>3, <2>1, <2>2, <2>3, <2>4
  <1> QED
    BY <1>1, <1>2, <1>3 DEF Runs

(* What the keyboard leaves. *)
LEMMA PollsFacts ==
  ASSUME RunInv, Polls
  PROVE  /\ keys' = "none" /\ polled' = TRUE /\ early' \in BOOLEAN
         /\ ~PollsBlindly => ~early'
  BY DEF RunInv, RunTypeOK, Emptied, Polls, Pressed

(* A sample of arm::run: the outer deadline comes after every window. *)
LEMMA AcceptsFacts ==
  ASSUME RunInv, ~Over, Runs, NEW n \in Nat, t <= n, n <= t + MaxGap, NEW c, Accepts(n, c)
  PROVE  \/ /\ RunEnds("deadline") /\ kind # "float"
         \/ /\ Sends("effort") /\ Polls /\ Observes(n)
            /\ t' = n /\ clock' = c /\ cycles' = cycles + 1
  <1> USE Constants DEF RunInv
  <1>1. CASE n >= Duration
    <2>1. RunEnds("deadline")
      BY <1>1 DEF Accepts
    <2>2. ASSUME kind = "float" PROVE FALSE
      <3>1. t \in Nat /\ began \in Nat /\ phase \in {"await", "released"}
        BY <2>2 DEF RunTypeOK, Places, Over
      <3>2. t <= Marker \/ (began <= Marker + MaxGap /\ t < began + Window)
        BY <2>2, <3>1 DEF Within
      <3>3. n >= Marker + Window + Margin
        BY <1>1 DEF Duration
      <3>4. t < Marker + MaxGap + Window
        BY <3>1, <3>2
      <3> QED
        BY <3>1, <3>3, <3>4
    <2> QED
      BY <2>1, <2>2
  <1>2. CASE ~(n >= Duration)
    BY <1>2 DEF Accepts
  <1> QED
    BY <1>1, <1>2

(* A run that ends. *)
LEMMA RunEndsStep ==
  ASSUME RunInv, ~Over, Runs \/ kind = "passive", NEW s, RunEnds(s),
         kind = "float" => s # "deadline", UNCHANGED <<task, step, tries, hold, feedback>>
  PROVE  RunInv'
  <1> USE DEF RunInv, RunEnds, task, feedback, operator
  <1>1. RunTypeOK'
    BY DEF RunTypeOK, Errors
  <1>2. Places' /\ Steps' /\ Gated' /\ Within' /\ Started' /\ HoldBeforeLimp'
    BY DEF Places, Runs, Steps, Gated, Within, Started, HoldBeforeLimp, Follows, Over
  <1>3. Emptied'
    BY DEF Emptied, PollsBlindly, Follows
  <1> QED
    BY <1>1, <1>2, <1>3

(* A sample observed. *)
LEMMA ObservedStep ==
  ASSUME RunInv, ~Over, Runs \/ kind = "passive", NEW n \in Nat, t <= n, n <= t + MaxGap,
         Polls, Observes(n), t' = n, cycles' \in Nat, clock' \in {"none", "read", "running"},
         Runs /\ clock' # "running" => n = 0, sent' \in {sent, "effort"},
         UNCHANGED <<task, step, tries, hold, feedback>>
  PROVE  RunInv'
  <1> USE DEF RunInv, task, feedback
  <1>1. /\ phase' \in {"await", "released", "recording", "support", "over"}
        /\ began' \in {began, n}
        /\ kind \in {"float", "feel"} => phase' \in {"await", "released", "over"}
        /\ kind = "demo" => phase' \in {"await", "over"}
        /\ kind \in {"teach", "passive"} =>
             phase' \in {"await", "recording", "support", "over"}
        /\ kind = "float" =>
             /\ phase' = "await" => n <= Marker
             /\ phase' = "released" => began' <= Marker + MaxGap /\ n < began' + Window
             /\ status' # "deadline"
    BY ObservesFacts
  <1>2. /\ keys' = "none" /\ polled' = TRUE /\ early' \in BOOLEAN
        /\ ~PollsBlindly => ~early'
    BY PollsFacts
  <1>3. RunTypeOK'
    BY <1>1, <1>2 DEF RunTypeOK, Errors
  <1>4. Places' /\ Steps' /\ Gated' /\ HoldBeforeLimp'
    BY <1>1 DEF Places, Runs, Steps, Gated, HoldBeforeLimp, Follows, Over
  <1>5. Within' /\ Started'
    BY <1>1 DEF Within, Started, Runs
  <1>6. Emptied'
    BY <1>2 DEF Emptied, PollsBlindly, Follows, Runs
  <1> QED
    BY <1>3, <1>4, <1>5, <1>6

(* A cycle of arm::run. *)
LEMMA RunStep ==
  ASSUME RunInv, Run
  PROVE  RunInv'
  <1> USE Constants
  <1>1. /\ Runs /\ ~Over /\ UNCHANGED <<task, step, tries, hold, feedback>>
        /\ t \in Nat /\ cycles \in Nat
    BY DEF Run, RunInv, RunTypeOK
  <1>2. CASE RunEnds("failed")
    BY <1>1, <1>2, RunEndsStep
  <1>3. CASE Duplicate
    <2>1. UNCHANGED <<phase, status, sent, operator, clock, t, began>> /\ cycles' \in Nat
      BY <1>1, <1>3 DEF Duplicate
    <2>2. RunTypeOK'
      BY <1>1, <2>1 DEF RunInv, RunTypeOK, Errors, task, feedback, operator
    <2>3. Places' /\ Steps' /\ Gated' /\ Within' /\ Started' /\ HoldBeforeLimp' /\ Emptied'
      BY <1>1, <2>1
        DEF RunInv, Places, Runs, Steps, Gated, Within, Started, HoldBeforeLimp,
                        Follows, Over, Emptied, PollsBlindly, task, feedback, operator
    <2> QED
      BY <2>2, <2>3 DEF RunInv
  <1>4. ASSUME NEW n \in Nat, NEW c \in {"read", "running"}, t <= n, n <= t + MaxGap,
               c # "running" => n = 0, Accepts(n, c)
        PROVE  RunInv'
    <2>1. CASE RunEnds("deadline") /\ kind # "float"
      BY <1>1, <2>1, RunEndsStep
    <2>2. CASE /\ Sends("effort") /\ Polls /\ Observes(n)
               /\ t' = n /\ clock' = c /\ cycles' = cycles + 1
      <3>1. cycles' \in Nat /\ sent' \in {sent, "effort"}
            /\ clock' \in {"none", "read", "running"} /\ (clock' # "running" => n = 0)
        BY <1>1, <1>4, <2>2 DEF Sends
      <3> QED
        BY <1>1, <1>4, <2>2, <3>1, ObservedStep
    <2> QED
      BY <1>1, <1>4, <2>1, <2>2, AcceptsFacts
  <1>5. clock # "running" => t = 0
    BY <1>1 DEF RunInv, Started
  <1>6. CASE clock = "none" /\ Accepts(0, "read")
    BY <1>1, <1>4, <1>5, <1>6
  <1>7. CASE clock = "read" /\ Accepts(0, "running")
    BY <1>1, <1>4, <1>5, <1>7
  <1>8. CASE \E d \in 1..MaxGap : Accepts(t + d, "running")
    <2>1. PICK d \in 1..MaxGap : Accepts(t + d, "running")
      BY <1>8
    <2>2. t + d \in Nat /\ t <= t + d /\ t + d <= t + MaxGap
      BY <1>1
    <2> QED
      BY <1>4, <2>1, <2>2
  <1>9. \/ RunEnds("failed") \/ Duplicate
        \/ clock = "none" /\ Accepts(0, "read")
        \/ clock = "read" /\ Accepts(0, "running")
        \/ \E d \in 1..MaxGap : Accepts(t + d, "running")
    BY DEF Run, RunInv, RunTypeOK
  <1> QED
    BY <1>2, <1>3, <1>6, <1>7, <1>8, <1>9

(* A cycle of runPassive. *)
LEMMA PassiveStep ==
  ASSUME RunInv, Passive
  PROVE  RunInv'
  <1> USE Constants
  <1>1. /\ kind = "passive" /\ ~Over /\ UNCHANGED <<task, step, tries, hold, feedback>>
        /\ t \in Nat /\ cycles \in Nat /\ clock \in {"none", "read", "running"}
    BY DEF Passive, RunInv, RunTypeOK
  <1>2. CASE RunEnds("failed")
    BY <1>1, <1>2, RunEndsStep
  <1>3. CASE \E d \in 1..MaxGap :
               Polls /\ Observes(t + d) /\ t' = t + d /\ UNCHANGED <<sent, clock, cycles>>
    <2>1. PICK d \in 1..MaxGap :
            Polls /\ Observes(t + d) /\ t' = t + d /\ UNCHANGED <<sent, clock, cycles>>
      BY <1>3
    <2>2. t + d \in Nat /\ t <= t + d /\ t + d <= t + MaxGap
      BY <1>1
    <2>3. ~Runs /\ cycles' \in Nat /\ clock' \in {"none", "read", "running"} /\ sent' = sent
      BY <1>1, <2>1 DEF Runs
    <2> QED
      BY <1>1, <2>1, <2>2, <2>3, ObservedStep
  <1> QED
    BY <1>2, <1>3 DEF Passive

-----------------------------------------------------------------------------
(* The theorems.                                                           *)

(* The invariant holds at the start. *)
LEMMA InitInv == RunInit => RunInv
  <1> SUFFICES ASSUME RunInit PROVE RunInv
    OBVIOUS
  <1>1. RunTypeOK
    <2>1. step \in 0..(Intervals + Hold) /\ tries \in 0..Retries
      BY Constants DEF RunInit
    <2>2. {t, began, cycles} \subseteq Nat /\ over \in Nat /\ error \in Errors
      BY DEF RunInit, Errors
    <2>3. /\ kind \in Kinds /\ asks \in BOOLEAN /\ {polled, early} \subseteq BOOLEAN
          /\ keys \in {"none", "early", "answer"}
      BY DEF RunInit
    <2>4. phase \in {"start", "home", "await"}
      BY DEF RunInit
    <2> QED
      BY <2>1, <2>2, <2>3, <2>4, Zenon DEF RunInit, RunTypeOK
  <1>2. Places
    BY Constants DEF RunInit, Places, Follows
  <1>3. Steps /\ Gated /\ Within /\ Started /\ HoldBeforeLimp
    BY Constants
      DEF RunInit, Steps, Gated, Within, Started, HoldBeforeLimp, Follows, Over
  <1>4. Emptied
    BY DEF RunInit, Emptied
  <1> QED
    BY <1>1, <1>2, <1>3, <1>4 DEF RunInv

(* Every step keeps it. *)
LEMMA StepInv == RunInv /\ [RunNext]_runVars => RunInv'
  <1> SUFFICES ASSUME RunInv, [RunNext]_runVars PROVE RunInv'
    OBVIOUS
  <1>1. CASE UNCHANGED runVars
    BY <1>1
      DEF runVars, task, progress, feedback, time, operator, RunInv, RunTypeOK,
          Errors, Places,
                Follows, Runs, Steps, Gated, Emptied, PollsBlindly, Within, Started,
                HoldBeforeLimp, Over
  <1>2. CASE Cycle
    BY <1>2, FollowStartStep, HomeStep, SettleStep, MeasureStep, FollowStep,
       FollowHoldStep,
       TrackHomeStep, TrackStep, TrackHoldStep, RunStep, PassiveStep DEF Cycle
  <1> QED
    BY <1>1, <1>2, PressStep DEF RunNext

(* It holds in every reachable state. *)
LEMMA Invariance == RunSpec => []RunInv
  BY InitInv, StepInv, PTL DEF RunSpec

(* The variables of the loops keep their types; a phase stays in the loop  *)
(* that has it. *)
THEOREM RunTypeCorrect == RunSpec => []RunTypeOK
  <1>1. RunInv => RunTypeOK
    BY DEF RunInv
  <1> QED
    BY <1>1, Invariance, PTL

(* FollowRun::run: whatever refuses a run, for every length of the         *)
(* reference and of the hold, the arm was held before it goes limp.        *)
THEOREM HeldBeforeLimp == RunSpec => []HoldBeforeLimp
  <1>1. RunInv => HoldBeforeLimp
    BY DEF RunInv
  <1> QED
    BY <1>1, Invariance, PTL

(* The gate of a posture run: no reference is commanded from a feedback    *)
(* that shows a departure, in any cycle of any reference.                  *)
THEOREM GateIsCurrent == RunSpec => NoReferenceFromDeparture
  <1>1. ASSUME RunInv, [RunNext]_runVars
        PROVE  [kind = "posture" /\ phase = "track" /\ phase' \in {"track", "final"}
                  => error' # Immediate]_runVars
    <2>1. SUFFICES ASSUME RunNext, kind = "posture", phase = "track", phase' \in {"track", "final"}
                   PROVE  error' # Immediate
      BY <1>1
    <2>2. error # Immediate
      BY <1>1, <2>1 DEF RunInv, Gated
    <2>3. CASE Press
      BY <2>2, <2>3 DEF Press, feedback
    <2>4. CASE Cycle
      <3>1. Follow
        BY <2>1, <2>4
          DEF Cycle, FollowStart, Home, Settle, Measure, FollowHold, TrackHome,
                          Track, TrackHold, Run, Runs, Passive
      <3> QED
        BY <2>1, <2>2, <3>1 DEF Follow, Abort, Held, Ends, Goto, Departed
    <2> QED
      BY <2>1, <2>3, <2>4 DEF RunNext
  <1> QED
    BY <1>1, Invariance, PTL DEF RunSpec, NoReferenceFromDeparture

(* EnterReader: with its first poll thrown away, what was typed before the *)
(* prompt answers nothing.                                                 *)
THEOREM OnlyAnswersCount == RunSpec => []EarlyKeysIgnored
  <1>1. RunInv => EarlyKeysIgnored
    BY DEF RunInv, Emptied, EarlyKeysIgnored
  <1> QED
    BY <1>1, Invariance, PTL

(* x7_float: a margin of twice the largest gap is enough, for every marker *)
(* deadline and every window, that a window once begun is measured whole.  *)
THEOREM MarginIsEnough == RunSpec => []WindowIsWhole
  <1>1. RunInv => WindowIsWhole
    BY DEF RunInv, Within, WindowIsWhole
  <1> QED
    BY <1>1, Invariance, PTL

=============================================================================
