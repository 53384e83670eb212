--------------------------- MODULE WakeUpsProofs ---------------------------
(***************************************************************************)
(* Proofs about WakeUps: the types, and that nobody sleeps on a condition  *)
(* variable of a thread that has left its loop.  The last one needs what   *)
(* Prompt says of the schedule: without it the thread may leave, and       *)
(* notify, while a waiter has checked its predicate and does not sleep yet,*)
(* because thread_run_ changes without the mutex.                          *)
(***************************************************************************)
EXTENDS WakeUps, TLAPS

(* A waiter that goes to sleep saw the thread running; when it is told to  *)
(* end afterwards, its current cycle has to end first.                     *)
AwakeInv ==
    /\ run => pc \notin {"none", "exit"}
    /\ at = "checked" /\ ~run => pc \in {"end", "sleep"}
    /\ NobodyLeftAsleep

-----------------------------------------------------------------------------
(* No read has failed at the start. *)
LEMMA NoFailures == 0 \in 0..MaxReadFailures
BY FailuresAssumption

(* The initial state is well typed. *)
LEMMA TypeInit == Init => TypeOK
BY NoFailures DEF Init, TypeOK, Calls, FeedbackCalls

(* A check returns, or leaves the waiter with the mutex before its sleep.  *)
LEMMA CheckTyped ==
    ASSUME TypeOK, NEW c \in Calls, CheckAndReturn(c)
    PROVE  /\ at' \in {"away", "checked"}
           /\ result' \in {"none", "zero", "seq"}
           /\ unseen' \subseteq Calls
           /\ at' = "checked" => run
<1>1. Result(c) \in {"zero", "seq"}
  BY DEF Result
<1>2. CASE Ready(c)
  BY <1>1, <1>2 DEF CheckAndReturn, TypeOK
<1>3. CASE ~Ready(c)
  BY <1>3 DEF CheckAndReturn, Ready, TypeOK
<1> QED
  BY <1>2, <1>3

(* A notification leaves every waiter in a known place. *)
LEMMA NotifyTyped ==
    ASSUME TypeOK, NEW C, Notify(C)
    PROVE  /\ at' \in {at, "woken"} /\ call' = call /\ result' = result
           /\ at # "blocked" => at' = at
           /\ at = "blocked" /\ call \in C => at' = "woken"
BY DEF Notify

(* Every variable keeps its type, and no one is left asleep.               *)
LEMMA WaiterStep ==
    ASSUME TypeOK, AwakeInv, Waiter \/ Stop \/ RequestQuiesce \/ \E s \in Syncs : Start(s)
    PROVE  TypeOK' /\ AwakeInv'
<1> USE DEF TypeOK, AwakeInv, NobodyLeftAsleep, flags, thread, waiter
<1>1. ASSUME NEW c \in Calls, Enter(c) PROVE TypeOK' /\ AwakeInv'
  <2>1. /\ at' \in {"away", "checked"} /\ (at' = "checked" => run)
        /\ result' \in {"none", "zero", "seq"} /\ unseen' \subseteq Calls
    BY <1>1, CheckTyped DEF Enter
  <2>2. call' = c /\ UNCHANGED <<flags, open, thread>>
    BY <1>1 DEF Enter
  <2> QED
    BY <2>1, <2>2
<1>2. CASE Block
  BY <1>2 DEF Block
<1>3. CASE Recheck
  <2>1. /\ at' \in {"away", "checked"} /\ (at' = "checked" => run)
        /\ result' \in {"none", "zero", "seq"} /\ unseen' \subseteq Calls
    BY <1>3, CheckTyped DEF Recheck
  <2>2. UNCHANGED <<flags, open, thread, call>>
    BY <1>3 DEF Recheck
  <2> QED
    BY <2>1, <2>2
<1>4. CASE Stop
  <2>1. at' = "away" /\ UNCHANGED <<call, result>>
    BY <1>4, NotifyTyped DEF Stop
  <2> QED
    BY <1>4, <2>1 DEF Stop
<1>5. CASE RequestQuiesce
  <2>1. /\ at' \in {at, "woken"} /\ (at # "blocked" => at' = at)
        /\ UNCHANGED <<call, result>>
    BY <1>5, NotifyTyped DEF RequestQuiesce
  <2> QED
    BY <1>5, <2>1 DEF RequestQuiesce
<1>6. ASSUME NEW s \in Syncs, Start(s) PROVE TypeOK' /\ AwakeInv'
  <2>1. s \in BOOLEAN
    BY SyncsAssumption
  <2> QED
    BY <1>6, <2>1, NoFailures DEF Start
<1> QED
  BY <1>1, <1>2, <1>3, <1>4, <1>5, <1>6 DEF Waiter

(* A step of the thread leaves nobody asleep. *)
LEMMA ThreadStep ==
    ASSUME Prompt, TypeOK, AwakeInv, Thread
    PROVE  TypeOK' /\ AwakeInv'
<1> USE DEF TypeOK, AwakeInv, NobodyLeftAsleep, flags, thread, waiter
<1>1. CASE LoopTop
  BY <1>1 DEF LoopTop
<1>2. CASE ReadSucceeds
  BY <1>2, FailuresAssumption DEF ReadSucceeds, Calls
<1>3. CASE ReadFails
  BY <1>3, FailuresAssumption DEF ReadFails
<1>4. CASE OpenWindow
  <2>1. CASE quiesced
    BY <1>4, <2>1 DEF OpenWindow
  <2>2. CASE ~quiesced
    <3>1. /\ at' \in {at, "woken"} /\ (at # "blocked" => at' = at)
          /\ UNCHANGED <<call, result>>
      BY <1>4, <2>2, NotifyTyped DEF OpenWindow
    <3> QED
      BY <1>4, <2>2, <3>1 DEF OpenWindow
  <2> QED
    BY <2>1, <2>2
<1>5. CASE CloseWindow
  BY <1>5 DEF CloseWindow, CloseLeavesOpen
<1>6. CASE Write
  BY <1>6 DEF Write
<1>7. CASE Book
  <2>1. CASE ~quiesced /\ run' = FALSE /\ Notify(FeedbackCalls)
    <3>1. /\ at' \in {at, "woken"} /\ (at # "blocked" => at' = at)
          /\ UNCHANGED <<call, result>>
      BY <2>1, NotifyTyped
    <3> QED
      BY <1>7, <2>1, <3>1 DEF Book
  <2>2. CASE UNCHANGED <<run, waiter>>
    BY <1>7, <2>2 DEF Book
  <2> QED
    BY <1>7, <2>1, <2>2 DEF Book
<1>8. CASE EndCycle
  <2>1. /\ at' \in {at, "woken"} /\ (at # "blocked" => at' = at)
        /\ UNCHANGED <<call, result>>
    BY <1>8, NotifyTyped DEF EndCycle, CycleBooked
  <2> QED
    BY <1>8, <2>1 DEF EndCycle, CycleBooked, Calls
<1>9. CASE Wake
  BY <1>9 DEF Wake
<1>10. CASE Exit
  <2>1. at' \in {"away", "woken"} /\ UNCHANGED <<call, result>>
    BY <1>10, NotifyTyped DEF Exit, ExitWakes
  <2> QED
    BY <1>10, <2>1 DEF Exit
<1> QED
  BY <1>1, <1>2, <1>3, <1>4, <1>5, <1>6, <1>7, <1>8, <1>9, <1>10 DEF Thread

(* When the background thread has left its loop nobody sleeps on its       *)
(* condition variables, if its sleep to the next period outlasts the gap   *)
(* between a waiter's check and the waiter's sleep.                        *)
THEOREM NobodyStaysAsleep == ASSUME Prompt PROVE Spec => []NobodyLeftAsleep
<1>1. Init => TypeOK /\ AwakeInv
  BY TypeInit DEF Init, AwakeInv, NobodyLeftAsleep
<1>2. TypeOK /\ AwakeInv /\ [Next]_vars => TypeOK' /\ AwakeInv'
  <2> SUFFICES ASSUME TypeOK, AwakeInv, [Next]_vars PROVE TypeOK' /\ AwakeInv'
    OBVIOUS
  <2>1. CASE UNCHANGED vars
    BY <2>1 DEF vars, TypeOK, AwakeInv, NobodyLeftAsleep, flags, thread, waiter
  <2> QED
    BY <2>1, WaiterStep, ThreadStep DEF Next
<1>3. TypeOK /\ AwakeInv => NobodyLeftAsleep
  BY DEF AwakeInv
<1> QED
  BY <1>1, <1>2, <1>3, PTL DEF Spec
=============================================================================
