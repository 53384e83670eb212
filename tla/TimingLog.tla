----------------------------- MODULE TimingLog -----------------------------
(***************************************************************************)
(* The cycle timing log (src/apps/common/timing_log.hpp): the background   *)
(* thread pushes one record per cycle into the ring of CraneX7, a drain    *)
(* thread turns records into rows of a log, and once the background thread *)
(* has stopped the application joins the drain thread, drains the rest     *)
(* itself and closes the file.  It composes SpscRing with the log that     *)
(* AsyncWriter implements (AbstractLog).                                   *)
(*                                                                         *)
(* A record is its cycle number; the file's header row is 0.               *)
(***************************************************************************)
EXTENDS SpscRing

CONSTANTS
    MaxCycles,     \* bound on the cycles of the run
    MaxSegments    \* bound on the thread starts

ASSUME BoundsAssumption == MaxCycles \in Nat /\ MaxSegments \in Nat
ASSUME RecordAssumption == Record = 0..MaxCycles

VARIABLES
    thread,     \* the background thread: "none", "running", "exited"
    segments,   \* thread_segment_
    cycles,     \* stats_.cycles
    drops,      \* stats_.timing_drops
    drain,      \* the drain thread: "none", "check", "pop", "exited"
    stop,       \* stop_
    caller,     \* the application: "run", "join", "rest", "closing", "closed"
    complete,   \* complete_
    rows,       \* rows committed to the writer
    file,       \* rows in the file
    failed,     \* the writer dropped a row or failed to write one
    verdict     \* the result of the writer's close()

session == <<thread, segments, cycles, drops>>
drainer == <<drain, stop, caller, complete>>
writer == <<rows, file, failed, verdict>>
vars == <<ring, session, drainer, writer>>

Log == INSTANCE AbstractLog WITH log <- rows, durable <- file, refused <- failed

TypeOK ==
    /\ RingTypeOK
    /\ thread \in {"none", "running", "exited"}
    /\ segments \in 0..MaxSegments
    /\ cycles \in 0..MaxCycles /\ drops \in 0..cycles
    /\ drain \in {"none", "check", "pop", "exited"}
    /\ stop \in BOOLEAN /\ complete \in BOOLEAN /\ failed \in BOOLEAN
    /\ caller \in {"run", "join", "rest", "closing", "closed"}
    /\ rows \in Seq(Record) /\ file \in Seq(Record)
    /\ verdict \in {"none", "complete", "incomplete"}

(* The constructor has committed the header. *)
Init ==
    /\ RingInit /\ item = 0 /\ out = 0 /\ slots = [x \in 0..(Capacity - 1) |-> 0]
    /\ thread = "none" /\ segments = 0 /\ cycles = 0 /\ drops = 0
    /\ drain = "none" /\ stop = FALSE /\ caller = "run" /\ complete = FALSE
    /\ rows = <<0>> /\ file = <<>> /\ failed = FALSE /\ verdict = "none"

-----------------------------------------------------------------------------
(* The background thread and its owner.                                    *)

StartThread ==
    /\ caller = "run" /\ thread = "none" /\ segments < MaxSegments
    /\ thread' = "running" /\ segments' = segments + 1
    /\ UNCHANGED <<ring, cycles, drops, drainer, writer>>

Dropped == drops + 1

(* end_cycle: the cycle is counted and its record offered to the ring. *)
EndCycle ==
    /\ thread = "running" /\ prod = "idle" /\ cycles < MaxCycles
    /\ cycles' = cycles + 1
    /\ IF Full THEN UNCHANGED ring /\ drops' = Dropped
               ELSE PushBegin(cycles + 1) /\ UNCHANGED drops
    /\ UNCHANGED <<thread, segments, drainer, writer>>

Push ==
    /\ WriteSlot \/ Publish
    /\ UNCHANGED <<session, drainer, writer>>

(* The loop ends after a whole cycle: on a stop, or on its own escalation. *)
ThreadEnds ==
    /\ thread = "running" /\ prod = "idle"
    /\ thread' = "exited"
    /\ UNCHANGED <<ring, segments, cycles, drops, drainer, writer>>

(* stopThread() or deactivate(). *)
JoinThread ==
    /\ caller = "run" /\ thread = "exited"
    /\ thread' = "none"
    /\ UNCHANGED <<ring, segments, cycles, drops, drainer, writer>>

-----------------------------------------------------------------------------
(* Draining: by the drain thread, at last by the application.              *)

Draining == drain = "pop" \/ caller = "rest"

(* start(): after the background thread started. *)
StartDrain ==
    /\ caller = "run" /\ segments > 0 /\ drain = "none"
    /\ drain' = "check"
    /\ UNCHANGED <<ring, session, stop, caller, complete, writer>>

(* Fault: the drain thread only leaves before its first look at the ring. *)
FaultToldToStop == stop /\ popped = <<>>

ToldToStop == stop

DrainLoop ==
    /\ drain = "check"
    /\ drain' = IF ToldToStop THEN "exited" ELSE "pop"
    /\ UNCHANGED <<ring, session, stop, caller, complete, writer>>

Pop ==
    /\ Draining
    /\ PopBegin \/ CopySlot
    /\ UNCHANGED <<session, drainer, writer>>

(* A popped record becomes a row; the writer takes it, or fails for good. *)
Row ==
    /\ Draining
    /\ Free
    /\ \/ rows' = Append(rows, out) /\ Log!Commit
       \/ failed' = TRUE /\ Log!Refuse
    /\ UNCHANGED <<session, drainer>>

(* The ring is empty: the drain thread sleeps and looks at stop_ again. *)
Drained ==
    /\ drain = "pop"
    /\ cons = "idle" /\ Empty
    /\ drain' = "check"
    /\ UNCHANGED <<ring, session, stop, caller, complete, writer>>

-----------------------------------------------------------------------------
(* stop(): once the background thread has been joined.                     *)

StopBegin ==
    /\ caller = "run" /\ thread = "none"
    /\ caller' = "join" /\ stop' = TRUE
    /\ UNCHANGED <<ring, session, drain, complete, writer>>

(* Fault: what the drain thread left in the ring is forgotten. *)
FaultAfterJoin == "closing"

AfterJoin == "rest"

StopJoin ==
    /\ caller = "join" /\ drain \in {"none", "exited"}
    /\ caller' = AfterJoin
    /\ UNCHANGED <<ring, session, drain, stop, complete, writer>>

StopDrained ==
    /\ caller = "rest"
    /\ cons = "idle" /\ Empty
    /\ caller' = "closing"
    /\ UNCHANGED <<ring, session, drain, stop, complete, writer>>

(* Fault: records the ring refused are not asked about. *)
FaultComplete(closed) == closed

Complete(closed) == closed /\ drops = 0

StopClose ==
    /\ caller = "closing"
    /\ verdict' \in {"complete", "incomplete"}
    /\ file' \in {SubSeq(rows, 1, n) : n \in Len(file)..Len(rows)}
    /\ Log!Close
    /\ complete' = Complete(verdict' = "complete")
    /\ caller' = "closed"
    /\ UNCHANGED <<ring, session, drain, stop>>

(* The writer thread. *)
WriteFails ==
    /\ ~failed /\ verdict = "none"
    /\ failed' = TRUE
    /\ Log!Refuse
    /\ UNCHANGED <<ring, session, drainer>>

Persist ==
    /\ file' \in {SubSeq(rows, 1, n) : n \in Len(file)..Len(rows)}
    /\ Log!Persist
    /\ UNCHANGED <<ring, session, drainer>>

-----------------------------------------------------------------------------
Thread == EndCycle \/ Push
Drain == DrainLoop \/ Pop \/ Row \/ Drained
Stop == StopJoin \/ StopDrained \/ StopClose

Next ==
    \/ StartThread \/ Thread \/ ThreadEnds \/ JoinThread
    \/ StartDrain \/ Drain \/ StopBegin \/ Stop
    \/ WriteFails \/ Persist

Spec == Init /\ [][Next]_vars

(* Threads that can run do, and the caller's stop() goes on.  A loop that  *)
(* was told to stop ends.                                                  *)
FairSpec == Spec /\ WF_vars(Drain) /\ WF_vars(Stop)

-----------------------------------------------------------------------------
(* A log reported complete holds one row for every cycle of every segment, *)
(* in order (timing_log.hpp: "complete only if every cycle's record        *)
(* reached the file").                                                     *)
CompleteIsAll == complete => file = [n \in 1..(cycles + 1) |-> n - 1]

(* stop() returns, though the drain thread may be behind or asleep.        *)
StopReturns == stop ~> caller = "closed"
=============================================================================
