---------------------------- MODULE AsyncWriter ----------------------------
(***************************************************************************)
(* src/util/async_writer.cpp: a row-oriented log writer that keeps file    *)
(* I/O off a control thread.  Two threads: the producer (one control       *)
(* thread, which also calls close()) and the writer thread.  A row is the  *)
(* run of its bytes, each labelled with the row's number, so the length of *)
(* queue is queue_.size() and a torn or reordered row shows.               *)
(*                                                                         *)
(* mutex_ is held for the whole of commitRow's critical section and by the *)
(* writer except while it waits or does its I/O, so one critical section   *)
(* is one action.  The timed wait of writerLoop may end at any moment (the *)
(* interval, a notification or a spurious wake-up), so the notifications   *)
(* of commitRow and close() only make it end sooner and have no action.    *)
(***************************************************************************)
EXTENDS Naturals, Sequences, SequencesExt

CONSTANTS
    Capacity,   \* Options::capacity_bytes
    RowSizes,   \* the row sizes the producer formats
    MaxRows     \* bound: rows the producer offers

(* start() refuses a zero capacity. *)
ASSUME CapacityAssumption == Capacity \in Nat \ {0}
ASSUME RowSizesAssumption == RowSizes \subseteq Nat
ASSUME MaxRowsAssumption == MaxRows \in Nat

VARIABLES
    rows,       \* rows offered to commitRow so far
    committed,  \* history: the bytes of every row commitRow accepted
    queue,      \* queue_: committed, not yet taken by the writer
    writing,    \* writing_: the batch the writer thread is writing
    stdio,      \* external: bytes a failed write left in the FILE buffer
    file,       \* external: the bytes in the file
    stop,       \* stop_
    failed,     \* failed_
    ioFailed,   \* io_failed, local to writerLoop
    dropped,    \* stats_.rows_dropped
    maxQueued,  \* stats_.max_queued_bytes
    bytesWritten, \* stats_.bytes_written
    writerPc,   \* "wait", "io" (lock released), "account", "done"
    ioOk,       \* ok in writerLoop: the result of this batch's write
    closePc     \* close(): "open", "joining", "complete", "incomplete"

producerVars == <<rows, committed, dropped, maxQueued>>
writerVars == <<writing, ioFailed, bytesWritten, writerPc, ioOk>>
fileVars == <<stdio, file>>
vars == <<producerVars, queue, writerVars, fileVars, stop, failed, closePc>>

Byte == 1..MaxRows

Larger(a, b) == IF a >= b THEN a ELSE b

TypeOK ==
    /\ rows \in 0..MaxRows
    /\ committed \in Seq(Byte)
    /\ queue \in Seq(Byte) /\ Len(queue) <= Capacity
    /\ writing \in Seq(Byte)
    /\ stdio \in Seq(Byte)
    /\ file \in Seq(Byte)
    /\ stop \in BOOLEAN
    /\ failed \in BOOLEAN
    /\ ioFailed \in BOOLEAN
    /\ dropped \in Nat
    /\ maxQueued \in Nat
    /\ bytesWritten \in Nat
    /\ writerPc \in {"wait", "io", "account", "done"}
    /\ ioOk \in BOOLEAN
    /\ closePc \in {"open", "joining", "complete", "incomplete"}

Init ==
    /\ rows = 0
    /\ committed = <<>>
    /\ queue = <<>>
    /\ writing = <<>>
    /\ stdio = <<>>
    /\ file = <<>>
    /\ stop = FALSE
    /\ failed = FALSE
    /\ ioFailed = FALSE
    /\ dropped = 0
    /\ maxQueued = 0
    /\ bytesWritten = 0
    /\ writerPc = "wait"
    /\ ioOk = TRUE
    /\ closePc = "open"

-----------------------------------------------------------------------------
(* The producer.                                                           *)

(* The pending row appendf and append built in producer-owned memory. *)
Row(n, size) == [b \in 1..size |-> n]

Fits(size) == Len(queue) + size <= Capacity

(* Fault: failed_ is not consulted, so a short row gets in behind a        *)
(* dropped long one.                                                       *)
FaultRefuses(size, rowOk) == ~rowOk \/ ~Fits(size)

Refuses(size, rowOk) == failed \/ ~rowOk \/ ~Fits(size)

(* commitRow on an open writer.  rowOk is false after an encoding error    *)
(* in appendf.                                                             *)
CommitRow(size, rowOk) ==
    /\ closePc = "open"
    /\ rows < MaxRows
    /\ rows' = rows + 1
    /\ IF Refuses(size, rowOk)
         THEN /\ failed' = TRUE
              /\ dropped' = dropped + 1
              /\ UNCHANGED <<queue, committed, maxQueued>>
         ELSE /\ queue' = queue \o Row(rows + 1, size)
              /\ committed' = committed \o Row(rows + 1, size)
              /\ maxQueued' = Larger(maxQueued, Len(queue'))
              /\ UNCHANGED <<failed, dropped>>
    /\ UNCHANGED <<writerVars, fileVars, stop, closePc>>

(* commitRow after close() began: refused, and accounted nowhere. *)
CommitAfterClose ==
    /\ closePc \in {"complete", "incomplete"}
    /\ stop
    /\ rows < MaxRows
    /\ rows' = rows + 1
    /\ UNCHANGED <<committed, dropped, maxQueued, queue, writerVars, fileVars,
                   stop, failed, closePc>>

(* close() up to the join. *)
CloseBegin ==
    /\ closePc = "open"
    /\ stop' = TRUE
    /\ closePc' = "joining"
    /\ UNCHANGED <<producerVars, queue, writerVars, fileVars, failed>>

(* Fault: close() reports fclose's result and forgets the latch. *)
FaultVerdict(fcloseOk) == IF fcloseOk THEN "complete" ELSE "incomplete"

Verdict(fcloseOk) == IF ~failed /\ fcloseOk THEN "complete" ELSE "incomplete"

(* close() from the join: the latched result and fclose's, which flushes   *)
(* what a failed write left in the stream's buffer, or part of it.         *)
CloseEnd(fcloseOk, n) ==
    /\ closePc = "joining"
    /\ writerPc = "done"
    /\ n \in 0..Len(stdio)
    /\ fcloseOk => n = Len(stdio)
    /\ file' = file \o SubSeq(stdio, 1, n)
    /\ stdio' = <<>>
    /\ closePc' = Verdict(fcloseOk)
    /\ UNCHANGED <<producerVars, queue, writerVars, stop, failed>>

-----------------------------------------------------------------------------
(* The writer thread.                                                      *)

(* Fault: the wait has no interval, only the half-full threshold or close()*)
(* ends it.                                                                *)
FaultWaitMayEnd == stop \/ 2 * Len(queue) >= Capacity

(* wake_.wait_for with the flush interval: the wait ends at some moment    *)
(* whatever the predicate says, and the loop does not look at the reason.  *)
WaitMayEnd == TRUE

Drained == stop /\ queue = <<>>

(* The wait ended with bytes queued: swap the queue out, release the lock. *)
TakeBatch ==
    /\ writerPc = "wait"
    /\ WaitMayEnd
    /\ queue # <<>>
    /\ writing' = queue
    /\ queue' = <<>>
    /\ writerPc' = "io"
    /\ UNCHANGED <<producerVars, ioFailed, bytesWritten, ioOk, fileVars, stop,
                   failed, closePc>>

(* The wait ended on an empty queue after close(): the loop breaks. *)
WriterExit ==
    /\ writerPc = "wait"
    /\ WaitMayEnd
    /\ Drained
    /\ writerPc' = "done"
    /\ UNCHANGED <<producerVars, queue, writing, ioFailed, bytesWritten, ioOk,
                   fileVars, stop, failed, closePc>>

StreamTrusted == ~ioFailed

(* fwrite and fflush of the whole batch succeed, without the lock. *)
WriteBatch ==
    /\ writerPc = "io"
    /\ StreamTrusted
    /\ file' = file \o writing
    /\ ioOk' = TRUE
    /\ writerPc' = "account"
    /\ UNCHANGED <<producerVars, queue, writing, ioFailed, bytesWritten, stdio,
                   stop, failed, closePc>>

(* fwrite or fflush fails after n bytes, or an earlier one had and the     *)
(* stream is not touched again.                                            *)
WriteBatchFails(n) ==
    /\ writerPc = "io"
    /\ n \in 0..Len(writing)
    /\ IF StreamTrusted
         THEN /\ file' = file \o SubSeq(writing, 1, n)
              /\ stdio' = SubSeq(writing, n + 1, Len(writing))
         ELSE UNCHANGED fileVars
    /\ ioOk' = FALSE
    /\ writerPc' = "account"
    /\ UNCHANGED <<producerVars, queue, writing, ioFailed, bytesWritten, stop,
                   failed, closePc>>

Latch == failed \/ ~ioOk

BytesDone == IF ioOk THEN Len(writing) ELSE 0

(* The lock is back: the batch is accounted (its writer-owned buffer is    *)
(* cleared here), and the loop breaks when close() was called and nothing  *)
(* was committed meanwhile.                                                *)
AccountBatch ==
    /\ writerPc = "account"
    /\ bytesWritten' = bytesWritten + BytesDone
    /\ writing' = <<>>
    /\ ioFailed' = (ioFailed \/ ~ioOk)
    /\ failed' = Latch
    /\ writerPc' = IF Drained THEN "done" ELSE "wait"
    /\ UNCHANGED <<producerVars, queue, ioOk, fileVars, stop, closePc>>

Writer ==
    \/ TakeBatch
    \/ WriterExit
    \/ WriteBatch
    \/ \E n \in 0..Len(writing) : WriteBatchFails(n)
    \/ AccountBatch

Close ==
    \/ CloseBegin
    \/ \E fcloseOk \in BOOLEAN, n \in 0..Len(stdio) : CloseEnd(fcloseOk, n)

Next ==
    \/ \E size \in RowSizes, rowOk \in BOOLEAN : CommitRow(size, rowOk)
    \/ CommitAfterClose
    \/ Close
    \/ Writer

(* The writer's wait is bounded by flush_interval_s and a write is assumed *)
(* to return; a close() that began runs on.  Nobody has to call close().   *)
Fairness ==
    /\ WF_vars(Writer)
    /\ WF_vars(\E fcloseOk \in BOOLEAN, n \in 0..Len(stdio) : CloseEnd(fcloseOk, n))

Spec == Init /\ [][Next]_vars

FairSpec == Spec /\ Fairness

-----------------------------------------------------------------------------
(* Properties.                                                             *)

(* The file is at every moment a prefix of what was committed: rows in     *)
(* commit order, no gap, also after a failed write and while it is being   *)
(* drained (async_writer.hpp, "it never silently has gaps").               *)
FileIsPrefix == IsPrefix(file, committed)

(* close() returns true only if every committed row is in the file and no  *)
(* row offered before it was dropped.                                      *)
CloseHonest ==
    closePc = "complete" => /\ file = committed
                            /\ dropped = 0
                            /\ bytesWritten = Len(file)

(* A process killed at any moment loses at most twice capacity_bytes of    *)
(* the rows it was told are committed (the durability note of              *)
(* async_writer.hpp): one queue and one batch.                             *)
LossBounded == Len(committed) <= Len(file) + 2 * Capacity

(* The statistics a run reports never claim more than was written or       *)
(* hide that the queue once held more than it does now.                    *)
StatsHonest ==
    /\ bytesWritten <= Len(file)
    /\ ~failed /\ writerPc = "wait" => bytesWritten = Len(file)
    /\ Len(queue) <= maxQueued
    /\ maxQueued <= Capacity

(* Once close() began, it returns.                                         *)
CloseReturns == stop ~> closePc \in {"complete", "incomplete"}

(* A committed row does not stay in memory: it reaches the file unless the *)
(* writer reports a failure.                                               *)
CommittedIsWritten == []<>(file = committed \/ failed)

(* The writer implements the log it promises.                              *)
Log == INSTANCE AbstractLog WITH
         log <- committed,
         durable <- file,
         refused <- failed,
         verdict <- IF closePc \in {"open", "joining"} THEN "none" ELSE closePc

ImplementsAbstractLog == Log!Spec
=============================================================================
