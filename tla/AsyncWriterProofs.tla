------------------------- MODULE AsyncWriterProofs --------------------------
(***************************************************************************)
(* The log writer of AsyncWriter, for every capacity, every set of row     *)
(* sizes and every number of rows: TypeOK, FileIsPrefix, LossBounded,      *)
(* CloseHonest and StatsHonest are invariants.                             *)
(*                                                                         *)
(* None of them is inductive.  What carries them is where every committed  *)
(* byte is: while the stream is trusted, in the file, then in the batch    *)
(* being written, then in the queue, in that order and nowhere twice; once *)
(* a write failed, the file and what the stream still buffers are a prefix *)
(* of the log.                                                             *)
(***************************************************************************)
EXTENDS AsyncWriter, SequencesExt, SequenceTheorems, TLAPS

(* Prefixes: what the library's theorem modules do not state.  A log that   *)
(* only ever grows, and a file that follows it, are compared with IsPrefix. *)

(* A sequence is a prefix of whatever is appended to it. *)
LEMMA PrefixOfConcat ==
    ASSUME NEW S, NEW s \in Seq(S), NEW r \in Seq(S)
    PROVE  IsPrefix(s, s \o r)
<1>1. /\ Len(s) \in Nat /\ Len(r) \in Nat
      /\ Len(s \o r) = Len(s) + Len(r)
  BY ConcatProperties, LenProperties
<1>2. SubSeq(s \o r, 1, Len(s)) = SubSeq(s, 1, Len(s))
  <2>1. CASE Len(s) = 0
    <3>1. SubSeq(s \o r, 1, Len(s)) = <<>>
      BY <2>1, SubSeqEmpty
    <3>2. SubSeq(s, 1, Len(s)) = <<>>
      BY <2>1, SubSeqEmpty
    <3>3. QED
      BY <3>1, <3>2
  <2>2. CASE Len(s) # 0
    <3>1. 1 \in 1..Len(s) /\ Len(s) \in 1..Len(s)
      BY <1>1, <2>2
    <3>2. QED
      BY <3>1, SubSeqOfConcat1
  <2>3. QED
    BY <2>1, <2>2
<1>3. SubSeq(s, 1, Len(s)) = s
  BY SubSeqFull
<1>4. QED
  BY <1>1, <1>2, <1>3 DEF IsPrefix

(* A sequence is any of its prefixes followed by the rest of it. *)
LEMMA PrefixRest ==
    ASSUME NEW S, NEW s \in Seq(S), NEW t \in Seq(S), IsPrefix(s, t)
    PROVE  \E r \in Seq(S) : t = s \o r
<1> DEFINE r == SubSeq(t, Len(s) + 1, Len(t))
<1>1. Len(s) \in Nat /\ Len(t) \in Nat /\ Len(s) <= Len(t)
  BY LenProperties DEF IsPrefix
<1>2. \A j \in 1..Len(t) : t[j] \in S
  BY ElementOfSeq
<1>3. r \in Seq(S)
  BY <1>1, <1>2, SubSeqProperties
<1>4. SubSeq(t, 1, Len(s)) \o r = SubSeq(t, 1, Len(t))
  <2>1. /\ 1 \in 1..Len(t) + 1
        /\ Len(s) \in 1 - 1..Len(t)
        /\ Len(t) \in Len(s)..Len(t)
    BY <1>1
  <2>2. QED
    BY <2>1, ConcatAdjacentSubSeq, Zenon
<1>5. SubSeq(t, 1, Len(s)) = SubSeq(s, 1, Len(s))
  BY DEF IsPrefix
<1>6. t = s \o r
  BY <1>4, <1>5, SubSeqFull
<1>7. QED
  BY <1>3, <1>6

(* What is a prefix stays one when the longer sequence grows. *)
LEMMA PrefixGrow ==
    ASSUME NEW S, NEW s \in Seq(S), NEW t \in Seq(S), NEW r \in Seq(S),
           IsPrefix(s, t)
    PROVE  IsPrefix(s, t \o r)
<1>1. PICK q \in Seq(S) : t = s \o q
  BY PrefixRest
<1>2. t \o r = s \o (q \o r)
  BY <1>1, ConcatAssociative
<1>3. q \o r \in Seq(S)
  BY ConcatProperties
<1>4. QED
  BY <1>2, <1>3, PrefixOfConcat

(* What is a prefix stays one when it loses its end. *)
LEMMA PrefixShorten ==
    ASSUME NEW S, NEW s \in Seq(S), NEW q \in Seq(S), NEW t \in Seq(S),
           IsPrefix(s \o q, t)
    PROVE  IsPrefix(s, t)
<1>1. s \o q \in Seq(S)
  BY ConcatProperties
<1>2. PICK r \in Seq(S) : t = (s \o q) \o r
  BY <1>1, PrefixRest
<1>3. t = s \o (q \o r)
  BY <1>2, ConcatAssociative
<1>4. q \o r \in Seq(S)
  BY ConcatProperties
<1>5. QED
  BY <1>3, <1>4, PrefixOfConcat

(* A sequence cut after its n-th element. *)
LEMMA SubSeqSplit ==
    ASSUME NEW S, NEW s \in Seq(S), NEW n \in 0..Len(s)
    PROVE  /\ SubSeq(s, 1, n) \in Seq(S)
           /\ SubSeq(s, n + 1, Len(s)) \in Seq(S)
           /\ SubSeq(s, 1, n) \o SubSeq(s, n + 1, Len(s)) = s
<1>1. Len(s) \in Nat /\ n \in Nat /\ n <= Len(s)
  BY LenProperties
<1>2. \A j \in 1..Len(s) : s[j] \in S
  BY ElementOfSeq
<1>3. SubSeq(s, 1, n) \in Seq(S)
  BY <1>1, <1>2, SubSeqProperties
<1>4. SubSeq(s, n + 1, Len(s)) \in Seq(S)
  BY <1>1, <1>2, SubSeqProperties
<1>5. SubSeq(s, 1, n) \o SubSeq(s, n + 1, Len(s)) = SubSeq(s, 1, Len(s))
  <2>1. /\ 1 \in 1..Len(s) + 1
        /\ n \in 1 - 1..Len(s)
        /\ Len(s) \in n..Len(s)
    BY <1>1
  <2>2. QED
    BY <2>1, ConcatAdjacentSubSeq, Zenon
<1>6. QED
  BY <1>3, <1>4, <1>5, SubSeqFull

(* Concatenation under a name the SMT solver does not interpret: its own    *)
(* axioms for \o do not terminate on nested concatenations.                *)
Cat(s, t) == s \o t

(* Cat keeps sequences. *)
LEMMA CatType == \A S : \A s, t \in Seq(S) : Cat(s, t) \in Seq(S)
  BY ConcatProperties DEF Cat

(* Cat is associative. *)
LEMMA CatAssociative ==
    \A S : \A s, t, u \in Seq(S) : Cat(Cat(s, t), u) = Cat(s, Cat(t, u))
  BY ConcatAssociative DEF Cat

(* A sequence appended to the last of three consecutive parts. *)
LEMMA CatShift ==
    ASSUME NEW S, NEW f \in Seq(S), NEW i \in Seq(S), NEW q \in Seq(S),
           NEW r \in Seq(S)
    PROVE  Cat(Cat(f, Cat(i, q)), r) = Cat(f, Cat(i, Cat(q, r)))
  BY CatType, CatAssociative

-----------------------------------------------------------------------------
(* A write failed; writerLoop may not have latched it yet. *)
StreamBroken == ioFailed \/ (writerPc = "account" /\ ~ioOk)

(* The part of writing_ that is not in the file. *)
InFlight == IF writerPc = "io" THEN writing ELSE <<>>

ControlInv ==
    /\ writerPc \in {"wait", "done"} => writing = <<>>
    /\ Len(writing) <= Capacity
    /\ ioFailed => failed
    /\ writerPc = "account" /\ ioFailed => ~ioOk
    /\ writerPc = "done" => queue = <<>> /\ stop
    /\ closePc = "open" <=> ~stop
    /\ closePc \in {"complete", "incomplete"} => writerPc = "done"
    /\ ~failed => dropped = 0

PlaceInv ==
    IF StreamBroken
      THEN IsPrefix(file \o stdio, committed)
      ELSE stdio = <<>> /\ committed = file \o (InFlight \o queue)

LossInv ==
    IF failed
      THEN Len(committed) <= Len(file) + 2 * Capacity
      ELSE Len(committed) <= Len(file) + Len(writing) + Len(queue)

CountInv ==
    /\ bytesWritten <= Len(file)
    /\ ~StreamBroken =>
         Len(file) = bytesWritten + (IF writerPc = "account" THEN Len(writing) ELSE 0)
    /\ Len(queue) <= maxQueued
    /\ maxQueued <= Capacity

IInv == TypeOK /\ ControlInv /\ PlaceInv /\ LossInv /\ CountInv /\ CloseHonest

-----------------------------------------------------------------------------
(* Type correctness.                                                       *)

(* The row commitRow appends is a sequence of bytes of its own size. *)
LEMMA RowType ==
    ASSUME NEW n \in Byte, NEW size \in Nat
    PROVE  Row(n, size) \in Seq(Byte) /\ Len(Row(n, size)) = size
<1>1. Row(n, size) \in [1..size -> Byte]
  BY DEF Row
<1>2. QED
  BY <1>1

(* The initial states are well typed. *)
LEMMA InitType == Init => TypeOK
<1>1. <<>> \in Seq(Byte) /\ Len(<<>>) = 0
  BY EmptySeq
<1>2. ASSUME Init PROVE TypeOK
  <2>1. queue \in Seq(Byte) /\ Len(queue) <= Capacity
    BY <1>1, <1>2, CapacityAssumption DEF Init
  <2>2. rows \in 0..MaxRows
    BY <1>2, MaxRowsAssumption DEF Init
  <2>3. QED
    BY <1>1, <1>2, <2>1, <2>2 DEF Init, TypeOK
<1>3. QED
  BY <1>2

(* Every step keeps the types: the queue's bound is commitRow's test. *)
LEMMA NextType == TypeOK /\ [Next]_vars => TypeOK'
<1> SUFFICES ASSUME TypeOK, [Next]_vars
             PROVE  TypeOK'
  OBVIOUS
<1> USE CapacityAssumption, RowSizesAssumption, MaxRowsAssumption
<1>1. ASSUME NEW size \in RowSizes, NEW rowOk \in BOOLEAN, CommitRow(size, rowOk)
      PROVE  TypeOK'
  <2>1. CASE Refuses(size, rowOk)
    BY <1>1, <2>1 DEF TypeOK, CommitRow, writerVars, fileVars
  <2>2. CASE ~Refuses(size, rowOk)
    <3>1. rows + 1 \in Byte /\ rows + 1 \in 0..MaxRows /\ size \in Nat
      BY <1>1 DEF TypeOK, CommitRow, Byte
    <3>2. /\ Row(rows + 1, size) \in Seq(Byte)
          /\ Len(Row(rows + 1, size)) = size
      BY <3>1, RowType
    <3>3. /\ queue' = queue \o Row(rows + 1, size)
          /\ committed' = committed \o Row(rows + 1, size)
      BY <1>1, <2>2 DEF CommitRow
    <3>4. /\ queue' \in Seq(Byte)
          /\ committed' \in Seq(Byte)
          /\ Len(queue') = Len(queue) + size
      BY <3>2, <3>3, ConcatProperties DEF TypeOK
    <3>5. Len(queue') <= Capacity
      BY <2>2, <3>4 DEF Refuses, Fits
    <3>6. maxQueued' \in Nat
      BY <1>1, <2>2, <3>1, <3>4 DEF TypeOK, CommitRow, Larger
    <3>7. QED
      BY <1>1, <2>2, <3>1, <3>4, <3>5, <3>6
      DEF TypeOK, CommitRow, writerVars, fileVars
  <2>3. QED
    BY <2>1, <2>2
<1>2. CASE CommitAfterClose
  BY <1>2 DEF TypeOK, CommitAfterClose, writerVars, fileVars
<1>3. CASE CloseBegin
  BY <1>3 DEF TypeOK, CloseBegin, producerVars, writerVars, fileVars
<1>4. ASSUME NEW fcloseOk \in BOOLEAN, NEW n \in 0..Len(stdio), CloseEnd(fcloseOk, n)
      PROVE  TypeOK'
  <2>1. file' \in Seq(Byte)
    BY <1>4, SubSeqSplit, ConcatProperties DEF TypeOK, CloseEnd
  <2>2. stdio' \in Seq(Byte)
    BY <1>4 DEF CloseEnd
  <2>3. QED
    BY <1>4, <2>1, <2>2 DEF TypeOK, CloseEnd, Verdict, producerVars, writerVars
<1>5. CASE TakeBatch
  BY <1>5 DEF TypeOK, TakeBatch, producerVars, fileVars
<1>6. CASE WriterExit
  BY <1>6 DEF TypeOK, WriterExit, producerVars, fileVars
<1>7. CASE WriteBatch
  <2>1. file' \in Seq(Byte)
    BY <1>7, ConcatProperties DEF TypeOK, WriteBatch
  <2>2. QED
    BY <1>7, <2>1 DEF TypeOK, WriteBatch, producerVars
<1>8. ASSUME NEW n \in 0..Len(writing), WriteBatchFails(n)
      PROVE  TypeOK'
  <2>1. /\ SubSeq(writing, 1, n) \in Seq(Byte)
        /\ SubSeq(writing, n + 1, Len(writing)) \in Seq(Byte)
    BY SubSeqSplit DEF TypeOK
  <2>2. file \o SubSeq(writing, 1, n) \in Seq(Byte)
    BY <2>1, ConcatProperties DEF TypeOK
  <2>3. file' \in Seq(Byte) /\ stdio' \in Seq(Byte)
    BY <1>8, <2>1, <2>2 DEF TypeOK, WriteBatchFails, fileVars
  <2>4. QED
    BY <1>8, <2>3 DEF TypeOK, WriteBatchFails, producerVars
<1>9. CASE AccountBatch
  <2>1. BytesDone \in Nat
    BY DEF TypeOK, BytesDone
  <2>2. QED
    BY <1>9, <2>1 DEF TypeOK, AccountBatch, Latch, producerVars, fileVars
<1>10. CASE UNCHANGED vars
  BY <1>10 DEF TypeOK, vars, producerVars, writerVars, fileVars
<1>11. QED
  BY <1>1, <1>2, <1>3, <1>4, <1>5, <1>6, <1>7, <1>8, <1>9, <1>10
  DEF Next, Close, Writer

(* AsyncWriter's variables keep their types, and queue_ never holds more   *)
(* than capacity_bytes, for every capacity.                                *)
THEOREM TypeCorrect == Spec => []TypeOK
<1>1. QED
  BY InitType, NextType, PTL DEF Spec
-----------------------------------------------------------------------------
(* The invariant.                                                          *)

(* The invariant holds initially. *)
LEMMA InitInv == Init => IInv
<1> SUFFICES ASSUME Init PROVE IInv
  OBVIOUS
<1>1. <<>> \in Seq(Byte) /\ Len(<<>>) = 0 /\ <<>> \o (<<>> \o <<>>) = <<>>
  BY EmptySeq, ConcatEmptySeq
<1>2. TypeOK
  BY InitType
<1>3. QED
  BY <1>1, <1>2, CapacityAssumption
  DEF Init, IInv, ControlInv, PlaceInv, LossInv, CountInv, CloseHonest,
      StreamBroken, InFlight

(* commitRow() adds a row at the end of the queue and of the log. *)
LEMMA CommitInv ==
    ASSUME IInv, TypeOK', NEW size \in RowSizes, NEW rowOk \in BOOLEAN,
           CommitRow(size, rowOk)
    PROVE  IInv'
<1> USE DEF IInv, TypeOK
<1>0. /\ Len(file) \in Nat /\ Len(writing) \in Nat /\ Len(queue) \in Nat
      /\ Len(committed) \in Nat /\ Len(stdio) \in Nat
  BY LenProperties
<1>1. closePc = "open" /\ closePc' = "open" /\ writerPc' = writerPc
  BY DEF CommitRow, writerVars
<1>2. CASE Refuses(size, rowOk)
  <2>1. Len(committed) <= Len(file) + 2 * Capacity
    BY CapacityAssumption DEF LossInv, ControlInv
  <2>2. QED
    BY <1>1, <1>2, <2>1
    DEF CommitRow, writerVars, fileVars, ControlInv, PlaceInv, LossInv, CountInv,
        CloseHonest, StreamBroken, InFlight
<1>3. CASE ~Refuses(size, rowOk)
  <2> DEFINE row == Row(rows + 1, size)
  <2>1. row \in Seq(Byte) /\ Len(row) = size /\ size \in Nat
    BY RowType, RowSizesAssumption, MaxRowsAssumption DEF CommitRow, Byte
  <2>2. queue' = queue \o row /\ committed' = committed \o row
    BY <1>3 DEF CommitRow
  <2>3. /\ Len(queue') = Len(queue) + size
        /\ Len(committed') = Len(committed) + size
    BY <2>1, <2>2, ConcatProperties
  <2>4. ~failed /\ Len(queue') <= Capacity
    BY <1>3, <2>3 DEF Refuses, Fits
  <2>5. ControlInv'
    BY <1>1, <1>3, <2>4 DEF CommitRow, writerVars, ControlInv
  <2>6. PlaceInv'
    <3>1. CASE StreamBroken
      <4>1. file \o stdio \in Seq(Byte)
        BY ConcatProperties
      <4>2. IsPrefix(file \o stdio, committed \o row)
        BY <2>1, <3>1, <4>1, PrefixGrow DEF PlaceInv
      <4>3. QED
        BY <1>1, <2>2, <3>1, <4>2
        DEF CommitRow, writerVars, fileVars, PlaceInv, StreamBroken
    <3>2. CASE ~StreamBroken
      <4>1. InFlight \in Seq(Byte)
        BY EmptySeq DEF InFlight
      <4>2. committed' = file \o (InFlight \o queue')
        <5>1. committed = file \o (InFlight \o queue)
          BY <3>2 DEF PlaceInv
        <5>2. file \in Seq(Byte) /\ queue \in Seq(Byte)
          OBVIOUS
        <5> HIDE DEF row
        <5>3. (file \o (InFlight \o queue)) \o row = file \o (InFlight \o (queue \o row))
          <6>1. row \in Seq(Byte)
            BY <2>1
          <6>2. Cat(Cat(file, Cat(InFlight, queue)), row)
                  = Cat(file, Cat(InFlight, Cat(queue, row)))
            BY ONLY <4>1, <5>2, <6>1, CatShift
          <6>3. QED
            BY <6>2 DEF Cat
        <5>4. QED
          BY <2>2, <5>1, <5>3
      <4>3. /\ file' = file /\ stdio' = stdio /\ InFlight' = InFlight
            /\ StreamBroken' <=> StreamBroken
        BY <1>1 DEF CommitRow, writerVars, fileVars, StreamBroken, InFlight
      <4>4. QED
        BY <3>2, <4>2, <4>3 DEF PlaceInv
    <3>3. QED
      BY <3>1, <3>2
  <2>7. LossInv'
    BY <1>3, <2>1, <2>3, <2>4 DEF CommitRow, writerVars, fileVars, LossInv
  <2>8. CountInv'
    <3>1. Len(queue') <= maxQueued' /\ maxQueued' <= Capacity
      <4>1. maxQueued' = Larger(maxQueued, Len(queue')) /\ maxQueued <= Capacity
        BY <1>3 DEF CommitRow, CountInv
      <4>2. Len(queue') \in Nat /\ maxQueued \in Nat /\ Capacity \in Nat
        BY <1>0, <2>1, <2>3, CapacityAssumption
      <4>3. QED
        BY <2>4, <4>1, <4>2 DEF Larger
    <3>2. /\ file' = file /\ bytesWritten' = bytesWritten /\ writing' = writing
          /\ StreamBroken' <=> StreamBroken
      BY <1>1 DEF CommitRow, writerVars, fileVars, StreamBroken
    <3>3. QED
      BY <1>1, <3>1, <3>2 DEF CountInv
  <2>9. CloseHonest'
    BY <1>1 DEF CloseHonest
  <2>10. QED
    BY <2>5, <2>6, <2>7, <2>8, <2>9
<1>4. QED
  BY <1>2, <1>3

(* close() completes the log only when everything is in the file, and a    *)
(* flush at fclose never writes out of order.                              *)
LEMMA CloseInv ==
    ASSUME IInv, TypeOK', NEW fcloseOk \in BOOLEAN, NEW n \in 0..Len(stdio),
           CloseEnd(fcloseOk, n)
    PROVE  IInv'
<1> USE DEF IInv, TypeOK
<1>0. /\ Len(file) \in Nat /\ Len(writing) \in Nat /\ Len(queue) \in Nat
      /\ Len(committed) \in Nat /\ Len(stdio) \in Nat
  BY LenProperties
<1>1. /\ closePc = "joining" /\ writerPc = "done" /\ queue = <<>> /\ stop
      /\ writing = <<>> /\ file' = file \o SubSeq(stdio, 1, n)
      /\ stdio' = <<>> /\ closePc' \in {"complete", "incomplete"}
  BY DEF CloseEnd, ControlInv, Verdict
<1>2. /\ SubSeq(stdio, 1, n) \in Seq(Byte)
      /\ SubSeq(stdio, n + 1, Len(stdio)) \in Seq(Byte)
      /\ stdio = SubSeq(stdio, 1, n) \o SubSeq(stdio, n + 1, Len(stdio))
  BY SubSeqSplit
<1>3. Len(file') = Len(file) + Len(SubSeq(stdio, 1, n)) /\ Len(file') >= Len(file)
  BY <1>1, <1>2, ConcatProperties, LenProperties
<1>4. CASE StreamBroken
  <2>1. file \o stdio = file' \o SubSeq(stdio, n + 1, Len(stdio))
    <3>1. PICK head, tail :
            /\ head \in Seq(Byte) /\ tail \in Seq(Byte)
            /\ head = SubSeq(stdio, 1, n)
            /\ tail = SubSeq(stdio, n + 1, Len(stdio))
            /\ stdio = head \o tail
      BY <1>2
    <3>2. head \in Seq(Byte) /\ tail \in Seq(Byte) /\ file \in Seq(Byte)
      BY <3>1
    <3>3. (file \o head) \o tail = file \o (head \o tail)
      BY ONLY <3>2, ConcatAssociative
    <3>4. QED
      BY <1>1, <3>1, <3>3
  <2>2. IsPrefix(file' \o SubSeq(stdio, n + 1, Len(stdio)), committed)
    BY <1>4, <2>1 DEF PlaceInv
  <2>3. IsPrefix(file', committed)
    BY <1>2, <2>2, PrefixShorten
  <2>4. file' \o stdio' = file'
    BY <1>1, ConcatEmptySeq
  <2>5. failed
    BY <1>1, <1>4 DEF ControlInv, StreamBroken
  <2>6. PlaceInv'
    BY <1>4, <2>3, <2>4 DEF CloseEnd, producerVars, writerVars, PlaceInv, StreamBroken
  <2>7. CloseHonest'
    BY <2>5 DEF CloseEnd, Verdict, CloseHonest
  <2>8. /\ failed' = failed /\ committed' = committed /\ bytesWritten' = bytesWritten
        /\ writing' = writing /\ queue' = queue /\ maxQueued' = maxQueued
        /\ StreamBroken' /\ Len(file') \in Nat
    BY <1>4, LenProperties DEF CloseEnd, producerVars, writerVars, StreamBroken
  <2>9. LossInv' /\ CountInv'
    <3>1. /\ Len(committed) <= Len(file) + 2 * Capacity
          /\ bytesWritten <= Len(file) /\ bytesWritten \in Nat
          /\ Len(queue) <= maxQueued /\ maxQueued <= Capacity
      BY <2>5 DEF LossInv, CountInv
    <3>2. 2 * Capacity \in Nat
      BY CapacityAssumption
    <3>3. Len(committed) <= Len(file') + 2 * Capacity /\ bytesWritten <= Len(file')
      BY ONLY <1>0, <1>3, <2>8, <3>1, <3>2
    <3>4. QED
      BY <2>5, <2>8, <3>1, <3>3 DEF LossInv, CountInv
  <2>10. ControlInv'
    BY <1>1, <2>8 DEF CloseEnd, producerVars, writerVars, ControlInv
  <2>11. QED
    BY <2>6, <2>7, <2>9, <2>10
<1>5. CASE ~StreamBroken
  <2>1. stdio = <<>> /\ n = 0
    BY <1>5, EmptySeq DEF PlaceInv
  <2>2. SubSeq(stdio, 1, n) = <<>>
    BY <2>1, SubSeqEmpty
  <2>3. file' = file
    BY <1>1, <2>2, ConcatEmptySeq
  <2>4. committed = file
    BY <1>1, <1>5, ConcatEmptySeq, EmptySeq DEF PlaceInv, InFlight
  <2>5. PlaceInv'
    BY <1>1, <1>5, <2>3
    DEF CloseEnd, producerVars, writerVars, PlaceInv, StreamBroken, InFlight
  <2>6. CloseHonest'
    BY <1>1, <1>5, <2>3, <2>4
    DEF CloseEnd, Verdict, producerVars, writerVars, CloseHonest, ControlInv, CountInv
  <2>7. QED
    BY <1>1, <1>5, <2>3, <2>5, <2>6
    DEF CloseEnd, producerVars, writerVars, ControlInv, LossInv, CountInv,
        StreamBroken
<1>6. QED
  BY <1>4, <1>5

(* Swapping the queue out moves its bytes and loses none. *)
LEMMA TakeInv ==
    ASSUME IInv, TypeOK', TakeBatch
    PROVE  IInv'
<1> USE DEF IInv, TypeOK
<1>1. /\ writing = <<>> /\ writerPc = "wait" /\ writing' = queue /\ queue' = <<>>
      /\ writerPc' = "io" /\ closePc' = closePc
      /\ closePc \notin {"complete", "incomplete"}
  BY DEF TakeBatch, ControlInv
<1>2. ControlInv'
  BY <1>1 DEF TakeBatch, producerVars, ControlInv
<1>3. /\ file' = file /\ stdio' = stdio /\ committed' = committed
      /\ bytesWritten' = bytesWritten /\ failed' = failed /\ maxQueued' = maxQueued
      /\ StreamBroken' <=> StreamBroken
  BY <1>1 DEF TakeBatch, producerVars, fileVars, StreamBroken
<1>4. InFlight \o queue = queue /\ InFlight' \o queue' = queue
  BY <1>1, ConcatEmptySeq DEF InFlight
<1>5. PlaceInv'
  BY <1>3, <1>4 DEF PlaceInv
<1>6. Len(<<>>) = 0 /\ Len(queue) \in Nat /\ maxQueued \in Nat
  BY EmptySeq, LenProperties
<1>7. LossInv'
  BY <1>1, <1>3, <1>6 DEF LossInv
<1>8. CountInv'
  BY <1>1, <1>3, <1>6 DEF CountInv
<1>9. CloseHonest'
  BY <1>1 DEF CloseHonest
<1>10. QED
  BY <1>2, <1>5, <1>7, <1>8, <1>9

(* A whole batch reaches the file. *)
LEMMA WriteInv ==
    ASSUME IInv, TypeOK', WriteBatch
    PROVE  IInv'
<1> USE DEF IInv, TypeOK
<1>1. /\ writerPc = "io" /\ writerPc' = "account" /\ file' = file \o writing
      /\ writing' = writing /\ queue' = queue /\ stdio' = stdio
      /\ committed' = committed /\ failed' = failed /\ closePc' = closePc
      /\ bytesWritten' = bytesWritten /\ maxQueued' = maxQueued
      /\ ~StreamBroken /\ ~StreamBroken'
      /\ closePc \notin {"complete", "incomplete"}
  BY DEF WriteBatch, StreamTrusted, producerVars, StreamBroken, ControlInv
<1>2. ControlInv'
  BY <1>1 DEF WriteBatch, StreamTrusted, producerVars, ControlInv
<1>3. PlaceInv'
  <2>1. stdio = <<>> /\ committed = file \o (writing \o queue)
    BY <1>1 DEF PlaceInv, InFlight
  <2>2. file \in Seq(Byte) /\ writing \in Seq(Byte) /\ queue \in Seq(Byte)
    OBVIOUS
  <2>3. (file \o writing) \o queue = file \o (writing \o queue)
    BY ONLY <2>2, ConcatAssociative
  <2>4. InFlight' \o queue' = queue
    BY <1>1, ConcatEmptySeq DEF InFlight
  <2>5. QED
    BY <1>1, <2>1, <2>3, <2>4 DEF PlaceInv
<1>4. /\ Len(file') = Len(file) + Len(writing)
      /\ Len(file) \in Nat /\ Len(writing) \in Nat /\ Len(queue) \in Nat
      /\ Len(committed) \in Nat
  BY <1>1, ConcatProperties, LenProperties
<1>5. LossInv'
  <2>1. CASE failed
    BY <1>1, <1>4, <2>1, CapacityAssumption DEF LossInv
  <2>2. CASE ~failed
    BY <1>1, <1>4, <2>2 DEF LossInv
  <2>3. QED
    BY <2>1, <2>2
<1>6. CountInv'
  <2>1. Len(file) = bytesWritten
    BY <1>1 DEF CountInv
  <2>2. QED
    BY <1>1, <1>4, <2>1 DEF CountInv
<1>7. CloseHonest'
  BY <1>1 DEF CloseHonest
<1>8. QED
  BY <1>2, <1>3, <1>5, <1>6, <1>7

(* A batch that failed after n bytes leaves the rest in the stream's       *)
(* buffer, in order; a broken stream is not touched again.                 *)
LEMMA WriteFailsInv ==
    ASSUME IInv, TypeOK', NEW n \in 0..Len(writing), WriteBatchFails(n)
    PROVE  IInv'
<1> USE DEF IInv, TypeOK
<1>1. /\ writerPc = "io" /\ writerPc' = "account"
      /\ writing' = writing /\ queue' = queue
      /\ committed' = committed /\ failed' = failed /\ closePc' = closePc
      /\ bytesWritten' = bytesWritten /\ maxQueued' = maxQueued
      /\ StreamBroken' /\ (StreamBroken <=> ioFailed)
      /\ closePc \notin {"complete", "incomplete"}
  BY DEF WriteBatchFails, producerVars, StreamBroken, ControlInv
<1>2. ControlInv'
  BY <1>1 DEF WriteBatchFails, producerVars, ControlInv
<1>3. CloseHonest'
  BY <1>1 DEF CloseHonest
<1>4. CASE ioFailed
  <2>1. file' = file /\ stdio' = stdio
    BY <1>4 DEF WriteBatchFails, StreamTrusted, fileVars
  <2>2. PlaceInv'
    BY <1>1, <1>4, <2>1 DEF PlaceInv
  <2>3. LossInv' /\ CountInv'
    BY <1>1, <1>4, <2>1 DEF LossInv, CountInv
  <2>4. QED
    BY <1>2, <1>3, <2>2, <2>3
<1>5. CASE ~ioFailed
  <2>1. PICK head, tail :
          /\ head = SubSeq(writing, 1, n)
          /\ tail = SubSeq(writing, n + 1, Len(writing))
          /\ head \in Seq(Byte) /\ tail \in Seq(Byte)
          /\ writing = head \o tail
    BY SubSeqSplit
  <2>2. file' = file \o head /\ stdio' = tail
    BY <1>5, <2>1 DEF WriteBatchFails, StreamTrusted
  <2>3. /\ head \in Seq(Byte) /\ tail \in Seq(Byte) /\ file \in Seq(Byte)
        /\ writing \in Seq(Byte) /\ queue \in Seq(Byte)
    BY <2>1
  <2>4. PlaceInv'
    <3>1. committed = file \o (writing \o queue)
      BY <1>1, <1>5 DEF PlaceInv, InFlight
    <3>2. (file \o writing) \o queue = file \o (writing \o queue)
      <4>1. Cat(Cat(file, writing), queue) = Cat(file, Cat(writing, queue))
        BY ONLY <2>3, CatAssociative
      <4>2. QED
        BY <4>1 DEF Cat
    <3>3. (file \o head) \o tail = file \o (head \o tail)
      <4>1. Cat(Cat(file, head), tail) = Cat(file, Cat(head, tail))
        BY ONLY <2>3, CatAssociative
      <4>2. QED
        BY <4>1 DEF Cat
    <3>4. file' \o stdio' = file \o writing
      BY <2>1, <2>2, <3>3
    <3>5. file \o writing \in Seq(Byte)
      BY ONLY <2>3, ConcatProperties
    <3>6. IsPrefix(file \o writing, (file \o writing) \o queue)
      BY ONLY <2>3, <3>5, PrefixOfConcat
    <3>7. IsPrefix(file' \o stdio', committed')
      BY <1>1, <3>1, <3>2, <3>4, <3>6
    <3>8. QED
      BY <1>1, <3>7 DEF PlaceInv
  <2>5. /\ Len(file') = Len(file) + Len(head)
        /\ Len(file) \in Nat /\ Len(head) \in Nat /\ Len(writing) \in Nat
        /\ Len(queue) \in Nat /\ Len(committed) \in Nat
    BY <2>2, <2>3, ConcatProperties, LenProperties
  <2>6. LossInv'
    <3>1. CASE failed
      <4>1. Len(committed) <= Len(file) + 2 * Capacity /\ 2 * Capacity \in Nat
        BY <3>1, CapacityAssumption DEF LossInv
      <4>2. Len(committed) <= Len(file') + 2 * Capacity
        BY ONLY <2>5, <4>1
      <4>3. QED
        BY <1>1, <3>1, <4>2 DEF LossInv
    <3>2. CASE ~failed
      <4>1. Len(committed) <= Len(file) + Len(writing) + Len(queue)
        BY <3>2 DEF LossInv
      <4>2. Len(committed) <= Len(file') + Len(writing) + Len(queue)
        BY ONLY <2>5, <4>1
      <4>3. QED
        BY <1>1, <3>2, <4>2 DEF LossInv
    <3>3. QED
      BY <3>1, <3>2
  <2>7. CountInv'
    BY <1>1, <2>5 DEF CountInv
  <2>8. QED
    BY <1>2, <1>3, <2>4, <2>6, <2>7
<1>6. QED
  BY <1>4, <1>5

(* Accounting a batch latches its failure before the loop can end. *)
LEMMA AccountInv ==
    ASSUME IInv, TypeOK', AccountBatch
    PROVE  IInv'
<1> USE DEF IInv, TypeOK
<1>1. /\ writerPc = "account" /\ writerPc' \in {"wait", "done"} /\ writing' = <<>>
      /\ queue' = queue /\ file' = file /\ stdio' = stdio /\ committed' = committed
      /\ maxQueued' = maxQueued /\ closePc' = closePc
      /\ failed' = (failed \/ ~ioOk) /\ bytesWritten' = bytesWritten + BytesDone
      /\ (StreamBroken' <=> StreamBroken)
      /\ closePc \notin {"complete", "incomplete"}
  BY DEF AccountBatch, Latch, producerVars, fileVars, StreamBroken, ControlInv
<1>2. /\ Len(<<>>) = 0 /\ Len(file) \in Nat /\ Len(writing) \in Nat
      /\ Len(queue) \in Nat /\ Len(committed) \in Nat /\ Capacity \in Nat
  BY EmptySeq, LenProperties, CapacityAssumption
<1>3. ControlInv'
  <2>1. writerPc' = "done" => queue = <<>> /\ stop
    BY DEF AccountBatch, Drained
  <2>2. QED
    BY <1>1, <1>2, <2>1 DEF AccountBatch, Latch, producerVars, ControlInv
<1>4. PlaceInv'
  <2>1. InFlight = <<>> /\ InFlight' = <<>>
    BY <1>1 DEF InFlight
  <2>2. QED
    BY <1>1, <2>1 DEF PlaceInv
<1>5. LossInv'
  <2>1. CASE failed'
    <3>1. CASE failed
      BY <1>1, <2>1, <3>1 DEF LossInv
    <3>2. CASE ~failed
      <4>1. /\ Len(committed) <= Len(file) + Len(writing) + Len(queue)
            /\ Len(writing) <= Capacity /\ Len(queue) <= Capacity
        BY <3>2 DEF LossInv, ControlInv
      <4>2. Len(committed) <= Len(file) + 2 * Capacity
        BY ONLY <1>2, <4>1
      <4>3. QED
        BY <1>1, <2>1, <4>2 DEF LossInv
    <3>3. QED
      BY <3>1, <3>2
  <2>2. CASE ~failed'
    <3>1. ~failed /\ ~StreamBroken
      BY <1>1, <2>2 DEF StreamBroken, ControlInv
    <3>2. committed = file \o (InFlight \o queue) /\ InFlight \o queue = queue
      BY <1>1, <3>1, ConcatEmptySeq DEF PlaceInv, InFlight
    <3>3. Len(committed) = Len(file) + Len(queue)
      BY <3>2, ConcatProperties
    <3>4. QED
      BY <1>1, <1>2, <2>2, <3>3 DEF LossInv
  <2>3. QED
    BY <2>1, <2>2
<1>6. CountInv'
  <2>1. bytesWritten <= Len(file) /\ Len(queue) <= maxQueued /\ maxQueued <= Capacity
    BY DEF CountInv
  <2>2. CASE StreamBroken
    <3>1. ~ioOk
      BY <1>1, <2>2 DEF StreamBroken, ControlInv
    <3>2. QED
      BY <1>1, <1>2, <2>1, <2>2, <3>1 DEF CountInv, BytesDone
  <2>3. CASE ~StreamBroken
    <3>1. ioOk /\ Len(file) = bytesWritten + Len(writing)
      BY <1>1, <2>3 DEF StreamBroken, CountInv
    <3>2. QED
      BY <1>1, <1>2, <2>1, <2>3, <3>1 DEF CountInv, BytesDone
  <2>4. QED
    BY <2>2, <2>3
<1>7. CloseHonest'
  BY <1>1 DEF CloseHonest
<1>8. QED
  BY <1>3, <1>4, <1>5, <1>6, <1>7

-----------------------------------------------------------------------------
(* The theorems.                                                           *)

(* Every step keeps the invariant. *)
LEMMA NextInv == IInv /\ [Next]_vars => IInv'
<1> SUFFICES ASSUME IInv, [Next]_vars
             PROVE  IInv'
  OBVIOUS
<1>0. TypeOK'
  BY NextType DEF IInv
<1>1. ASSUME NEW size \in RowSizes, NEW rowOk \in BOOLEAN, CommitRow(size, rowOk)
      PROVE  IInv'
  BY <1>0, <1>1, CommitInv
<1>2. CASE CommitAfterClose
  BY <1>0, <1>2
  DEF IInv, CommitAfterClose, writerVars, fileVars, ControlInv, PlaceInv, LossInv,
      CountInv, CloseHonest, StreamBroken, InFlight
<1>3. CASE CloseBegin
  BY <1>0, <1>3
  DEF IInv, CloseBegin, producerVars, writerVars, fileVars, ControlInv, PlaceInv,
      LossInv, CountInv, CloseHonest, StreamBroken, InFlight
<1>4. ASSUME NEW fcloseOk \in BOOLEAN, NEW n \in 0..Len(stdio), CloseEnd(fcloseOk, n)
      PROVE  IInv'
  BY <1>0, <1>4, CloseInv
<1>5. CASE TakeBatch
  BY <1>0, <1>5, TakeInv
<1>6. CASE WriterExit
  BY <1>0, <1>6
  DEF IInv, WriterExit, Drained, producerVars, fileVars, ControlInv, PlaceInv,
      LossInv, CountInv, CloseHonest, StreamBroken, InFlight
<1>7. CASE WriteBatch
  BY <1>0, <1>7, WriteInv
<1>8. ASSUME NEW n \in 0..Len(writing), WriteBatchFails(n)
      PROVE  IInv'
  BY <1>0, <1>8, WriteFailsInv
<1>9. CASE AccountBatch
  BY <1>0, <1>9, AccountInv
<1>10. CASE UNCHANGED vars
  BY <1>0, <1>10
  DEF IInv, vars, producerVars, writerVars, fileVars, ControlInv, PlaceInv, LossInv,
      CountInv, CloseHonest, StreamBroken, InFlight
<1>11. QED
  BY <1>1, <1>2, <1>3, <1>4, <1>5, <1>6, <1>7, <1>8, <1>9, <1>10
  DEF Next, Close, Writer

(* Where every committed byte is, at every moment of every behaviour. *)
THEOREM Invariance == Spec => []IInv
<1>1. QED
  BY InitInv, NextInv, PTL DEF Spec

(* The invariant says the file is a prefix of the log. *)
LEMMA PlaceIsPrefix == IInv => FileIsPrefix
<1> SUFFICES ASSUME IInv PROVE FileIsPrefix
  OBVIOUS
<1>1. /\ file \in Seq(Byte) /\ stdio \in Seq(Byte) /\ queue \in Seq(Byte)
      /\ committed \in Seq(Byte) /\ writing \in Seq(Byte)
  BY DEF IInv, TypeOK
<1>2. CASE StreamBroken
  <2>1. IsPrefix(file \o stdio, committed)
    BY <1>2 DEF IInv, PlaceInv
  <2>2. IsPrefix(file, committed)
    BY ONLY <1>1, <2>1, PrefixShorten
  <2>3. QED
    BY <2>2 DEF FileIsPrefix
<1>3. CASE ~StreamBroken
  <2>1. PICK rest : rest \in Seq(Byte) /\ rest = InFlight \o queue
    BY <1>1, EmptySeq, ConcatProperties DEF InFlight
  <2>2. rest \in Seq(Byte)
    BY <2>1
  <2>3. IsPrefix(file, file \o rest)
    BY ONLY <1>1, <2>2, PrefixOfConcat
  <2>4. committed = file \o rest
    BY <1>3, <2>1 DEF IInv, PlaceInv
  <2>5. QED
    BY <2>3, <2>4 DEF FileIsPrefix
<1>4. QED
  BY <1>2, <1>3

(* The log file never has a gap, a torn row or rows out of order, through  *)
(* drops, failed writes and the close (async_writer.hpp: "it never         *)
(* silently has gaps").                                                    *)
THEOREM NoGaps == Spec => []FileIsPrefix
<1>1. QED
  BY Invariance, PlaceIsPrefix, PTL

(* The invariant bounds what is only in memory. *)
LEMMA InvBoundsLoss == IInv => LossBounded
<1> SUFFICES ASSUME IInv PROVE LossBounded
  OBVIOUS
<1>1. /\ Len(file) \in Nat /\ Len(writing) \in Nat /\ Len(queue) \in Nat
      /\ Len(committed) \in Nat /\ Capacity \in Nat
      /\ Len(writing) <= Capacity /\ Len(queue) <= Capacity
  BY LenProperties, CapacityAssumption DEF IInv, TypeOK, ControlInv
<1>2. CASE failed
  BY <1>2 DEF IInv, LossInv, LossBounded
<1>3. CASE ~failed
  <2>1. Len(committed) <= Len(file) + Len(writing) + Len(queue)
    BY <1>3 DEF IInv, LossInv
  <2>2. Len(committed) <= Len(file) + 2 * Capacity
    BY ONLY <1>1, <2>1
  <2>3. QED
    BY <2>2 DEF LossBounded
<1>4. QED
  BY <1>2, <1>3

(* A kill at any moment loses at most twice capacity_bytes of committed    *)
(* rows.                                                                   *)
THEOREM BoundedLoss == Spec => []LossBounded
<1>1. QED
  BY Invariance, InvBoundsLoss, PTL

(* close() returns true only over a complete log: every committed row in   *)
(* the file, no row dropped.                                               *)
THEOREM HonestClose == Spec => []CloseHonest
<1>1. IInv => CloseHonest
  BY DEF IInv
<1>2. QED
  BY <1>1, Invariance, PTL

(* The counters a run reports agree with the file and the queue. *)
THEOREM HonestStats == Spec => []StatsHonest
<1>1. IInv => StatsHonest
  <2>1. ASSUME IInv PROVE StatsHonest
    <3>1. ~failed /\ writerPc = "wait" => ~StreamBroken
      BY <2>1 DEF IInv, ControlInv, StreamBroken
    <3>2. bytesWritten \in Nat
      BY <2>1 DEF IInv, TypeOK
    <3>3. QED
      BY <2>1, <3>1, <3>2 DEF IInv, CountInv, StatsHonest
  <2>2. QED
    BY <2>1
<1>2. QED
  BY <1>1, Invariance, PTL

-----------------------------------------------------------------------------
(* The refinement.                                                         *)

(* A step that leaves the file as it was or adds bytes to it, and changes  *)
(* nothing else the log shows, is the abstract log's Persist or a stutter. *)
LEMMA PersistRefines ==
    ASSUME FileIsPrefix', IsPrefix(file, file'), closePc' = closePc,
           closePc \in {"open", "joining"}, committed' = committed,
           failed' = failed
    PROVE  [Log!Next]_(Log!vars)
<1>1. CASE file' = file
  BY <1>1 DEF Log!vars
<1>2. CASE file' # file
  <2>1. IsPrefix(file', committed)
    BY DEF FileIsPrefix
  <2>2. Log!Persist
    BY <1>2, <2>1 DEF Log!Persist, Log!IsPrefix, IsPrefix
  <2>3. QED
    BY <2>2 DEF Log!Next
<1>3. QED
  BY <1>1, <1>2

(* Every step of the writer is a step of the abstract log or a stutter. *)
LEMMA NextRefines == IInv /\ IInv' /\ [Next]_vars => [Log!Next]_(Log!vars)
<1> SUFFICES ASSUME IInv, IInv', [Next]_vars
             PROVE  [Log!Next]_(Log!vars)
  OBVIOUS
<1>0. FileIsPrefix /\ FileIsPrefix'
  BY PlaceIsPrefix, PTL
<1>1. ASSUME NEW size \in RowSizes, NEW rowOk \in BOOLEAN, CommitRow(size, rowOk)
      PROVE  [Log!Next]_(Log!vars)
  <2>1. file' = file /\ closePc = "open" /\ closePc' = closePc
    BY <1>1 DEF CommitRow, fileVars
  <2>2. CASE Refuses(size, rowOk)
    <3>1. Log!Refuse
      BY <1>1, <2>1, <2>2 DEF CommitRow, Log!Refuse
    <3>2. QED
      BY <3>1 DEF Log!Next
  <2>3. CASE ~Refuses(size, rowOk)
    <3>1. committed' = committed \o Row(rows + 1, size) /\ ~failed /\ failed' = failed
      BY <1>1, <2>3 DEF CommitRow, Refuses
    <3>2. committed \in Seq(Byte) /\ Row(rows + 1, size) \in Seq(Byte)
      BY <1>1, RowType, RowSizesAssumption, MaxRowsAssumption
      DEF IInv, TypeOK, CommitRow, Byte
    <3>3. IsPrefix(committed, committed')
      BY ONLY <3>1, <3>2, PrefixOfConcat
    <3>4. CASE committed' = committed
      BY <2>1, <3>1, <3>4 DEF Log!vars
    <3>5. CASE committed' # committed
      <4>1. Log!Commit
        BY <2>1, <3>1, <3>3, <3>5 DEF Log!Commit, Log!IsPrefix, IsPrefix
      <4>2. QED
        BY <4>1 DEF Log!Next
    <3>6. QED
      BY <3>4, <3>5
  <2>4. QED
    BY <2>2, <2>3
<1>2. CASE CommitAfterClose
  BY <1>2 DEF CommitAfterClose, fileVars, Log!vars
<1>3. CASE CloseBegin
  BY <1>3 DEF CloseBegin, producerVars, fileVars, Log!vars
<1>4. ASSUME NEW fcloseOk \in BOOLEAN, NEW n \in 0..Len(stdio), CloseEnd(fcloseOk, n)
      PROVE  [Log!Next]_(Log!vars)
  <2>1. /\ closePc = "joining" /\ committed' = committed /\ failed' = failed
        /\ closePc' \in {"complete", "incomplete"} /\ writerPc = "done"
        /\ closePc' = "complete" => ~failed
        /\ file' = file \o SubSeq(stdio, 1, n)
    BY <1>4 DEF CloseEnd, Verdict, producerVars
  <2>2. file \in Seq(Byte) /\ SubSeq(stdio, 1, n) \in Seq(Byte)
    BY SubSeqSplit DEF IInv, TypeOK
  <2>3. IsPrefix(file, file')
    BY ONLY <2>1, <2>2, PrefixOfConcat
  <2>4. IsPrefix(file', committed)
    BY <1>0, <2>1 DEF FileIsPrefix
  <2>5. closePc' = "complete" => file = committed
    <3>1. CASE failed
      BY <2>1, <3>1
    <3>2. CASE ~failed
      <4>1. ~StreamBroken /\ InFlight = <<>> /\ queue = <<>>
        BY <2>1, <3>2 DEF IInv, ControlInv, StreamBroken, InFlight
      <4>2. committed = file \o (<<>> \o <<>>)
        BY <4>1 DEF IInv, PlaceInv
      <4>3. QED
        BY <2>2, <4>2, EmptySeq, ConcatEmptySeq
    <3>3. QED
      BY <3>1, <3>2
  <2>6. Log!Close
    BY <2>1, <2>3, <2>4, <2>5 DEF Log!Close, Log!IsPrefix, IsPrefix
  <2>7. QED
    BY <2>6 DEF Log!Next
<1>5. CASE TakeBatch
  BY <1>5 DEF TakeBatch, producerVars, fileVars, Log!vars
<1>6. CASE WriterExit
  BY <1>6 DEF WriterExit, producerVars, fileVars, Log!vars
<1>7. ASSUME WriteBatch \/ \E n \in 0..Len(writing) : WriteBatchFails(n)
      PROVE  [Log!Next]_(Log!vars)
  <2>1. /\ closePc' = closePc /\ closePc \in {"open", "joining"}
        /\ committed' = committed /\ failed' = failed
    BY <1>7 DEF WriteBatch, WriteBatchFails, producerVars, IInv, TypeOK, ControlInv
  <2>2. PICK bytes : bytes \in Seq(Byte) /\ file' = file \o bytes
    <3>1. CASE WriteBatch
      BY <3>1 DEF WriteBatch, IInv, TypeOK
    <3>2. ASSUME NEW n \in 0..Len(writing), WriteBatchFails(n)
          PROVE  \E bytes : bytes \in Seq(Byte) /\ file' = file \o bytes
      <4>1. CASE StreamTrusted
        <5>1. SubSeq(writing, 1, n) \in Seq(Byte)
          BY SubSeqSplit DEF IInv, TypeOK
        <5>2. file' = file \o SubSeq(writing, 1, n)
          BY <3>2, <4>1 DEF WriteBatchFails
        <5>3. QED
          BY <5>1, <5>2
      <4>2. CASE ~StreamTrusted
        <5>1. file' = file /\ file \in Seq(Byte)
          BY <3>2, <4>2 DEF WriteBatchFails, fileVars, IInv, TypeOK
        <5>2. <<>> \in Seq(Byte) /\ file' = file \o <<>>
          BY <5>1, EmptySeq, ConcatEmptySeq
        <5>3. QED
          BY <5>2
      <4>3. QED
        BY <4>1, <4>2
    <3>3. QED
      BY <1>7, <3>1, <3>2
  <2>3. file \in Seq(Byte) /\ bytes \in Seq(Byte)
    BY <2>2 DEF IInv, TypeOK
  <2>4. IsPrefix(file, file')
    BY ONLY <2>2, <2>3, PrefixOfConcat
  <2>5. QED
    BY <1>0, <2>1, <2>4, PersistRefines
<1>8. CASE AccountBatch
  <2>1. /\ file' = file /\ committed' = committed /\ closePc' = closePc
        /\ failed' \in {failed, TRUE}
    BY <1>8 DEF AccountBatch, Latch, producerVars, fileVars, IInv, TypeOK
  <2>2. CASE failed' = failed
    BY <2>1, <2>2 DEF Log!vars
  <2>3. CASE failed' = TRUE
    <3>1. Log!Refuse
      BY <2>1, <2>3 DEF Log!Refuse
    <3>2. QED
      BY <3>1 DEF Log!Next
  <2>4. QED
    BY <2>1, <2>2, <2>3
<1>9. CASE UNCHANGED vars
  BY <1>9 DEF vars, producerVars, writerVars, fileVars, Log!vars
<1>10. QED
  BY <1>1, <1>2, <1>3, <1>4, <1>5, <1>6, <1>7, <1>8, <1>9 DEF Next, Close, Writer

(* The writer implements the log async_writer.hpp promises: accepted rows  *)
(* only ever follow accepted rows, the file follows the log, and the       *)
(* verdict of close() is honest.                                           *)
THEOREM Refinement == Spec => ImplementsAbstractLog
<1>1. Init => Log!Init
  BY DEF Init, Log!Init
<1>2. QED
  BY <1>1, Invariance, NextRefines, PTL DEF Spec, ImplementsAbstractLog, Log!Spec

=============================================================================
