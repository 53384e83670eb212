-------------------------- MODULE TimingLogProofs ---------------------------
(***************************************************************************)
(* TimingLog, for every ring, every number of cycles and of thread starts: *)
(* its two threads use the ring as SpscRing says, so records stay in order *)
(* across the segments, and a log that is reported complete holds a row    *)
(* for every cycle.                                                        *)
(***************************************************************************)
EXTENDS TimingLog, TLAPS

(* The ring.                                                               *)
(***************************************************************************)
(* The ring of SpscRing, for every capacity and every width of its         *)
(* indices: records come out whole, once and in order, and the two threads *)
(* never work on the same slot, although the indices wrap.                 *)
(*                                                                         *)
(* The numbers that do not wrap are the lengths of the histories: an index *)
(* stands for the length of its history, and agrees with it about the      *)
(* slot because the number of indices is a multiple of the number of       *)
(* slots.                                                                  *)
(***************************************************************************)
CountInv ==
    /\ Len(popped) <= Len(pushed)
    /\ Len(pushed) - Len(popped) <= Capacity
    /\ prod # "idle" => Len(pushed) - Len(popped) < Capacity
    /\ cons # "idle" => Len(popped) < Len(pushed)
    /\ Minus(head, tail) = Len(pushed) - Len(popped)
    /\ Slot(head) = Len(pushed) % Capacity
    /\ Slot(tail) = Len(popped) % Capacity

(* Where the records are that went in and did not come out yet. *)
StoredInv ==
    /\ \A n \in (Len(popped) + 1)..Len(pushed) : slots[(n - 1) % Capacity] = pushed[n]
    /\ prod = "written" => slots[Len(pushed) % Capacity] = item
    /\ cons = "copied" => out = pushed[Len(popped) + 1]
    /\ \A n \in 1..Len(popped) : popped[n] = pushed[n]

RingInv == RingTypeOK /\ CountInv /\ StoredInv

-----------------------------------------------------------------------------
(* Slots and indices.                                                      *)

(* Any number has a slot of the ring. *)
LEMMA SlotTyped ==
    ASSUME NEW n \in Nat PROVE n % Capacity \in 0..(Capacity - 1)
BY CapacityAssumption

(* A number is its quotient and its slot. *)
LEMMA Divided ==
    ASSUME NEW n \in Nat
    PROVE  n = Capacity * (n \div Capacity) + (n % Capacity) /\ n \div Capacity \in Nat
BY CapacityAssumption

(* The slot of a number is the remainder, however it was written. *)
LEMMA Remainder ==
    ASSUME NEW n \in Nat, NEW q \in Nat, NEW r \in 0..(Capacity - 1), n = Capacity * q + r
    PROVE  n % Capacity = r
BY CapacityAssumption

(* The slot of the next number is the next slot.                           *)
LEMMA NextSlot ==
    ASSUME NEW n \in Nat
    PROVE  (n + 1) % Capacity = IF n % Capacity = Capacity - 1 THEN 0 ELSE (n % Capacity) + 1
<1> DEFINE q == n \div Capacity
           r == n % Capacity
<1>1. Capacity \in Nat \ {0} /\ q \in Nat /\ r \in 0..(Capacity - 1) /\ n = Capacity * q + r
  BY CapacityAssumption, SlotTyped, Divided
<1>2. CASE r = Capacity - 1
  <2>1. n + 1 = Capacity * (q + 1) + 0
    BY <1>1, <1>2
  <2> HIDE DEF q, r
  <2>2. q + 1 \in Nat /\ 0 \in 0..(Capacity - 1)
    BY <1>1
  <2>3. (n + 1) % Capacity = 0
    BY <2>1, <2>2, Remainder
  <2> QED
    BY <1>2, <2>3 DEF r
<1>3. CASE r # Capacity - 1
  <2>1. n + 1 = Capacity * q + (r + 1) /\ r + 1 \in 0..(Capacity - 1)
    BY <1>1, <1>3
  <2> HIDE DEF q, r
  <2>2. n + 1 \in Nat
    OBVIOUS
  <2>3. (n + 1) % Capacity = r + 1
    BY <1>1, <2>1, <2>2, Remainder
  <2> QED
    BY <1>3, <2>3 DEF r
<1> QED
  BY <1>2, <1>3

(* Numbers less than a round apart have different slots.                   *)
LEMMA SlotsDiffer ==
    ASSUME NEW m \in Nat, NEW n \in Nat, m < n, n < m + Capacity
    PROVE  m % Capacity # n % Capacity
BY CapacityAssumption, SlotTyped, Divided

(* The last index has the last slot.                                       *)
LEMMA LastSlot == Wrap \in Nat \ {0} /\ (Wrap - 1) % Capacity = Capacity - 1
<1>1. Wrap \in Nat /\ Capacity \in Nat \ {0} /\ Wrap - 1 \in Nat /\ Wrap % Capacity = 0
  BY CapacityAssumption, WrapAssumption
<1>2. Wrap % Capacity = IF (Wrap - 1) % Capacity = Capacity - 1
                          THEN 0 ELSE ((Wrap - 1) % Capacity) + 1
  <2>1. (Wrap - 1) + 1 = Wrap
    BY <1>1
  <2> QED
    BY <1>1, <2>1, NextSlot
<1>3. (Wrap - 1) % Capacity \in 0..(Capacity - 1)
  BY <1>1, SlotTyped
<1> QED
  BY <1>1, <1>2, <1>3

(* The next index stands for one more.                                     *)
LEMMA NextIndex ==
    ASSUME NEW x \in Index, NEW n \in Nat, Slot(x) = n % Capacity
    PROVE  /\ Plus1(x) \in Index
           /\ Slot(Plus1(x)) = (n + 1) % Capacity
<1>1. Wrap \in Nat \ {0} /\ x \in Nat /\ Capacity \in Nat \ {0}
  BY LastSlot, CapacityAssumption DEF Index
<1>2. Plus1(x) \in Index
  BY <1>1 DEF Plus1, Index
<1>3. CASE x = Wrap - 1
  <2>1. n % Capacity = Capacity - 1
    BY <1>3, LastSlot DEF Slot
  <2>2. (n + 1) % Capacity = 0
    BY <2>1, NextSlot
  <2>3. 0 % Capacity = 0
    BY <1>1
  <2> QED
    BY <1>2, <1>3, <2>2, <2>3 DEF Plus1, Slot
<1>4. CASE x # Wrap - 1
  <2>1. (x + 1) % Capacity = IF x % Capacity = Capacity - 1 THEN 0 ELSE (x % Capacity) + 1
    BY <1>1, NextSlot
  <2>2. (n + 1) % Capacity = IF n % Capacity = Capacity - 1 THEN 0 ELSE (n % Capacity) + 1
    BY NextSlot
  <2> QED
    BY <1>2, <1>4, <2>1, <2>2 DEF Plus1, Slot
<1> QED
  BY <1>3, <1>4

(* The distance of the indices, as either of them moves on.                *)
LEMMA Distances ==
    ASSUME NEW x \in Index, NEW y \in Index
    PROVE  /\ Minus(x, y) \in Nat
           /\ Minus(x, y) = 0 <=> x = y
           /\ Minus(x, y) < Capacity => Minus(Plus1(x), y) = Minus(x, y) + 1
           /\ Minus(x, y) > 0 => Minus(x, Plus1(y)) = Minus(x, y) - 1
BY CapacityAssumption, WrapAssumption DEF Index, Minus, Plus1

-----------------------------------------------------------------------------
(* The invariant.                                                          *)

(* An empty ring satisfies the inductive invariant. *)
LEMMA RingInvInit == RingInit => RingInv
<1> SUFFICES ASSUME RingInit PROVE RingInv
  OBVIOUS
<1>1. Wrap \in Nat \ {0} /\ Capacity \in Nat \ {0}
  BY LastSlot, CapacityAssumption
<1>2. RingTypeOK
  BY <1>1 DEF RingInit, RingTypeOK, Index
<1>3. Len(pushed) = 0 /\ Len(popped) = 0
  BY DEF RingInit
<1>4. CountInv
  BY <1>1, <1>3 DEF RingInit, CountInv, Minus, Slot
<1>5. StoredInv
  BY <1>3 DEF RingInit, StoredInv
<1> QED
  BY <1>2, <1>4, <1>5 DEF RingInv

(* Every access of either side keeps it. *)
LEMMA RingInvStep == RingInv /\ [RingNext]_ring => RingInv'
<1> SUFFICES ASSUME RingInv, [RingNext]_ring PROVE RingInv'
  OBVIOUS
<1> DEFINE p == Len(pushed)
           c == Len(popped)
<1>1. /\ p \in Nat /\ c \in Nat
      /\ Capacity \in Nat \ {0}
      /\ pushed \in Seq(Record) /\ popped \in Seq(Record)
      /\ head \in Index /\ tail \in Index
  BY CapacityAssumption DEF RingInv, RingTypeOK
<1>2. CASE UNCHANGED ring
  BY <1>2
    DEF ring, producer, consumer, RingInv, RingTypeOK, CountInv, StoredInv, Minus,
        Slot
<1>3. ASSUME NEW r \in Record, PushBegin(r) PROVE RingInv'
  <2>1. p - c < Capacity
    BY <1>1, <1>3 DEF PushBegin, Full, RingInv, CountInv
  <2>2. UNCHANGED <<slots, head, tail, pushed, consumer>> /\ prod' = "writing" /\ item' = r
    BY <1>3 DEF PushBegin
  <2>3. RingTypeOK'
    BY <2>2 DEF RingInv, RingTypeOK, consumer
  <2>4. CountInv'
    BY <2>1, <2>2 DEF RingInv, CountInv, consumer, Minus, Slot
  <2>5. StoredInv'
    BY <2>2 DEF RingInv, StoredInv, consumer
  <2> QED
    BY <2>3, <2>4, <2>5 DEF RingInv
<1>4. CASE WriteSlot
  <2>1. /\ prod = "writing" /\ prod' = "written"
        /\ UNCHANGED <<head, tail, item, pushed, consumer>>
        /\ slots' = [slots EXCEPT ![p % Capacity] = item]
    BY <1>4 DEF WriteSlot, RingInv, CountInv
  <2>2. p % Capacity \in 0..(Capacity - 1) /\ slots \in [0..(Capacity - 1) -> Record]
    BY <1>1, SlotTyped DEF RingInv, RingTypeOK
  <2>3. RingTypeOK'
    BY <2>1, <2>2 DEF RingInv, RingTypeOK, consumer
  <2>4. CountInv'
    BY <2>1 DEF RingInv, CountInv, consumer, Minus, Slot
  <2>5. ASSUME NEW n \in (c + 1)..p PROVE slots'[(n - 1) % Capacity] = pushed[n]
    <3>1. p - c < Capacity
      BY <2>1 DEF RingInv, CountInv
    <3>2. n - 1 \in Nat /\ n - 1 < p /\ p < (n - 1) + Capacity
      BY <1>1, <3>1
    <3>3. (n - 1) % Capacity # p % Capacity
      BY <1>1, <3>2, SlotsDiffer
    <3>4. (n - 1) % Capacity \in 0..(Capacity - 1)
      BY <3>2, SlotTyped
    <3>5. slots[(n - 1) % Capacity] = pushed[n]
      BY DEF RingInv, StoredInv
    <3> QED
      BY <2>1, <2>2, <3>3, <3>4, <3>5
  <2>6. slots'[p % Capacity] = item
    BY <2>1, <2>2
  <2>7. StoredInv'
    BY <2>1, <2>5, <2>6 DEF RingInv, StoredInv, consumer
  <2> QED
    BY <2>3, <2>4, <2>7 DEF RingInv
<1>5. CASE Publish
  <2>1. /\ prod = "written" /\ prod' = "idle"
        /\ head' = Plus1(head) /\ pushed' = Append(pushed, item)
        /\ UNCHANGED <<slots, tail, item, consumer>>
    BY <1>5 DEF Publish
  <2>2. item \in Record /\ Len(pushed') = p + 1 /\ pushed' \in Seq(Record)
    BY <1>1, <2>1 DEF RingInv, RingTypeOK
  <2>3. p - c < Capacity /\ Slot(head) = p % Capacity /\ Minus(head, tail) = p - c
    BY <2>1 DEF RingInv, CountInv
  <2>4. head' \in Index /\ Slot(head') = (p + 1) % Capacity
    BY <1>1, <2>1, <2>3, NextIndex
  <2>5. Minus(head', tail) = p + 1 - c
    BY <1>1, <2>1, <2>3, Distances
  <2>6. RingTypeOK'
    BY <2>1, <2>2, <2>4 DEF RingInv, RingTypeOK, consumer
  <2>7. CountInv'
    <3>1. Minus(head, tail)' = p + 1 - c /\ Slot(head)' = (p + 1) % Capacity
      BY <2>1, <2>4, <2>5 DEF Minus, Slot
    <3> QED
      BY <1>1, <2>1, <2>2, <2>3, <3>1 DEF RingInv, CountInv, consumer, Slot
  <2>8. \A n \in 1..p : pushed'[n] = pushed[n]
    BY <1>1, <2>1
  <2>9. pushed'[p + 1] = item
    BY <1>1, <2>1
  <2>10. StoredInv'
    <3>1. ASSUME NEW n \in (c + 1)..(p + 1) PROVE slots[(n - 1) % Capacity] = pushed'[n]
      <4>1. CASE n = p + 1
        <5>1. slots[p % Capacity] = item /\ n - 1 = p
          BY <1>1, <2>1, <4>1 DEF RingInv, StoredInv
        <5> QED
          BY <2>9, <4>1, <5>1
      <4>2. CASE n # p + 1
        <5>1. n \in (c + 1)..p /\ n \in 1..p
          BY <1>1, <4>2
        <5> QED
          BY <2>8, <5>1 DEF RingInv, StoredInv
      <4> QED
        BY <4>1, <4>2
    <3>2. cons = "copied" => out = pushed'[c + 1]
      <4>1. cons = "copied" => c + 1 \in 1..p /\ out = pushed[c + 1]
        BY <1>1 DEF RingInv, CountInv, StoredInv
      <4> QED
        BY <2>8, <4>1
    <3>3. \A n \in 1..c : popped[n] = pushed'[n]
      <4>1. \A n \in 1..c : n \in 1..p /\ popped[n] = pushed[n]
        BY <1>1 DEF RingInv, CountInv, StoredInv
      <4> QED
        BY <2>8, <4>1
    <3> QED
      BY <2>1, <2>2, <3>1, <3>2, <3>3 DEF StoredInv, consumer
  <2> QED
    BY <2>6, <2>7, <2>10 DEF RingInv
<1>6. CASE PopBegin
  <2>1. UNCHANGED <<slots, head, tail, out, popped, producer>> /\ cons' = "copying"
    BY <1>6 DEF PopBegin
  <2>2. c < p
    BY <1>1, <1>6, Distances DEF PopBegin, Empty, RingInv, CountInv
  <2> QED
    BY <2>1, <2>2 DEF RingInv, RingTypeOK, CountInv, StoredInv, producer, Minus, Slot
<1>7. CASE CopySlot
  <2>1. /\ cons = "copying" /\ cons' = "copied" /\ out' = slots[c % Capacity]
        /\ UNCHANGED <<slots, head, tail, popped, producer>>
    BY <1>7 DEF CopySlot, RingInv, CountInv
  <2>2. c < p
    BY <2>1 DEF RingInv, CountInv
  <2>3. c + 1 \in (c + 1)..p /\ (c + 1) - 1 = c
    BY <1>1, <2>2
  <2>4. out' = pushed[c + 1]
    BY <2>1, <2>3 DEF RingInv, StoredInv
  <2>5. out' \in Record
    BY <1>1, <2>1, SlotTyped DEF RingInv, RingTypeOK
  <2>6. RingTypeOK'
    BY <2>1, <2>5 DEF RingInv, RingTypeOK, producer
  <2>7. CountInv'
    BY <2>1, <2>2 DEF RingInv, CountInv, producer, Minus, Slot
  <2>8. StoredInv'
    BY <2>1, <2>4 DEF RingInv, StoredInv, producer
  <2> QED
    BY <2>6, <2>7, <2>8 DEF RingInv
<1>8. CASE Free
  <2>1. /\ cons = "copied" /\ cons' = "idle"
        /\ tail' = Plus1(tail) /\ popped' = Append(popped, out)
        /\ UNCHANGED <<slots, head, out, producer>>
    BY <1>8 DEF Free, NextTail
  <2>2. out \in Record /\ Len(popped') = c + 1 /\ popped' \in Seq(Record)
    BY <1>1, <2>1 DEF RingInv, RingTypeOK
  <2>3. c < p /\ Slot(tail) = c % Capacity /\ Minus(head, tail) = p - c
        /\ out = pushed[c + 1]
    BY <2>1 DEF RingInv, CountInv, StoredInv
  <2>4. tail' \in Index /\ Slot(tail') = (c + 1) % Capacity
    BY <1>1, <2>1, <2>3, NextIndex
  <2>5. Minus(head, tail') = p - (c + 1)
    BY <1>1, <2>1, <2>3, Distances
  <2>6. RingTypeOK'
    BY <2>1, <2>2, <2>4 DEF RingInv, RingTypeOK, producer
  <2>7. CountInv'
    <3>1. Minus(head, tail)' = p - (c + 1) /\ Slot(tail)' = (c + 1) % Capacity
      BY <2>1, <2>4, <2>5 DEF Minus, Slot
    <3> QED
      BY <1>1, <2>1, <2>2, <2>3, <3>1 DEF RingInv, CountInv, producer, Slot
  <2>8. StoredInv'
    <3>1. \A n \in (c + 2)..p : slots[(n - 1) % Capacity] = pushed[n]
      <4>1. \A n \in (c + 2)..p : n \in (c + 1)..p
        BY <1>1
      <4> QED
        BY <4>1 DEF RingInv, StoredInv
    <3>2. ASSUME NEW n \in 1..(c + 1) PROVE popped'[n] = pushed[n]
      <4>1. CASE n = c + 1
        BY <1>1, <2>1, <2>2, <2>3, <4>1
      <4>2. CASE n # c + 1
        <5>1. n \in 1..c /\ popped'[n] = popped[n]
          BY <1>1, <2>1, <4>2
        <5> QED
          BY <5>1 DEF RingInv, StoredInv
      <4> QED
        BY <4>1, <4>2
    <3>3. (c + 1) + 1 = c + 2
      BY <1>1
    <3> QED
      BY <2>1, <2>2, <3>1, <3>2, <3>3 DEF RingInv, StoredInv, producer
  <2> QED
    BY <2>6, <2>7, <2>8 DEF RingInv
<1>9. CASE PushRefused \/ PopRefused
  BY <1>2, <1>9 DEF PushRefused, PopRefused
<1> QED
  BY <1>2, <1>3, <1>4, <1>5, <1>6, <1>7, <1>8, <1>9 DEF RingNext

-----------------------------------------------------------------------------
(* The theorems.                                                           *)

(* So it holds in every state of the ring. *)
LEMMA RingInvHolds == RingSpec => []RingInv
BY RingInvInit, RingInvStep, PTL DEF RingSpec

(* It says in particular that what came out is what went in, in order. *)
LEMMA RingInvFifo == RingInv => Fifo
BY DEF RingInv, CountInv, StoredInv, Fifo

(* Records come out of the ring whole, once and in the order they went in. *)
THEOREM RingIsFifo == RingSpec => []Fifo
BY RingInvHolds, RingInvFifo, PTL

(* The producer writes no slot that the consumer is copying.               *)
THEOREM SlotsAreExclusive == RingSpec => []NoTornRecord
<1>1. RingInv => NoTornRecord
  <2> SUFFICES ASSUME RingInv, prod = "writing", cons = "copying"
               PROVE  Slot(head) # Slot(tail)
    BY DEF NoTornRecord
  <2>1. /\ Len(pushed) \in Nat /\ Len(popped) \in Nat /\ Capacity \in Nat
        /\ Len(popped) < Len(pushed) /\ Len(pushed) < Len(popped) + Capacity
    BY CapacityAssumption DEF RingInv, RingTypeOK, CountInv
  <2> QED
    BY <2>1, SlotsDiffer DEF RingInv, CountInv
<1> QED
  BY RingInvHolds, <1>1, PTL

-----------------------------------------------------------------------------
(* The log.                                                                *)

(* The records pushed are the cycles, as long as none was dropped. *)
PushedInv ==
    /\ cycles \in Nat /\ drops \in Nat
    /\ prod # "idle" => thread = "running"
    /\ drops = 0 =>
         /\ cycles = Len(pushed) + (IF prod = "idle" THEN 0 ELSE 1)
         /\ prod # "idle" => item = cycles
         /\ \A n \in 1..Len(pushed) : pushed[n] = n

(* The rows are the header and the records popped, while nothing failed. *)
RowsInv ==
    /\ rows \in Seq(Record) /\ file \in Seq(Record) /\ failed \in BOOLEAN
    /\ ~failed => rows = <<0>> \o popped

(* Who still works on the ring once the application stops. *)
StopInv ==
    /\ caller \in {"run", "join", "rest", "closing", "closed"}
    /\ caller # "run" => thread = "none"
    /\ caller \in {"rest", "closing", "closed"} => drain \in {"none", "exited"}
    /\ caller \in {"closing", "closed"} => cons = "idle" /\ Empty
    /\ complete => caller = "closed" /\ verdict = "complete" /\ ~failed
                   /\ drops = 0 /\ file = rows

LogInv == RingInv /\ PushedInv /\ RowsInv /\ StopInv

-----------------------------------------------------------------------------
(* The ring inside.                                                        *)

(* The log starts with an empty ring. *)
LEMMA StartsAsRing == Init => RingInit
BY DEF Init, RingInit

(* The first cycle has a number. *)
LEMMA ZeroIsRecord == 0 \in Record
BY BoundsAssumption, RecordAssumption

(* Every step is a step of the ring, or leaves it alone.                   *)
LEMMA StepsAsRing ==
    ASSUME PushedInv, [Next]_vars
    PROVE  [RingNext]_ring
<1>1. CASE EndCycle
  <2>1. cycles + 1 \in Record
    BY <1>1, BoundsAssumption, RecordAssumption DEF EndCycle, PushedInv
  <2> QED
    BY <1>1, <2>1 DEF EndCycle, RingNext
<1>2. CASE Push \/ Pop \/ Row
  BY <1>2 DEF Push, Pop, Row, RingNext
<1>3. CASE StartThread \/ ThreadEnds \/ JoinThread \/ StartDrain \/ DrainLoop \/ Drained
           \/ StopBegin \/ Stop \/ WriteFails \/ Persist
  BY <1>3 DEF StartThread, ThreadEnds, JoinThread, StartDrain, DrainLoop, Drained,
              StopBegin, Stop, StopJoin, StopDrained, StopClose, WriteFails, Persist
<1>4. CASE UNCHANGED vars
  BY <1>4 DEF vars
<1> QED
  BY <1>1, <1>2, <1>3, <1>4 DEF Next, Thread, Drain

-----------------------------------------------------------------------------
(* The records pushed.                                                     *)

(* Every step keeps what was pushed while nothing was dropped. *)
LEMMA PushedStep ==
    ASSUME RingInv, PushedInv, [Next]_vars
    PROVE  PushedInv'
<1> USE DEF PushedInv
<1>1. pushed \in Seq(Record) /\ Len(pushed) \in Nat
  BY DEF RingInv, RingTypeOK
<1>2. CASE EndCycle
  <2>1. prod = "idle" /\ thread = "running" /\ thread' = thread /\ cycles' = cycles + 1
    BY <1>2 DEF EndCycle
  <2>2. CASE Full
    <3>1. drops' = drops + 1 /\ UNCHANGED ring
      BY <1>2, <2>2 DEF EndCycle, Dropped
    <3>2. ASSUME drops' = 0 PROVE FALSE
      BY <3>1, <3>2
    <3> QED
      BY <2>1, <3>1, <3>2 DEF ring, producer
  <2>3. CASE ~Full
    <3>1. UNCHANGED <<pushed, drops>> /\ prod' = "writing" /\ item' = cycles + 1
      BY <1>2, <2>3 DEF EndCycle, PushBegin
    <3> QED
      BY <1>1, <2>1, <3>1
  <2> QED
    BY <2>2, <2>3
<1>3. CASE Push
  <2>1. UNCHANGED <<thread, cycles, drops>>
    BY <1>3 DEF Push, session
  <2>2. CASE WriteSlot
    BY <2>1, <2>2 DEF WriteSlot
  <2>3. CASE Publish
    <3>1. prod = "written" /\ prod' = "idle" /\ pushed' = Append(pushed, item) /\ item' = item
      BY <2>3 DEF Publish
    <3>2. /\ Len(pushed') = Len(pushed) + 1
          /\ pushed'[Len(pushed) + 1] = item
          /\ \A n \in 1..Len(pushed) : pushed'[n] = pushed[n]
      BY <1>1, <3>1
    <3>3. ASSUME drops = 0, NEW n \in 1..(Len(pushed) + 1) PROVE pushed'[n] = n
      <4>1. item = Len(pushed) + 1
        BY <3>1, <3>3
      <4>2. n \in 1..Len(pushed) \/ n = Len(pushed) + 1
        BY <1>1
      <4> QED
        BY <3>2, <3>3, <4>1, <4>2
    <3> QED
      BY <1>1, <2>1, <3>1, <3>2, <3>3
  <2> QED
    BY <1>3, <2>2, <2>3 DEF Push
<1>4. CASE StartThread \/ ThreadEnds \/ JoinThread
  BY <1>4 DEF StartThread, ThreadEnds, JoinThread, ring, producer
<1>5. CASE Pop \/ Row
  BY <1>5 DEF Pop, Row, PopBegin, CopySlot, Free, session, producer
<1>6. CASE StartDrain \/ DrainLoop \/ Drained \/ StopBegin \/ Stop \/ WriteFails \/ Persist
  BY <1>6 DEF StartDrain, DrainLoop, Drained, StopBegin, Stop, StopJoin, StopDrained,
              StopClose, WriteFails, Persist, ring, producer, session
<1>7. CASE UNCHANGED vars
  BY <1>7 DEF vars, ring, producer, session
<1> QED
  BY <1>2, <1>3, <1>4, <1>5, <1>6, <1>7 DEF Next, Thread, Drain

-----------------------------------------------------------------------------
(* The rows.                                                               *)

(* What reaches the file is a beginning of the rows.                       *)
LEMMA FileTyped ==
    ASSUME RowsInv, file' \in {SubSeq(rows, 1, n) : n \in Len(file)..Len(rows)}
    PROVE  file' \in Seq(Record)
BY DEF RowsInv

(* Every step keeps what the rows are made of. *)
LEMMA RowsStep ==
    ASSUME RingInv, RowsInv, [Next]_vars
    PROVE  RowsInv'
<1> USE DEF RowsInv
<1>1. popped \in Seq(Record) /\ out \in Record
  BY DEF RingInv, RingTypeOK
<1>2. CASE Row
  <2>1. popped' = Append(popped, out) /\ UNCHANGED out
    BY <1>2 DEF Row, Free
  <2>2. CASE rows' = Append(rows, out) /\ Log!Commit
    <3>1. ~failed /\ failed' = failed /\ file' = file
      BY <2>2 DEF Log!Commit
    <3>2. <<0>> \o popped' = Append(<<0>> \o popped, out)
      BY <1>1, <2>1, ZeroIsRecord
    <3>3. rows' = <<0>> \o popped'
      BY <2>2, <3>1, <3>2
    <3>4. rows' \in Seq(Record)
      BY <1>1, <2>2
    <3> QED
      BY <3>1, <3>3, <3>4
  <2>3. CASE failed' = TRUE /\ Log!Refuse
    BY <2>3 DEF Log!Refuse
  <2> QED
    BY <1>2, <2>2, <2>3 DEF Row
<1>3. CASE WriteFails
  BY <1>3 DEF WriteFails, Log!Refuse
<1>4. CASE Persist
  BY <1>4, FileTyped DEF Persist, Log!Persist, ring, consumer
<1>5. CASE StopClose
  BY <1>5, FileTyped DEF StopClose, Log!Close, ring, consumer
<1>6. CASE EndCycle
  <2>1. UNCHANGED <<popped, writer>>
    BY <1>6 DEF EndCycle, PushBegin, ring, consumer
  <2> QED
    BY <2>1 DEF writer
<1>7. CASE Push \/ Pop
  BY <1>7 DEF Push, Pop, WriteSlot, Publish, PopBegin, CopySlot, consumer, writer
<1>8. CASE StartThread \/ ThreadEnds \/ JoinThread \/ StartDrain \/ DrainLoop \/ Drained
           \/ StopBegin \/ StopJoin \/ StopDrained \/ UNCHANGED vars
  BY <1>8 DEF StartThread, ThreadEnds, JoinThread, StartDrain, DrainLoop, Drained,
              StopBegin, StopJoin, StopDrained, vars, ring, consumer, writer
<1> QED
  BY <1>2, <1>3, <1>4, <1>5, <1>6, <1>7, <1>8 DEF Next, Thread, Drain, Stop

-----------------------------------------------------------------------------
(* Stopping.                                                               *)

(* Every step keeps who still works on the ring once the application stops. *)
LEMMA StopStep ==
    ASSUME PushedInv, RowsInv, StopInv, [Next]_vars
    PROVE  StopInv'
<1> USE DEF StopInv
<1>1. CASE EndCycle \/ Push
  <2>1. thread = "running"
    BY <1>1 DEF EndCycle, Push, WriteSlot, Publish, PushedInv
  <2>2. caller = "run" /\ ~complete
    BY <2>1
  <2>3. UNCHANGED <<thread, caller, complete>>
    BY <1>1 DEF EndCycle, Push, session, drainer
  <2> QED
    BY <2>2, <2>3
<1>2. CASE StartThread \/ ThreadEnds \/ JoinThread \/ StartDrain
  <2>1. caller = "run"
    BY <1>2 DEF StartThread, ThreadEnds, JoinThread, StartDrain
  <2>2. UNCHANGED <<caller, complete>>
    BY <1>2 DEF StartThread, ThreadEnds, JoinThread, StartDrain, drainer
  <2> QED
    BY <2>1, <2>2
<1>3. CASE DrainLoop \/ Drained
  <2>1. drain \in {"check", "pop"}
    BY <1>3 DEF DrainLoop, Drained
  <2>2. UNCHANGED <<thread, caller, complete>>
    BY <1>3 DEF DrainLoop, Drained, session
  <2> QED
    BY <2>1, <2>2
<1>4. CASE Pop \/ Row
  <2>1. caller \in {"run", "join"} \/ (caller = "rest" /\ drain \in {"none", "exited"})
    BY <1>4 DEF Pop, Row, Draining
  <2>2. UNCHANGED <<thread, drain, caller, complete>>
    BY <1>4 DEF Pop, Row, session, drainer
  <2> QED
    BY <2>1, <2>2
<1>5. CASE StopBegin \/ StopJoin
  BY <1>5 DEF StopBegin, StopJoin, AfterJoin, session
<1>6. CASE StopDrained
  BY <1>6 DEF StopDrained, Empty, ring, consumer, session
<1>7. CASE StopClose
  <2>1. /\ caller = "closing" /\ caller' = "closed"
        /\ UNCHANGED <<ring, session, drain, rows, failed>>
        /\ complete' = Complete(verdict' = "complete")
    BY <1>7 DEF StopClose, Log!Close
  <2>2. cons' = "idle" /\ Empty'
    BY <2>1 DEF ring, consumer, Empty
  <2>3. ASSUME complete' PROVE verdict' = "complete" /\ ~failed' /\ drops' = 0 /\ file' = rows'
    <3>1. verdict' = "complete" /\ drops = 0
      BY <2>1, <2>3 DEF Complete
    <3>2. ~failed /\ file = rows
      BY <1>7, <3>1 DEF StopClose, Log!Close
    <3>3. file' = SubSeq(rows, 1, Len(rows))
      BY <1>7, <3>2 DEF StopClose, RowsInv
    <3>4. SubSeq(rows, 1, Len(rows)) = rows
      BY DEF RowsInv
    <3> QED
      BY <2>1, <3>1, <3>2, <3>3, <3>4 DEF session
  <2> QED
    BY <2>1, <2>2, <2>3 DEF session
<1>8. CASE WriteFails \/ Persist
  <2>1. verdict = "none"
    BY <1>8 DEF WriteFails, Persist, Log!Persist
  <2>2. UNCHANGED <<ring, session, drainer>>
    BY <1>8 DEF WriteFails, Persist
  <2> QED
    BY <2>1, <2>2 DEF ring, consumer, session, drainer, Empty
<1>9. CASE UNCHANGED vars
  BY <1>9 DEF vars, ring, consumer, session, drainer, writer, Empty
<1> QED
  BY <1>1, <1>2, <1>3, <1>4, <1>5, <1>6, <1>7, <1>8, <1>9
    DEF Next, Thread, Drain, Stop

-----------------------------------------------------------------------------
(* The theorems.                                                           *)

(* The invariant of the log holds at the start. *)
LEMMA LogInvInit == Init => LogInv
<1> SUFFICES ASSUME Init PROVE LogInv
  OBVIOUS
<1>1. RingInv
  BY StartsAsRing, RingInvInit
<1>2. PushedInv
  BY DEF Init, RingInit, PushedInv
<1>3. RowsInv
  <2>1. rows = <<0>> /\ file = <<>> /\ popped = <<>> /\ failed = FALSE
    BY DEF Init, RingInit
  <2>2. <<0>> \o <<>> = <<0>> /\ <<0>> \in Seq(Record) /\ <<>> \in Seq(Record)
    BY ZeroIsRecord
  <2> QED
    BY <2>1, <2>2 DEF RowsInv
<1>4. StopInv
  BY DEF Init, StopInv
<1> QED
  BY <1>1, <1>2, <1>3, <1>4 DEF LogInv

(* Every step keeps the invariant of the log. *)
LEMMA LogInvStep == LogInv /\ [Next]_vars => LogInv'
BY StepsAsRing, RingInvStep, PushedStep, RowsStep, StopStep DEF LogInv

(* So it holds in every reachable state. *)
LEMMA LogInvHolds == Spec => []LogInv
BY LogInvInit, LogInvStep, PTL DEF Spec

(* The background thread and whoever drains keep to the ring's protocol:   *)
(* one producer, and never two consumers.                                  *)
THEOREM UsesTheRing == Spec => RingSpec
<1>1. LogInv /\ [Next]_vars => [RingNext]_ring
  BY StepsAsRing DEF LogInv
<1> QED
  BY LogInvHolds, StartsAsRing, <1>1, PTL DEF Spec, RingSpec

(* The records reach the drain in order across all segments.               *)
THEOREM LogIsFifo == Spec => []Fifo
BY UsesTheRing, RingIsFifo, PTL

(* A log reported complete has one row for every cycle, in order.          *)
THEOREM CompleteHasAll == Spec => []CompleteIsAll
<1>1. LogInv => CompleteIsAll
  <2> SUFFICES ASSUME LogInv, complete
               PROVE  file = [n \in 1..(cycles + 1) |-> n - 1]
    BY DEF CompleteIsAll
  <2>1. caller = "closed" /\ file = rows /\ ~failed /\ drops = 0 /\ Empty
    BY DEF LogInv, StopInv
  <2>2. rows = <<0>> \o popped
    BY <2>1 DEF LogInv, RowsInv
  <2>3. prod = "idle" /\ cycles = Len(pushed)
    BY <2>1 DEF LogInv, PushedInv, StopInv
  <2>4. Len(popped) = Len(pushed)
    <3>1. /\ Minus(head, tail) = Len(pushed) - Len(popped)
          /\ head \in Index /\ tail \in Index
          /\ Len(pushed) \in Nat /\ Len(popped) \in Nat
      BY DEF LogInv, RingInv, RingTypeOK, CountInv
    <3>2. Minus(head, tail) = 0
      BY <2>1, <3>1, Distances DEF Empty
    <3> QED
      BY <3>1, <3>2
  <2>5. popped \in Seq(Record) /\ cycles \in Nat
        /\ \A n \in 1..cycles : popped[n] = n
    <3>1. \A n \in 1..Len(pushed) : pushed[n] = n
      BY <2>1 DEF LogInv, PushedInv
    <3>2. \A n \in 1..Len(popped) : popped[n] = pushed[n]
      BY DEF LogInv, RingInv, StoredInv
    <3> QED
      BY <2>3, <2>4, <3>1, <3>2 DEF LogInv, RingInv, RingTypeOK, PushedInv
  <2>6. /\ Len(rows) = cycles + 1 /\ rows \in Seq(Record)
        /\ \A n \in 1..(cycles + 1) : rows[n] = n - 1
    <3>1. Len(<<0>> \o popped) = cycles + 1
      BY <2>3, <2>4, <2>5
    <3>2. ASSUME NEW n \in 1..(cycles + 1) PROVE (<<0>> \o popped)[n] = n - 1
      <4>1. CASE n = 1
        BY <2>5, <4>1
      <4>2. CASE n # 1
        <5>1. n - 1 \in 1..cycles /\ (<<0>> \o popped)[n] = popped[n - 1]
          BY <2>3, <2>4, <2>5, <4>2
        <5> QED
          BY <2>5, <5>1
      <4> QED
        BY <4>1, <4>2
    <3> QED
      BY <2>2, <3>1, <3>2 DEF LogInv, RowsInv
  <2>7. rows = [n \in 1..(cycles + 1) |-> n - 1]
    BY <2>5, <2>6
  <2> QED
    BY <2>1, <2>7
<1> QED
  BY LogInvHolds, <1>1, PTL

=============================================================================
