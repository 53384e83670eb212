------------------------------ MODULE SpscRing ------------------------------
(***************************************************************************)
(* The bounded ring between one producer and one consumer thread           *)
(* (src/include/rtctrl/util/spsc_ring.hpp).  Each thread loads the other's *)
(* index, works on one slot, and stores its own index; the slot is not     *)
(* atomic, so writing or copying it takes two steps, and the indices are   *)
(* unsigned numbers below Wrap.                                            *)
(***************************************************************************)
EXTENDS Naturals, Sequences

CONSTANTS
    Capacity,   \* number of slots
    Wrap,       \* the indices wrap around here: 2^64 in the build
    Record      \* the records

ASSUME CapacityAssumption == Capacity \in Nat \ {0}
ASSUME WrapAssumption ==
    /\ Wrap \in Nat
    /\ Capacity < Wrap
    /\ Wrap % Capacity = 0

VARIABLES
    slots,      \* slots_
    head,       \* head_: the next slot to write
    tail,       \* tail_: the next slot to read
    prod,       \* the producer: "idle", "writing" a slot, "written"
    item,       \* the record it pushes
    cons,       \* the consumer: "idle", "copying" a slot, "copied"
    out,        \* the record it popped
    pushed,     \* history: the records the ring accepted
    popped      \* history: the records the consumer was given

producer == <<prod, item, pushed>>
consumer == <<cons, out, popped>>
ring == <<slots, head, tail, producer, consumer>>

Index == 0..(Wrap - 1)
Slot(x) == x % Capacity
Plus1(x) == IF x = Wrap - 1 THEN 0 ELSE x + 1
Minus(x, y) == IF y <= x THEN x - y ELSE x + Wrap - y

RingTypeOK ==
    /\ slots \in [0..(Capacity - 1) -> Record]
    /\ head \in Index /\ tail \in Index
    /\ prod \in {"idle", "writing", "written"}
    /\ item \in Record
    /\ cons \in {"idle", "copying", "copied"}
    /\ out \in Record
    /\ pushed \in Seq(Record) /\ popped \in Seq(Record)

RingInit ==
    /\ slots \in [0..(Capacity - 1) -> Record]
    /\ head = 0 /\ tail = 0
    /\ prod = "idle" /\ cons = "idle"
    /\ item \in Record /\ out \in Record
    /\ pushed = <<>> /\ popped = <<>>

-----------------------------------------------------------------------------
(* push()                                                                  *)

Full == Minus(head, tail) = Capacity

PushRefused ==
    /\ prod = "idle" /\ Full
    /\ UNCHANGED ring

PushBegin(r) ==
    /\ prod = "idle" /\ ~Full
    /\ prod' = "writing" /\ item' = r
    /\ UNCHANGED <<slots, head, tail, pushed, consumer>>

WriteSlot ==
    /\ prod = "writing"
    /\ slots' = [slots EXCEPT ![Slot(head)] = item]
    /\ prod' = "written"
    /\ UNCHANGED <<head, tail, item, pushed, consumer>>

(* The release store of head_. *)
Publish ==
    /\ prod = "written"
    /\ head' = Plus1(head)
    /\ pushed' = Append(pushed, item)
    /\ prod' = "idle"
    /\ UNCHANGED <<slots, tail, item, consumer>>

-----------------------------------------------------------------------------
(* pop()                                                                   *)

Empty == tail = head

PopRefused ==
    /\ cons = "idle" /\ Empty
    /\ UNCHANGED ring

PopBegin ==
    /\ cons = "idle" /\ ~Empty
    /\ cons' = "copying"
    /\ UNCHANGED <<slots, head, tail, out, popped, producer>>

CopySlot ==
    /\ cons = "copying"
    /\ out' = slots[Slot(tail)]
    /\ cons' = "copied"
    /\ UNCHANGED <<slots, head, tail, popped, producer>>

(* Fault: the consumer skips to the newest record. *)
FaultNextTail == head

NextTail == Plus1(tail)

(* The release store of tail_ gives the slot back. *)
Free ==
    /\ cons = "copied"
    /\ tail' = NextTail
    /\ popped' = Append(popped, out)
    /\ cons' = "idle"
    /\ UNCHANGED <<slots, head, out, producer>>

-----------------------------------------------------------------------------
RingNext ==
    \/ PushRefused \/ (\E r \in Record : PushBegin(r)) \/ WriteSlot \/ Publish
    \/ PopRefused \/ PopBegin \/ CopySlot \/ Free

RingSpec == RingInit /\ [][RingNext]_ring

-----------------------------------------------------------------------------
(* The two threads never work on the same slot (spsc_ring.hpp: push and    *)
(* pop never lock).                                                        *)
NoTornRecord == prod = "writing" /\ cons = "copying" => Slot(head) # Slot(tail)

(* Records come out whole, once and in the order they went in: what was    *)
(* popped is the beginning of what was pushed, and the ring holds the rest.*)
Fifo ==
    /\ Len(popped) <= Len(pushed)
    /\ Len(pushed) - Len(popped) <= Capacity
    /\ \A n \in 1..Len(popped) : popped[n] = pushed[n]
=============================================================================
