----------------------------- MODULE BusProofs ------------------------------
(***************************************************************************)
(* What goes over the bus: the bounded read of BoundedPort and, above it,  *)
(* the programs of ServoParameters that edit the registers of the servos.  *)
(***************************************************************************)
EXTENDS BoundedPort, ServoParameters, SequenceTheorems, FiniteSetTheorems, TLAPS

(***************************************************************************)
(* The bounded read and the inhibit: for every group of servos, every set  *)
(* of windows that can be armed and every number of packets in flight, the *)
(* first answer taken for another is an overdue one, and at most one       *)
(* instruction leaves the port after the inhibit.                          *)
(***************************************************************************)
----------------------------------------------------------------------------
\* The invariant.

Reading == stage \in {"reading", "took"}

\* What a packet answers: a read of some window, at its normal length or one
\* byte more, or another instruction.
Answer(p) == p.len > 0

Fits(p) ==
  \/ p.of = 0 /\ p.len = 0 /\ ~p.mine
  \/ p.of \in Lens /\ p.len \in {p.of, p.of + 1}

Lengths ==
  /\ \A i \in DOMAIN wire : Fits(wire[i])
  /\ \A i \in DOMAIN rx : Fits(rx[i])
  /\ \A i \in DOMAIN got : Fits(got[i])

Control ==
  /\ ~Reading => rx = <<>> /\ got = <<>>
  /\ Reading => want \in Lens /\ asked = Requested(want)
  /\ stage = "cleared" \/ Reading => ~guarding
  /\ guarding => recovery

\* The inhibit finds at most one instruction past its last check.
Sends ==
  /\ ~inhibit => sent = 0
  /\ stage = "cleared" => sent = 0
  /\ sent <= 1

\* Nothing on the line is younger than the last read.
Ages == \A i \in DOMAIN wire : Answer(wire[i]) => wire[i].age >= elapsed

\* Until the first slip, an answer to an earlier read is overdue once the guard
\* has ended, and then recovery is due.
Spent(p) == p.age >= Horizon /\ recovery

Guarded ==
  slip = "none" /\ ~guarding =>
    /\ \A i \in DOMAIN wire : Answer(wire[i]) => Spent(wire[i]) \/ (Reading /\ wire[i].mine)
    /\ \A i \in DOMAIN rx : Answer(rx[i]) => Spent(rx[i]) \/ rx[i].mine
    /\ \A i \in DOMAIN got : Answer(got[i]) => Spent(got[i]) \/ got[i].mine

\* The line is a FIFO: nothing follows an answer to the read in progress but
\* the answers of the servos after it.
Follows(p, q) == p.mine => q.mine /\ p.id < q.id
Sorted(s) == \A i, j \in DOMAIN s : i < j => Follows(s[i], s[j])
Before(s, t) == \A i \in DOMAIN s, j \in DOMAIN t : Follows(s[i], t[j])

InOrder ==
  Reading =>
    /\ Sorted(got) /\ Sorted(rx) /\ Sorted(wire)
    /\ Before(got, rx) /\ Before(got, wire) /\ Before(rx, wire)

PortInv ==
  /\ PortTypeOK /\ Lengths /\ Control /\ Sends /\ Ages /\ Guarded /\ InOrder
  /\ slip # "stale"

----------------------------------------------------------------------------
\* The line.

\* The constants.
LEMMA Constants ==
  /\ N \in Nat /\ N > 0 /\ Budget \in Nat /\ Budget > 0 /\ Guard \in Nat
  /\ Horizon \in Nat /\ Horizon > 0
  /\ MaxWire \in Nat /\ N <= MaxWire
  /\ \A w \in Lens : w \in Nat /\ w > 0 /\ w + 1 \notin Lens
  BY ServosAssumption, LensAssumption, TimesAssumption, WireAssumption DEF Horizon

\* A function over 1..n into a set is a sequence over it.
LEMMA SequenceOf ==
  ASSUME NEW S, NEW n \in Nat, NEW f \in [1..n -> S]
  PROVE  f \in Seq(S) /\ Len(f) = n
  <1>1. f \in Seq(S)
    BY SeqDef
  <1>2. DOMAIN f = 1..n
    OBVIOUS
  <1>3. Len(f) \in Nat /\ DOMAIN f = 1..Len(f)
    BY <1>1, LenProperties
  <1> QED
    BY <1>1, <1>2, <1>3

\* Changing each packet keeps the length.
LEMMA MapFacts ==
  ASSUME NEW s \in Seq(Packet), NEW f \in [DOMAIN s -> Packet]
  PROVE  f \in Seq(Packet) /\ Len(f) = Len(s) /\ DOMAIN f = DOMAIN s
  <1>1. Len(s) \in Nat /\ DOMAIN s = 1..Len(s)
    BY LenProperties
  <1>2. f \in [1..Len(s) -> Packet]
    BY <1>1
  <1> QED
    BY <1>1, <1>2, SequenceOf

\* What one packet changed in one field is.
LEMMA PacketFacts ==
  ASSUME NEW p \in Packet
  PROVE  /\ p.id \in 1..N /\ p.of \in Lens \cup {0} /\ p.len \in Nat /\ p.age \in 0..Horizon
         /\ p.mine \in BOOLEAN /\ p.whole \in BOOLEAN
         /\ \A b \in BOOLEAN :
              /\ [p EXCEPT !.mine = b] \in Packet /\ [p EXCEPT !.mine = b].mine = b
              /\ [p EXCEPT !.mine = b].id = p.id /\ [p EXCEPT !.mine = b].of = p.of
              /\ [p EXCEPT !.mine = b].len = p.len /\ [p EXCEPT !.mine = b].age = p.age
              /\ [p EXCEPT !.whole = b] \in Packet /\ [p EXCEPT !.whole = b].mine = p.mine
              /\ [p EXCEPT !.whole = b].id = p.id /\ [p EXCEPT !.whole = b].of = p.of
              /\ [p EXCEPT !.whole = b].len = p.len /\ [p EXCEPT !.whole = b].age = p.age
         /\ \A a \in 0..Horizon :
              /\ [p EXCEPT !.age = a] \in Packet /\ [p EXCEPT !.age = a].mine = p.mine
              /\ [p EXCEPT !.age = a].id = p.id /\ [p EXCEPT !.age = a].of = p.of
              /\ [p EXCEPT !.age = a].len = p.len /\ [p EXCEPT !.age = a].age = a
  BY DEF Packet, Ids

\* The oldest packets go first.
LEMMA NewestFacts ==
  ASSUME NEW s \in Seq(Packet)
  PROVE  /\ Newest(s) \in Seq(Packet)
         /\ \E d \in Nat : /\ Len(Newest(s)) = Len(s) - d
                           /\ \A i \in 1..Len(Newest(s)) :
                                i + d \in 1..Len(s) /\ Newest(s)[i] = s[i + d]
  <1>1. Len(s) \in Nat
    BY LenProperties
  <1>2. CASE Len(s) <= MaxWire
    <2>1. Newest(s) = s
      BY <1>2 DEF Newest
    <2>2. \A i \in 1..Len(s) : i + 0 \in 1..Len(s) /\ s[i] = s[i + 0]
      BY <1>1
    <2> QED
      BY <1>1, <2>1, <2>2
  <1>3. CASE Len(s) > MaxWire
    <2> DEFINE d == Len(s) - MaxWire
    <2>1. d \in Nat
      BY <1>1, <1>3, Constants
    <2>2. Newest(s) = SubSeq(s, d + 1, Len(s))
      BY <1>1, <1>3, Constants DEF Newest
    <2>3. \A i \in (d + 1)..Len(s) : s[i] \in Packet
      BY <1>1, <2>1, ElementOfSeq
    <2>4. /\ Newest(s) \in Seq(Packet) /\ Len(Newest(s)) = Len(s) - d
          /\ \A i \in 1..(Len(s) - d) : Newest(s)[i] = s[d + 1 + i - 1]
      BY <1>1, <1>3, <2>1, <2>2, <2>3, SubSeqProperties, Constants
    <2>5. \A i \in 1..Len(Newest(s)) : i + d \in 1..Len(s) /\ Newest(s)[i] = s[i + d]
      BY <1>1, <2>1, <2>4
    <2> HIDE DEF d
    <2> QED
      BY <2>1, <2>4, <2>5
  <1> QED
    BY <1>1, <1>2, <1>3, Constants

\* Packets sent are put behind those in flight.
LEMMA SentFacts ==
  ASSUME NEW s \in Seq(Packet), NEW a \in Seq(Packet)
  PROVE  /\ Newest(s \o a) \in Seq(Packet)
         /\ \E d \in Int :
              \A i \in DOMAIN Newest(s \o a) :
                \/ /\ i <= d /\ \E j \in DOMAIN s : Newest(s \o a)[i] = s[j]
                \/ /\ i > d /\ i - d \in DOMAIN a /\ Newest(s \o a)[i] = a[i - d]
  <1>1. /\ s \o a \in Seq(Packet) /\ Len(s) \in Nat /\ Len(a) \in Nat
        /\ Len(s \o a) = Len(s) + Len(a)
        /\ DOMAIN s = 1..Len(s) /\ DOMAIN a = 1..Len(a)
        /\ \A i \in 1..(Len(s) + Len(a)) :
             (s \o a)[i] = IF i <= Len(s) THEN s[i] ELSE a[i - Len(s)]
    BY ConcatProperties, LenProperties
  <1>2. PICK d \in Nat :
          /\ Len(Newest(s \o a)) = Len(s \o a) - d
          /\ \A i \in 1..Len(Newest(s \o a)) :
               i + d \in 1..Len(s \o a) /\ Newest(s \o a)[i] = (s \o a)[i + d]
    BY <1>1, NewestFacts
  <1>3. Newest(s \o a) \in Seq(Packet) /\ DOMAIN Newest(s \o a) = 1..Len(Newest(s \o a))
    BY <1>1, NewestFacts, LenProperties
  <1> DEFINE e == Len(s) - d
  <1>4. ASSUME NEW i \in DOMAIN Newest(s \o a)
        PROVE  \/ i <= e /\ \E j \in DOMAIN s : Newest(s \o a)[i] = s[j]
               \/ i > e /\ i - e \in DOMAIN a /\ Newest(s \o a)[i] = a[i - e]
    <2>1. i \in 1..Len(Newest(s \o a))
      BY <1>3
    <2>2. i + d \in 1..(Len(s) + Len(a)) /\ Newest(s \o a)[i] = (s \o a)[i + d]
      BY <1>1, <1>2, <2>1
    <2>3. CASE i + d <= Len(s)
      BY <1>1, <1>2, <2>1, <2>2, <2>3
    <2>4. CASE i + d > Len(s)
      BY <1>1, <1>2, <2>1, <2>2, <2>4
    <2> QED
      BY <1>1, <1>2, <2>1, <2>3, <2>4
  <1>5. e \in Int
    BY <1>1, <1>2
  <1> HIDE DEF e
  <1> QED
    BY <1>3, <1>4, <1>5

\* The answers to a read.
LEMMA AnswersFacts ==
  ASSUME NEW len \in Nat, want \in Lens, NEW a \in Answers(len)
  PROVE  /\ a \in Seq(Packet)
         /\ \A i \in DOMAIN a : /\ a[i].id = i /\ a[i].of = want /\ a[i].len = len
                                /\ a[i].mine /\ i \in 1..N
  <1>1. PICK bad \in Ids \cup {0} : a = [i \in Ids |-> Reply(i, want, len, i # bad, TRUE)]
    BY DEF Answers
  <1>2. \A i \in 1..N : /\ a[i] \in Packet /\ a[i].id = i /\ a[i].of = want
                        /\ a[i].len = len /\ a[i].mine
    BY <1>1, Constants DEF Reply, Packet, Ids
  <1>3. a \in [1..N -> Packet]
    BY <1>1, <1>2 DEF Ids
  <1> QED
    BY <1>2, <1>3, SequenceOf, Constants

\* A sequence of packets, in the parts that the steps take.
LEMMA TailFacts ==
  ASSUME NEW s \in Seq(Packet), s # <<>>
  PROVE  /\ Tail(s) \in Seq(Packet) /\ Head(s) = s[1] /\ 1 \in DOMAIN s /\ s[1] \in Packet
         /\ \A i \in DOMAIN Tail(s) : /\ i + 1 \in DOMAIN s /\ Tail(s)[i] = s[i + 1]
                                      /\ i \in Nat /\ 1 < i + 1
  <1>1. /\ Len(s) \in Nat /\ Len(s) > 0 /\ DOMAIN s = 1..Len(s)
    BY LenProperties, EmptySeq
  <1>2. /\ Tail(s) \in Seq(Packet) /\ Head(s) = s[1]
        /\ Len(Tail(s)) = Len(s) - 1 /\ \A i \in 1..Len(Tail(s)) : Tail(s)[i] = s[i + 1]
    BY HeadTailProperties, <1>1
  <1>3. DOMAIN Tail(s) = 1..(Len(s) - 1)
    BY <1>1, <1>2, LenProperties
  <1>4. s[1] \in Packet
    BY <1>1, ElementOfSeq
  <1> QED
    BY <1>1, <1>2, <1>3, <1>4

\* What is appended is last.
LEMMA AppendFacts ==
  ASSUME NEW s \in Seq(Packet), NEW p \in Packet
  PROVE  /\ Append(s, p) \in Seq(Packet)
         /\ \A i \in DOMAIN Append(s, p) :
              \/ i \in DOMAIN s /\ Append(s, p)[i] = s[i]
              \/ Append(s, p)[i] = p /\ i \in Nat /\ \A j \in DOMAIN s : j < i
         /\ \A i, j \in DOMAIN Append(s, p) : i < j => i \in DOMAIN s
         /\ \A i \in DOMAIN s : i \in DOMAIN Append(s, p)
  <1>1. Len(s) \in Nat /\ DOMAIN s = 1..Len(s)
    BY LenProperties
  <1>2. /\ Append(s, p) \in Seq(Packet) /\ Len(Append(s, p)) = Len(s) + 1
        /\ \A i \in 1..Len(s) : Append(s, p)[i] = s[i]
        /\ Append(s, p)[Len(s) + 1] = p
    BY AppendProperties
  <1>3. DOMAIN Append(s, p) = 1..(Len(s) + 1)
    BY <1>1, <1>2, LenProperties
  <1> QED
    BY <1>1, <1>2, <1>3

\* The second sequence follows the first.
LEMMA ConcatFacts ==
  ASSUME NEW s \in Seq(Packet), NEW t \in Seq(Packet)
  PROVE  /\ s \o t \in Seq(Packet)
         /\ \A i \in DOMAIN (s \o t) :
              \/ i \in DOMAIN s /\ (s \o t)[i] = s[i]
              \/ /\ i - Len(s) \in DOMAIN t /\ (s \o t)[i] = t[i - Len(s)]
                 /\ \A j \in DOMAIN s : j < i
         /\ Len(s) \in Nat /\ \A i \in DOMAIN (s \o t) : i \in Nat
         /\ \A i \in DOMAIN s : i <= Len(s)
         /\ \A i \in DOMAIN t : i > 0
  <1>1. /\ Len(s) \in Nat /\ DOMAIN s = 1..Len(s) /\ Len(t) \in Nat /\ DOMAIN t = 1..Len(t)
    BY LenProperties
  <1>2. /\ s \o t \in Seq(Packet) /\ Len(s \o t) = Len(s) + Len(t)
        /\ \A i \in 1..(Len(s) + Len(t)) :
             (s \o t)[i] = IF i <= Len(s) THEN s[i] ELSE t[i - Len(s)]
    BY ConcatProperties
  <1>3. DOMAIN (s \o t) = 1..(Len(s) + Len(t))
    BY <1>1, <1>2, LenProperties
  <1> QED
    BY <1>1, <1>2, <1>3

\* A read abandoned: its answers are no longer awaited.
LEMMA AbandonedFacts ==
  ASSUME NEW s \in Seq(Packet)
  PROVE  /\ Abandoned(s) \in Seq(Packet) /\ DOMAIN Abandoned(s) = DOMAIN s
         /\ \A i \in DOMAIN s :
              /\ ~Abandoned(s)[i].mine /\ Abandoned(s)[i].len = s[i].len
              /\ Abandoned(s)[i].of = s[i].of /\ Abandoned(s)[i].age = s[i].age
  <1>1. \A i \in DOMAIN s : s[i] \in Packet
    BY LenProperties, ElementOfSeq
  <1>2. Abandoned(s) = [i \in DOMAIN s |-> [s[i] EXCEPT !.mine = FALSE]]
    BY DEF Abandoned
  <1>3. \A i \in DOMAIN s : [s[i] EXCEPT !.mine = FALSE] \in Packet
    BY <1>1, PacketFacts
  <1>4. Abandoned(s) \in [DOMAIN s -> Packet]
    BY <1>2, <1>3
  <1>5. \A i \in DOMAIN s : Abandoned(s)[i] = [s[i] EXCEPT !.mine = FALSE]
    BY <1>2
  <1>6. ASSUME NEW i \in DOMAIN s
        PROVE  /\ ~Abandoned(s)[i].mine /\ Abandoned(s)[i].len = s[i].len
               /\ Abandoned(s)[i].of = s[i].of /\ Abandoned(s)[i].age = s[i].age
    <2>1. s[i] \in Packet /\ Abandoned(s)[i] = [s[i] EXCEPT !.mine = FALSE] /\ FALSE \in BOOLEAN
      BY <1>1, <1>5
    <2> QED
      BY <2>1, PacketFacts
  <1> QED
    BY <1>4, <1>6, MapFacts

\* A tick ages what is in flight.
LEMMA OlderFacts ==
  ASSUME NEW s \in Seq(Packet)
  PROVE  /\ Older(s) \in Seq(Packet) /\ DOMAIN Older(s) = DOMAIN s
         /\ \A i \in DOMAIN s :
              /\ Older(s)[i].mine = s[i].mine /\ Older(s)[i].id = s[i].id
              /\ Older(s)[i].len = s[i].len /\ Older(s)[i].of = s[i].of
              /\ Older(s)[i].age = IF s[i].age < Horizon THEN s[i].age + 1 ELSE s[i].age
  <1> DEFINE a(i) == IF s[i].age < Horizon THEN s[i].age + 1 ELSE s[i].age
  <1>1. \A i \in DOMAIN s : s[i] \in Packet
    BY LenProperties, ElementOfSeq
  <1>2. Older(s) = [i \in DOMAIN s |-> [s[i] EXCEPT !.age = a(i)]]
    BY DEF Older
  <1>3. \A i \in DOMAIN s : a(i) \in 0..Horizon
    BY <1>1, PacketFacts, Constants
  <1> HIDE DEF a
  <1>4. \A i \in DOMAIN s : [s[i] EXCEPT !.age = a(i)] \in Packet
    BY <1>1, <1>3, PacketFacts
  <1>5. Older(s) \in [DOMAIN s -> Packet]
    BY <1>2, <1>4
  <1>6. \A i \in DOMAIN s : Older(s)[i] = [s[i] EXCEPT !.age = a(i)]
    BY <1>2
  <1>7. Older(s) \in Seq(Packet) /\ DOMAIN Older(s) = DOMAIN s
    BY <1>5, MapFacts
  <1>8. ASSUME NEW i \in DOMAIN s
        PROVE  /\ Older(s)[i].mine = s[i].mine /\ Older(s)[i].id = s[i].id
               /\ Older(s)[i].len = s[i].len /\ Older(s)[i].of = s[i].of
               /\ Older(s)[i].age = a(i)
    <2>1. s[i] \in Packet /\ Older(s)[i] = [s[i] EXCEPT !.age = a(i)] /\ a(i) \in 0..Horizon
      BY <1>1, <1>3, <1>6
    <2> QED
      BY <2>1, PacketFacts
  <1> QED
    BY <1>7, <1>8 DEF a

\* A read cut off leaves the packets, one of them damaged.
LEMMA RemaindersFacts ==
  ASSUME PortTypeOK, NEW s \in Remainders
  PROVE  /\ s \in Seq(Packet) /\ DOMAIN s = DOMAIN wire
         /\ \A i \in DOMAIN s :
              /\ s[i].mine = wire[i].mine /\ s[i].id = wire[i].id /\ s[i].len = wire[i].len
              /\ s[i].of = wire[i].of /\ s[i].age = wire[i].age
  <1>0. wire \in Seq(Packet)
    BY DEF PortTypeOK
  <1>1. CASE s = wire
    BY <1>0, <1>1
  <1>2. CASE s = [wire EXCEPT ![1].whole = FALSE] /\ wire # <<>>
    <2>1. 1 \in DOMAIN wire /\ wire[1] \in Packet
      BY <1>0, <1>2, TailFacts
    <2>2. \A i \in DOMAIN wire : wire[i] \in Packet
      BY <1>0, LenProperties, ElementOfSeq
    <2>3. Len(wire) \in Nat /\ DOMAIN wire = 1..Len(wire) /\ wire \in [1..Len(wire) -> Packet]
      BY <1>0, LenProperties
    <2>4. s = [i \in DOMAIN wire |-> IF i = 1 THEN [wire[1] EXCEPT !.whole = FALSE] ELSE wire[i]]
      BY <1>2, <2>1, <2>3
    <2>5. s \in [DOMAIN wire -> Packet]
      BY <2>1, <2>2, <2>4, PacketFacts
    <2>6. s \in Seq(Packet) /\ DOMAIN s = DOMAIN wire
      BY <1>0, <2>5, MapFacts
    <2>7. ASSUME NEW i \in DOMAIN wire
          PROVE  /\ s[i].mine = wire[i].mine /\ s[i].id = wire[i].id
                 /\ s[i].len = wire[i].len /\ s[i].of = wire[i].of /\ s[i].age = wire[i].age
      BY <2>1, <2>4, PacketFacts
    <2> QED
      BY <2>6, <2>7
  <1> QED
    BY <1>1, <1>2 DEF Remainders

----------------------------------------------------------------------------
\* The steps that leave the line alone.

\* Arming keeps a recovery that is due.
LEMMA ArmStep ==
  ASSUME PortInv, Arm
  PROVE  PortInv'
  <1> USE Constants
  <1>1. PortTypeOK'
    BY SMT DEF PortInv, PortTypeOK, Arm, RecoveryAfterArming, lineVars
  <1>2. UNCHANGED <<wire, rx, got>>
    BY SMT DEF Arm, RecoveryAfterArming, lineVars
  <1>3. Lengths'
    BY <1>2 DEF PortInv, Lengths, Fits
  <1>4. Control'
    BY SMT
      DEF PortInv, Control, PortTypeOK, Reading, Requested, Arm, RecoveryAfterArming,
          lineVars
  <1>5. Sends'
    BY SMT DEF PortInv, Sends, PortTypeOK, Arm, RecoveryAfterArming, lineVars
  <1>6. Ages'
    BY <1>2, SMT
      DEF PortInv, Ages, PortTypeOK, Answer, Arm, RecoveryAfterArming, lineVars
  <1>7. Guarded'
    BY <1>2, SMT
      DEF PortInv, Guarded, Spent, Answer, PortTypeOK, Control, Reading, Arm,
          RecoveryAfterArming, lineVars
  <1>8. InOrder'
    BY <1>2, SMT
      DEF PortInv, InOrder, Sorted, Before, Follows, Control, Reading, Arm,
          RecoveryAfterArming, lineVars
  <1>9. slip' # "stale"
    BY SMT DEF PortInv, Arm, RecoveryAfterArming, lineVars
  <1> QED
    BY <1>1, <1>3, <1>4, <1>5, <1>6, <1>7, <1>8, <1>9 DEF PortInv

\* So does disarming.
LEMMA DisarmStep ==
  ASSUME PortInv, Disarm
  PROVE  PortInv'
  <1> USE Constants
  <1>1. PortTypeOK'
    BY DEF PortInv, PortTypeOK, Disarm, lineVars
  <1>2. UNCHANGED <<wire, rx, got>>
    BY SMT DEF Disarm, lineVars
  <1>3. Lengths'
    BY <1>2 DEF PortInv, Lengths, Fits
  <1>4. Control'
    BY SMT DEF PortInv, Control, PortTypeOK, Reading, Requested, Disarm, lineVars
  <1>5. Sends'
    BY SMT DEF PortInv, Sends, PortTypeOK, Disarm, lineVars
  <1>6. Ages'
    BY <1>2, SMT DEF PortInv, Ages, PortTypeOK, Answer, Disarm, lineVars
  <1>7. Guarded'
    BY <1>2, SMT
      DEF PortInv, Guarded, Spent, Answer, PortTypeOK, Control, Reading, Disarm,
          lineVars
  <1>8. InOrder'
    BY <1>2, SMT
      DEF PortInv, InOrder, Sorted, Before, Follows, Control, Reading, Disarm,
          lineVars
  <1>9. slip' # "stale"
    BY SMT DEF PortInv, Disarm, lineVars
  <1> QED
    BY <1>1, <1>3, <1>4, <1>5, <1>6, <1>7, <1>8, <1>9 DEF PortInv

\* A transaction begins with the receive buffer empty.
LEMMA BeginStep ==
  ASSUME PortInv, \E w \in Lens \cup {0} : Begin(w)
  PROVE  PortInv'
  <1>0. PICK w \in Lens \cup {0} : Begin(w)
    OBVIOUS
  <1> USE Constants
  <1>1. PortTypeOK'
    BY <1>0, SMT DEF PortInv, PortTypeOK, Begin, lineVars
  <1>2. UNCHANGED <<wire, rx, got>>
    BY <1>0, SMT DEF Begin, lineVars
  <1>3. Lengths'
    BY <1>2 DEF PortInv, Lengths, Fits
  <1>4. Control'
    BY <1>0, SMT DEF PortInv, Control, PortTypeOK, Reading, Requested, Begin, lineVars
  <1>5. Sends'
    BY <1>0, SMT DEF PortInv, Sends, PortTypeOK, Begin, lineVars
  <1>6. Ages'
    BY <1>0, <1>2, SMT DEF PortInv, Ages, PortTypeOK, Answer, Begin, lineVars
  <1>7. Guarded'
    BY <1>0, <1>2, SMT
      DEF PortInv, Guarded, Spent, Answer, PortTypeOK, Control, Reading, Begin,
          lineVars
  <1>8. InOrder'
    BY <1>0, <1>2, SMT
      DEF PortInv, InOrder, Sorted, Before, Follows, Control, Reading, Begin,
          lineVars
  <1>9. slip' # "stale"
    BY <1>0, SMT DEF PortInv, Begin, lineVars
  <1> QED
    BY <1>1, <1>3, <1>4, <1>5, <1>6, <1>7, <1>8, <1>9 DEF PortInv

\* An inhibit ends the wait for the guard.
LEMMA GiveUpStep ==
  ASSUME PortInv, GiveUp
  PROVE  PortInv'
  <1> USE Constants
  <1>1. PortTypeOK'
    BY SMT DEF PortInv, PortTypeOK, GiveUp, lineVars
  <1>2. UNCHANGED <<wire, rx, got>>
    BY SMT DEF GiveUp, lineVars
  <1>3. Lengths'
    BY <1>2 DEF PortInv, Lengths, Fits
  <1>4. Control'
    BY SMT DEF PortInv, Control, PortTypeOK, Reading, Requested, GiveUp, lineVars
  <1>5. Sends'
    BY SMT DEF PortInv, Sends, PortTypeOK, GiveUp, lineVars
  <1>6. Ages'
    BY <1>2, SMT DEF PortInv, Ages, PortTypeOK, Answer, GiveUp, lineVars
  <1>7. Guarded'
    BY <1>2, SMT
      DEF PortInv, Guarded, Spent, Answer, PortTypeOK, Control, Reading, GiveUp,
          lineVars
  <1>8. InOrder'
    BY <1>2, SMT
      DEF PortInv, InOrder, Sorted, Before, Follows, Control, Reading, GiveUp,
          lineVars
  <1>9. slip' # "stale"
    BY SMT DEF PortInv, GiveUp, lineVars
  <1> QED
    BY <1>1, <1>3, <1>4, <1>5, <1>6, <1>7, <1>8, <1>9 DEF PortInv

\* What is on the line when the guard ends is overdue, and recovery is due.
LEMMA EndGuardStep ==
  ASSUME PortInv, EndGuard
  PROVE  PortInv'
  <1> USE Constants
  <1>1. PortTypeOK'
    BY DEF PortInv, PortTypeOK, EndGuard, lineVars
  <1>2. UNCHANGED <<wire, rx, got>>
    BY SMT DEF EndGuard, lineVars
  <1>3. Lengths'
    BY <1>2 DEF PortInv, Lengths, Fits
  <1>4. Control'
    BY SMT DEF PortInv, Control, PortTypeOK, Reading, Requested, EndGuard, lineVars
  <1>5. Sends'
    BY SMT DEF PortInv, Sends, PortTypeOK, EndGuard, lineVars
  <1>6. Ages'
    BY <1>2, SMT DEF PortInv, Ages, PortTypeOK, Answer, EndGuard, lineVars
  <1>7. Guarded'
    <2>1. elapsed >= Horizon /\ recovery /\ recovery' = recovery /\ rx = <<>> /\ got = <<>>
      BY DEF PortInv, Control, Reading, EndGuard, QuietOver
    <2>2. ASSUME NEW i \in DOMAIN wire, Answer(wire[i])
          PROVE  wire[i].age >= Horizon
      <3>1. wire[i] \in Packet
        BY LenProperties, ElementOfSeq DEF PortInv, PortTypeOK
      <3>2. wire[i].age >= elapsed
        BY <2>2 DEF PortInv, Ages
      <3>3. elapsed \in Nat
        BY DEF PortInv, PortTypeOK
      <3> QED
        BY <2>1, <3>1, <3>2, <3>3, PacketFacts
    <2> QED
      BY <1>2, <2>1, <2>2 DEF Guarded, Spent, Answer
  <1>8. InOrder'
    BY <1>2, SMT
      DEF PortInv, InOrder, Sorted, Before, Follows, Control, Reading, EndGuard,
          lineVars
  <1>9. slip' # "stale"
    BY SMT DEF PortInv, EndGuard, lineVars
  <1> QED
    BY <1>1, <1>3, <1>4, <1>5, <1>6, <1>7, <1>8, <1>9 DEF PortInv

\* Nothing is past its last check after the inhibit but what was so before.
LEMMA LastCheckStep ==
  ASSUME PortInv, LastCheck
  PROVE  PortInv'
  <1> USE Constants
  <1>1. PortTypeOK'
    BY SMT DEF PortInv, PortTypeOK, LastCheck, MayTransmit, lineVars
  <1>2. UNCHANGED <<wire, rx, got>>
    BY SMT DEF LastCheck, MayTransmit, lineVars
  <1>3. Lengths'
    BY <1>2 DEF PortInv, Lengths, Fits
  <1>4. Control'
    BY SMT
      DEF PortInv, Control, PortTypeOK, Reading, Requested, LastCheck, MayTransmit,
          lineVars
  <1>5. Sends'
    BY SMT DEF PortInv, Sends, PortTypeOK, LastCheck, MayTransmit, lineVars
  <1>6. Ages'
    BY <1>2, SMT
      DEF PortInv, Ages, PortTypeOK, Answer, LastCheck, MayTransmit, lineVars
  <1>7. Guarded'
    BY <1>2, SMT
      DEF PortInv, Guarded, Spent, Answer, PortTypeOK, Control, Reading, LastCheck,
          MayTransmit, lineVars
  <1>8. InOrder'
    BY <1>2, SMT
      DEF PortInv, InOrder, Sorted, Before, Follows, Control, Reading, LastCheck,
          MayTransmit, lineVars
  <1>9. slip' # "stale"
    BY SMT DEF PortInv, LastCheck, MayTransmit, lineVars
  <1> QED
    BY <1>1, <1>3, <1>4, <1>5, <1>6, <1>7, <1>8, <1>9 DEF PortInv

\* The read goes on.
LEMMA NeedMoreStep ==
  ASSUME PortInv, NeedMore
  PROVE  PortInv'
  <1> USE Constants
  <1>1. PortTypeOK'
    BY SMT DEF PortInv, PortTypeOK, NeedMore, lineVars
  <1>2. UNCHANGED <<wire, rx, got>>
    BY SMT DEF NeedMore, lineVars
  <1>3. Lengths'
    BY <1>2 DEF PortInv, Lengths, Fits
  <1>4. Control'
    BY SMT DEF PortInv, Control, PortTypeOK, Reading, Requested, NeedMore, lineVars
  <1>5. Sends'
    BY SMT DEF PortInv, Sends, PortTypeOK, NeedMore, lineVars
  <1>6. Ages'
    BY <1>2, SMT DEF PortInv, Ages, PortTypeOK, Answer, NeedMore, lineVars
  <1>7. Guarded'
    BY <1>2, SMT
      DEF PortInv, Guarded, Spent, Answer, PortTypeOK, Control, Reading, NeedMore,
          lineVars
  <1>8. InOrder'
    BY <1>2, SMT
      DEF PortInv, InOrder, Sorted, Before, Follows, Control, Reading, NeedMore,
          lineVars
  <1>9. slip' # "stale"
    BY SMT DEF PortInv, NeedMore, lineVars
  <1> QED
    BY <1>1, <1>3, <1>4, <1>5, <1>6, <1>7, <1>8, <1>9 DEF PortInv

\* The inhibit is set with at most one instruction past its last check.
LEMMA InhibitStep ==
  ASSUME PortInv, Inhibit
  PROVE  PortInv'
  <1> USE Constants
  <1>1. PortTypeOK'
    BY SMT DEF PortInv, PortTypeOK, Inhibit, lineVars
  <1>2. UNCHANGED <<wire, rx, got>>
    BY SMT DEF Inhibit, lineVars
  <1>3. Lengths'
    BY <1>2 DEF PortInv, Lengths, Fits
  <1>4. Control'
    BY SMT DEF PortInv, Control, PortTypeOK, Reading, Requested, Inhibit, lineVars
  <1>5. Sends'
    BY SMT DEF PortInv, Sends, PortTypeOK, Inhibit, lineVars
  <1>6. Ages'
    BY <1>2, SMT DEF PortInv, Ages, PortTypeOK, Answer, Inhibit, lineVars
  <1>7. Guarded'
    BY <1>2, SMT
      DEF PortInv, Guarded, Spent, Answer, PortTypeOK, Control, Reading, Inhibit,
          lineVars
  <1>8. InOrder'
    BY <1>2, SMT
      DEF PortInv, InOrder, Sorted, Before, Follows, Control, Reading, Inhibit,
          lineVars
  <1>9. slip' # "stale"
    BY SMT DEF PortInv, Inhibit, lineVars
  <1> QED
    BY <1>1, <1>3, <1>4, <1>5, <1>6, <1>7, <1>8, <1>9 DEF PortInv

----------------------------------------------------------------------------
\* The steps that move packets.

\* The elements of a sequence of packets.
LEMMA Elements ==
  ASSUME NEW s \in Seq(Packet)
  PROVE  /\ \A i \in DOMAIN s : s[i] \in Packet /\ i \in Nat
         /\ Len(s) \in Nat
  BY LenProperties, ElementOfSeq

\* The receive buffer is emptied into the read.
LEMMA TakeBytesStep ==
  ASSUME PortInv, TakeBytes
  PROVE  PortInv'
  <1> USE DEF PortInv
  <1>0. /\ wire \in Seq(Packet) /\ rx \in Seq(Packet) /\ got \in Seq(Packet)
        /\ got' = got \o rx /\ rx' = <<>> /\ wire' = wire /\ Reading /\ Reading'
        /\ slip' = slip /\ guarding' = guarding /\ recovery' = recovery
    BY DEF PortTypeOK, TakeBytes, Reading
  <1> DEFINE g == got \o rx
  <1>1. /\ g \in Seq(Packet)
        /\ \A i \in DOMAIN g :
             \/ i \in DOMAIN got /\ g[i] = got[i]
             \/ /\ i - Len(got) \in DOMAIN rx /\ g[i] = rx[i - Len(got)]
                /\ \A j \in DOMAIN got : j < i
        /\ Len(got) \in Nat /\ \A i \in DOMAIN g : i \in Nat
        /\ \A i \in DOMAIN got : i <= Len(got)
        /\ \A i \in DOMAIN rx : i > 0
    BY <1>0, ConcatFacts
  <1>2. got' = g
    BY <1>0
  <1> HIDE DEF g
  <1>3. PortTypeOK'
    BY <1>0, <1>1, <1>2, EmptySeq DEF PortTypeOK, TakeBytes
  <1>4. Lengths'
    BY <1>0, <1>1, <1>2 DEF Lengths, Fits
  <1>5. Control'
    BY <1>0, <1>2 DEF Control, Reading, Requested, TakeBytes
  <1>6. Sends' /\ Ages'
    BY <1>0 DEF Sends, Ages, Answer, TakeBytes
  <1>7. Guarded'
    BY <1>0, <1>1, <1>2 DEF Guarded, Spent, Answer
  <1>8. InOrder'
    <2>1. ASSUME NEW i \in DOMAIN g, NEW j \in DOMAIN g, i < j
          PROVE  Follows(g[i], g[j])
      <3>1. CASE i \in DOMAIN got /\ g[i] = got[i]
        BY <1>0, <1>1, <2>1, <3>1 DEF InOrder, Sorted, Before
      <3>2. CASE i - Len(got) \in DOMAIN rx /\ g[i] = rx[i - Len(got)]
        <4>1. i > Len(got) /\ j > Len(got)
          BY <1>1, <2>1, <3>2, Elements
        <4>2. j - Len(got) \in DOMAIN rx /\ g[j] = rx[j - Len(got)]
          BY <1>1, <4>1
        <4>3. i - Len(got) < j - Len(got)
          BY <1>1, <2>1
        <4> QED
          BY <1>0, <3>2, <4>2, <4>3 DEF InOrder, Sorted
      <3> QED
        BY <1>1, <3>1, <3>2
    <2>2. ASSUME NEW i \in DOMAIN g, NEW j \in DOMAIN wire
          PROVE  Follows(g[i], wire[j])
      BY <1>0, <1>1 DEF InOrder, Before
    <2> QED
      BY <1>0, <1>2, <2>1, <2>2 DEF InOrder, Sorted, Before
  <1>9. slip' # "stale"
    BY <1>0
  <1> QED
    BY <1>3, <1>4, <1>5, <1>6, <1>7, <1>8, <1>9

\* A packet is lost; or it reaches the receive buffer.
LEMMA LoseStep ==
  ASSUME PortInv, Lose
  PROVE  PortInv'
  <1> USE DEF PortInv
  <1>0. /\ wire \in Seq(Packet) /\ wire # <<>> /\ wire' = Tail(wire)
        /\ UNCHANGED <<stage, want, armed, recovery, guarding, elapsed, inhibit, rx, got,
                       asked, slip, sent>>
    BY DEF PortTypeOK, Lose
  <1> DEFINE w == Tail(wire)
  <1>1. /\ w \in Seq(Packet)
        /\ \A i \in DOMAIN w : i + 1 \in DOMAIN wire /\ w[i] = wire[i + 1] /\ i \in Nat
    BY <1>0, TailFacts
  <1>2. wire' = w
    BY <1>0
  <1> HIDE DEF w
  <1>3. PortTypeOK'
    BY <1>0, <1>1, <1>2 DEF PortTypeOK
  <1>4. Lengths' /\ Control' /\ Sends' /\ Ages'
    BY <1>0, <1>1, <1>2
      DEF Lengths, Fits, Control, Reading, Requested, Sends, Ages, Answer
  <1>5. Guarded'
    BY <1>0, <1>1, <1>2 DEF Guarded, Spent, Answer, Reading
  <1>6. InOrder'
    BY <1>0, <1>1, <1>2 DEF InOrder, Sorted, Before, Reading
  <1> QED
    BY <1>0, <1>3, <1>4, <1>5, <1>6

\* The oldest packet in flight reaches the receive buffer.
LEMMA ArriveStep ==
  ASSUME PortInv, Arrive
  PROVE  PortInv'
  <1> USE DEF PortInv
  <1> DEFINE w == Tail(wire)
             h == wire[1]
             a == IF h.age < Horizon THEN 0 ELSE Horizon
             p == [h EXCEPT !.age = a]
             r == Append(rx, p)
  <1>0. /\ wire \in Seq(Packet) /\ rx \in Seq(Packet) /\ got \in Seq(Packet)
        /\ wire # <<>> /\ wire' = w /\ rx' = r /\ Reading /\ Reading'
        /\ UNCHANGED <<stage, want, armed, recovery, guarding, elapsed, inhibit, got, asked,
                       slip, sent>>
    BY TailFacts DEF PortTypeOK, Arrive, Reading
  <1>1. /\ w \in Seq(Packet) /\ 1 \in DOMAIN wire /\ h \in Packet
        /\ \A i \in DOMAIN w : /\ i + 1 \in DOMAIN wire /\ w[i] = wire[i + 1]
                               /\ i \in Nat /\ 1 < i + 1
    BY <1>0, TailFacts
  <1>2. a \in 0..Horizon /\ h.age \in 0..Horizon
    BY <1>1, Constants, PacketFacts
  <1>3. /\ p \in Packet /\ (p.mine <=> h.mine) /\ p.id = h.id /\ p.len = h.len /\ p.of = h.of
        /\ p.age = a
    BY <1>1, <1>2, PacketFacts
  <1> HIDE DEF p
  <1>4. /\ r \in Seq(Packet)
        /\ \A i \in DOMAIN r : \/ i \in DOMAIN rx /\ r[i] = rx[i]
                               \/ r[i] = p /\ i \in Nat /\ \A j \in DOMAIN rx : j < i
        /\ \A i, j \in DOMAIN r : i < j => i \in DOMAIN rx
        /\ \A i \in DOMAIN rx : i \in DOMAIN r
    BY <1>0, <1>3, AppendFacts
  <1> HIDE DEF w, r, h
  <1>5. PortTypeOK'
    BY <1>0, <1>1, <1>4 DEF PortTypeOK
  <1>6. Lengths'
    <2>1. Fits(h)
      BY <1>1 DEF Lengths, h
    <2>2. Fits(p)
      BY <1>3, <2>1 DEF Fits
    <2>3. \A i \in DOMAIN r : Fits(r[i])
      BY <1>4, <2>2 DEF Lengths
    <2>4. \A i \in DOMAIN w : Fits(w[i])
      BY <1>1 DEF Lengths
    <2> QED
      BY <1>0, <2>3, <2>4 DEF Lengths
  <1>7. Control' /\ Sends'
    BY <1>0, <1>1 DEF Control, Reading, Requested, Sends, Answer
  <1>8. Ages'
    BY <1>0, <1>1 DEF Ages, Answer
  <1>9. Guarded'
    <2>1. slip = "none" /\ ~guarding /\ Answer(p) => Spent(p) \/ p.mine
      BY <1>0, <1>1, <1>2, <1>3, Constants DEF Guarded, Spent, Answer, h
    <2> QED
      BY <1>0, <1>1, <1>4, <2>1 DEF Guarded, Spent, Answer
  <1>10. InOrder'
    <2>0. /\ Sorted(got) /\ Sorted(rx) /\ Sorted(wire)
          /\ Before(got, rx) /\ Before(got, wire) /\ Before(rx, wire)
      BY <1>0 DEF InOrder
    <2>1. \A i \in DOMAIN rx : Follows(rx[i], p)
      BY <1>1, <1>3, <2>0 DEF Before, Follows, h
    <2>2. \A i \in DOMAIN got : Follows(got[i], p)
      BY <1>1, <1>3, <2>0 DEF Before, Follows, h
    <2>3. \A i \in DOMAIN w : Follows(p, w[i])
      BY <1>1, <1>3, <2>0 DEF Sorted, Follows, h
    <2>4. Sorted(r)
      <3>1. ASSUME NEW i \in DOMAIN r, NEW j \in DOMAIN r, i < j
            PROVE  Follows(r[i], r[j])
        <4>1. i \in DOMAIN rx /\ r[i] = rx[i]
          BY <1>0, <1>4, <3>1, Elements
        <4> QED
          BY <1>4, <2>0, <2>1, <3>1, <4>1 DEF Sorted
      <3> QED
        BY <3>1 DEF Sorted
    <2>5. Before(got, r) /\ Before(got, w) /\ Before(r, w)
      BY <1>1, <1>4, <2>0, <2>2, <2>3 DEF Before
    <2>6. Sorted(w)
      BY <1>1, <2>0 DEF Sorted
    <2> QED
      BY <1>0, <2>0, <2>4, <2>5, <2>6 DEF InOrder
  <1>11. slip' # "stale"
    BY <1>0
  <1> QED
    BY <1>5, <1>6, <1>7, <1>8, <1>9, <1>10, <1>11

\* Time passes.
LEMMA TickStep ==
  ASSUME PortInv, Tick
  PROVE  PortInv'
  <1> USE DEF PortInv
  <1> DEFINE w == Older(wire)
  <1>0. /\ wire \in Seq(Packet) /\ wire' = w /\ elapsed \in 0..Horizon
        /\ elapsed' = IF elapsed < Horizon THEN elapsed + 1 ELSE elapsed
        /\ UNCHANGED <<stage, want, armed, recovery, guarding, inhibit, rx, got, asked, slip,
                       sent>>
    BY DEF PortTypeOK, Tick
  <1>1. /\ w \in Seq(Packet) /\ DOMAIN w = DOMAIN wire
        /\ \A i \in DOMAIN wire :
             /\ w[i].mine = wire[i].mine /\ w[i].id = wire[i].id
             /\ w[i].len = wire[i].len /\ w[i].of = wire[i].of
             /\ w[i].age = IF wire[i].age < Horizon THEN wire[i].age + 1 ELSE wire[i].age
    BY <1>0, OlderFacts
  <1>2. \A i \in DOMAIN wire : wire[i].age \in 0..Horizon
    BY <1>0, Elements, PacketFacts
  <1> HIDE DEF w
  <1>3. PortTypeOK'
    <2>1. elapsed' \in 0..Horizon
      BY <1>0, Constants
    <2> QED
      BY <1>0, <1>1, <2>1 DEF PortTypeOK
  <1>4. Lengths' /\ Control' /\ Sends'
    BY <1>0, <1>1 DEF Lengths, Fits, Control, Reading, Requested, Sends
  <1>5. Ages'
    BY <1>0, <1>1, <1>2, Constants DEF Ages, Answer
  <1>6. Guarded'
    BY <1>0, <1>1, <1>2, Constants DEF Guarded, Spent, Answer, Reading
  <1>7. InOrder'
    BY <1>0, <1>1 DEF InOrder, Sorted, Before, Reading, Follows
  <1> QED
    BY <1>0, <1>3, <1>4, <1>5, <1>6, <1>7

\* A read that ends without whole replies starts the guard.
LEMMA AmbiguousStep ==
  ASSUME PortInv, Ambiguous
  PROVE  PortInv'
  <1> USE DEF PortInv
  <1>0. /\ wire' \in Remainders /\ guarding' = TRUE /\ recovery' = TRUE
        /\ stage = "took" /\ stage' = "idle"
        /\ want' = 0 /\ asked' = 0 /\ got' = <<>> /\ rx' = <<>>
        /\ UNCHANGED <<armed, elapsed, inhibit, slip, sent>>
    BY DEF Ambiguous, EndRead
  <1>1. /\ wire' \in Seq(Packet) /\ DOMAIN wire' = DOMAIN wire
        /\ \A i \in DOMAIN wire' :
             /\ wire'[i].mine = wire[i].mine /\ wire'[i].id = wire[i].id
             /\ wire'[i].len = wire[i].len /\ wire'[i].of = wire[i].of
             /\ wire'[i].age = wire[i].age
    BY <1>0, RemaindersFacts
  <1>2. PortTypeOK'
    BY <1>0, <1>1, EmptySeq DEF PortTypeOK
  <1>3. Lengths'
    BY <1>0, <1>1 DEF Lengths, Fits
  <1>4. Control' /\ Sends' /\ Guarded' /\ InOrder'
    BY <1>0 DEF Control, Reading, Sends, Guarded, InOrder
  <1>5. Ages'
    BY <1>0, <1>1 DEF Ages, Answer
  <1> QED
    BY <1>0, <1>2, <1>3, <1>4, <1>5

\* A whole answer of a read is its own; or, the first time, overdue.
LEMMA AcceptSlip ==
  ASSUME PortInv, Accept, slip = "none"
  PROVE  Slip # "stale"
  <1>1. SUFFICES ASSUME NEW i \in DOMAIN got, ~got[i].mine
                 PROVE  Overdue(got[i])
    BY DEF Slip
  <1>2. /\ got[i] \in Packet /\ Fits(got[i]) /\ want \in Lens /\ asked = Requested(want)
        /\ ~guarding /\ got[i].len = asked
    BY Elements
      DEF PortInv, PortTypeOK, Lengths, Control, Reading, Accept, Complete,
          Malformed, Expected
  <1>3. Answer(got[i])
    BY <1>2, Constants DEF Answer, Requested
  <1>4. Spent(got[i])
    BY <1>1, <1>2, <1>3 DEF PortInv, Guarded
  <1>5. got[i].len = want + 1
    BY <1>2, <1>4 DEF Spent, Requested
  <1>6. got[i].of \in Lens
    BY <1>2, <1>3 DEF Fits, Answer
  <1>7. got[i].of = want
    BY <1>2, <1>5, <1>6, Constants DEF Fits
  <1> QED
    BY <1>4, <1>5, <1>7 DEF Overdue, Spent

\* When all the answers taken are the read's own, nothing is left behind them.
LEMMA NothingLeft ==
  ASSUME PortInv, Accept, \A i \in DOMAIN got : got[i].mine
  PROVE  wire = <<>> /\ rx = <<>>
  <1>1. /\ got \in Seq(Packet) /\ wire \in Seq(Packet) /\ rx \in Seq(Packet)
        /\ Reading /\ Len(got) = N /\ \A i \in DOMAIN got : got[i].id = i
        /\ Before(got, rx) /\ Before(got, wire)
    BY DEF PortInv, PortTypeOK, InOrder, Reading, Accept, Complete, Malformed,
           Expected
  <1>2. N \in DOMAIN got /\ got[N].mine /\ got[N].id = N
    BY <1>1, Constants, LenProperties
  <1>3. ASSUME NEW s \in Seq(Packet), Before(got, s)
        PROVE  s = <<>>
    <2>1. SUFFICES ASSUME s # <<>> PROVE FALSE
      OBVIOUS
    <2>2. 1 \in DOMAIN s /\ s[1] \in Packet
      BY <2>1, TailFacts
    <2>3. N < s[1].id
      BY <1>2, <1>3, <2>2 DEF Before, Follows
    <2> QED
      BY <2>2, <2>3, PacketFacts, Constants
  <1> QED
    BY <1>1, <1>3

\* A read that succeeds ends the recovery.
LEMMA AcceptStep ==
  ASSUME PortInv, Accept
  PROVE  PortInv'
  <1> USE DEF PortInv
  <1>0. /\ wire' = wire /\ recovery' = FALSE /\ ~guarding /\ guarding' = FALSE
        /\ stage = "took" /\ stage' = "idle"
        /\ want' = 0 /\ asked' = 0 /\ got' = <<>> /\ rx' = <<>>
        /\ slip' = (IF slip = "none" THEN Slip ELSE slip)
        /\ UNCHANGED <<armed, elapsed, inhibit, sent>>
    BY DEF Accept, EndRead, Control, Reading
  <1>1. Slip \in {"none", "overdue", "stale"}
    BY DEF Slip
  <1>2. PortTypeOK'
    BY <1>0, <1>1, EmptySeq DEF PortTypeOK
  <1>3. Lengths' /\ Control' /\ Sends' /\ Ages' /\ InOrder'
    BY <1>0 DEF Lengths, Fits, Control, Reading, Sends, Ages, Answer, InOrder
  <1>4. slip' # "stale"
    BY <1>0, AcceptSlip
  <1>5. Guarded'
    <2>1. SUFFICES ASSUME slip' = "none" PROVE wire = <<>>
      BY <1>0 DEF Guarded
    <2>2. slip = "none" /\ Slip = "none"
      BY <1>0, <2>1
    <2>3. \A i \in DOMAIN got : got[i].mine
      BY <2>2 DEF Slip
    <2> QED
      BY <2>3, NothingLeft
  <1> QED
    BY <1>2, <1>3, <1>4, <1>5

\* A read is sent: what is in flight is abandoned, the answers go behind it.
LEMMA SendReadStep ==
  ASSUME PortInv, SendRead
  PROVE  PortInv'
  <1> USE DEF PortInv
  <1>0. /\ stage = "cleared" /\ stage' = "reading" /\ want \in Lens /\ asked' = Requested(want)
        /\ elapsed' = 0 /\ sent' = (IF inhibit THEN sent + 1 ELSE sent)
        /\ UNCHANGED <<want, armed, recovery, guarding, inhibit, rx, got, slip>>
        /\ wire \in Seq(Packet) /\ rx = <<>> /\ got = <<>>
    BY DEF SendRead, PortTypeOK, Control, Reading
  <1>1. asked' \in Nat /\ asked' \in {want, want + 1}
    BY <1>0, Constants DEF Requested
  <1>2. PICK a \in Answers(asked') : wire' = Newest(Abandoned(wire) \o a)
    BY DEF SendRead
  <1> DEFINE w == Newest(Abandoned(wire) \o a)
  <1>3. /\ a \in Seq(Packet)
        /\ \A i \in DOMAIN a : /\ a[i].id = i /\ a[i].of = want /\ a[i].len = asked'
                               /\ a[i].mine /\ i \in 1..N
    BY <1>0, <1>1, AnswersFacts
  <1>4. /\ Abandoned(wire) \in Seq(Packet) /\ DOMAIN Abandoned(wire) = DOMAIN wire
        /\ \A i \in DOMAIN wire :
             /\ ~Abandoned(wire)[i].mine /\ Abandoned(wire)[i].len = wire[i].len
             /\ Abandoned(wire)[i].of = wire[i].of /\ Abandoned(wire)[i].age = wire[i].age
    BY <1>0, AbandonedFacts
  <1>5. w \in Seq(Packet)
    BY <1>3, <1>4, SentFacts
  <1>6. PICK d \in Int :
          \A i \in DOMAIN w :
            \/ i <= d /\ \E j \in DOMAIN Abandoned(wire) : w[i] = Abandoned(wire)[j]
            \/ i > d /\ i - d \in DOMAIN a /\ w[i] = a[i - d]
    BY <1>3, <1>4, SentFacts
  <1>7. wire' = w
    BY <1>2
  <1> HIDE DEF w
  <1>8. \A i \in DOMAIN w :
          \/ /\ i <= d /\ ~w[i].mine
             /\ \E j \in DOMAIN wire : /\ w[i].len = wire[j].len /\ w[i].of = wire[j].of
                                       /\ w[i].age = wire[j].age
          \/ /\ i > d /\ w[i].mine /\ w[i].id = i - d
             /\ w[i].of = want /\ w[i].len = asked'
    BY <1>3, <1>4, <1>6
  <1>9. PortTypeOK'
    <2>1. sent' \in Nat /\ elapsed' \in 0..Horizon
      BY <1>0, Constants DEF PortTypeOK
    <2> QED
      BY <1>0, <1>1, <1>5, <1>7, <2>1 DEF PortTypeOK
  <1>10. Lengths'
    <2>1. ASSUME NEW i \in DOMAIN w
          PROVE  Fits(w[i])
      <3>1. CASE w[i].mine
        BY <1>0, <1>1, <1>8, <3>1 DEF Fits
      <3>2. CASE ~w[i].mine
        BY <1>8, <3>2 DEF Lengths, Fits
      <3> QED
        BY <3>1, <3>2
    <2> QED
      BY <1>0, <1>7, <2>1 DEF Lengths
  <1>11. Control'
    BY <1>0 DEF Control, Reading, Requested
  <1>12. Sends'
    BY <1>0 DEF Sends
  <1>13. Ages'
    BY <1>0, <1>5, <1>7, Elements, PacketFacts DEF Ages
  <1>14. Guarded'
    <2>1. \A j \in DOMAIN wire : slip = "none" /\ Answer(wire[j]) => Spent(wire[j])
      BY <1>0 DEF Guarded, Control, Reading
    <2> QED
      BY <1>0, <1>7, <1>8, <2>1 DEF Guarded, Spent, Answer, Reading
  <1>15. InOrder'
    <2>1. ASSUME NEW i \in DOMAIN w, NEW j \in DOMAIN w, i < j, w[i].mine
          PROVE  w[j].mine /\ w[i].id < w[j].id
      <3>1. i > d /\ w[i].id = i - d
        BY <1>8, <2>1
      <3>2. i \in Nat /\ j \in Nat
        BY <1>5, Elements
      <3>3. j > d
        BY <2>1, <3>1, <3>2
      <3>4. w[j].mine /\ w[j].id = j - d
        BY <1>8, <3>2, <3>3
      <3> QED
        BY <2>1, <3>1, <3>2, <3>4
    <2> QED
      BY <1>0, <1>7, <2>1 DEF InOrder, Sorted, Before, Follows
  <1> QED
    BY <1>0, <1>9, <1>10, <1>11, <1>12, <1>13, <1>14, <1>15

\* A read that could not be sent leaves the line as it was.
LEMMA SendReadFailsStep ==
  ASSUME PortInv, SendReadFails
  PROVE  PortInv'
  <1> USE DEF PortInv, lineVars
  <1>0. /\ stage = "cleared" /\ stage' = "idle" /\ want' = 0 /\ ~Reading /\ ~Reading'
        /\ sent' = (IF inhibit THEN sent + 1 ELSE sent)
        /\ UNCHANGED <<armed, recovery, guarding, inhibit, got, asked, slip, elapsed, wire, rx>>
    BY DEF SendReadFails, Reading
  <1>1. PortTypeOK'
    <2>1. sent' \in Nat
      BY <1>0 DEF PortTypeOK
    <2> QED
      BY <1>0, <2>1 DEF PortTypeOK
  <1>2. Lengths' /\ Control' /\ Sends'
    BY <1>0 DEF Lengths, Fits, Control, Sends
  <1>3. Ages'
    BY <1>0 DEF Ages, Answer
  <1>4. Guarded'
    BY <1>0 DEF Guarded, Spent, Answer
  <1>5. InOrder'
    BY <1>0 DEF InOrder
  <1> QED
    BY <1>0, <1>1, <1>2, <1>3, <1>4, <1>5

\* Another instruction leaves at most one answer, which no read can take.
LEMMA SendOtherStep ==
  ASSUME PortInv, SendOther
  PROVE  PortInv'
  <1> USE DEF PortInv
  <1>0. /\ stage = "cleared" /\ stage' = "idle"
        /\ sent' = (IF inhibit THEN sent + 1 ELSE sent)
        /\ UNCHANGED <<want, armed, recovery, guarding, elapsed, inhibit, rx, got, asked,
                       slip>>
        /\ wire \in Seq(Packet) /\ rx = <<>> /\ got = <<>> /\ ~guarding
    BY DEF SendOther, PortTypeOK, Control, Reading
  <1>1. PICK a \in {<<>>} \cup {<<Reply(i, 0, 0, TRUE, FALSE)>> : i \in Ids} :
          wire' = Newest(wire \o a)
    BY DEF SendOther
  <1> DEFINE w == Newest(wire \o a)
  <1>2. /\ a \in Seq(Packet)
        /\ \A i \in DOMAIN a : a[i].of = 0 /\ a[i].len = 0 /\ ~a[i].mine
    <2>1. CASE a = <<>>
      BY <2>1, EmptySeq
    <2>2. CASE \E i \in Ids : a = <<Reply(i, 0, 0, TRUE, FALSE)>>
      <3>1. PICK i \in Ids : a = <<Reply(i, 0, 0, TRUE, FALSE)>>
        BY <2>2
      <3>2. /\ Reply(i, 0, 0, TRUE, FALSE) \in Packet
            /\ Reply(i, 0, 0, TRUE, FALSE).of = 0 /\ Reply(i, 0, 0, TRUE, FALSE).len = 0
            /\ ~Reply(i, 0, 0, TRUE, FALSE).mine
        BY Constants DEF Reply, Packet
      <3> DEFINE q == Reply(i, 0, 0, TRUE, FALSE)
      <3>3. a = <<q>> /\ q \in Packet /\ q.of = 0 /\ q.len = 0 /\ ~q.mine
        BY <3>1, <3>2
      <3> HIDE DEF q
      <3>4. a \in Seq(Packet) /\ DOMAIN a = 1..1 /\ a[1] = q
        BY <3>3
      <3> QED
        BY <3>3, <3>4
    <2> QED
      BY <2>1, <2>2
  <1>3. w \in Seq(Packet)
    BY <1>0, <1>2, SentFacts
  <1>4. PICK d \in Int :
          \A i \in DOMAIN w :
            \/ i <= d /\ \E j \in DOMAIN wire : w[i] = wire[j]
            \/ i > d /\ i - d \in DOMAIN a /\ w[i] = a[i - d]
    BY <1>0, <1>2, SentFacts
  <1>5. wire' = w
    BY <1>1
  <1> HIDE DEF w
  <1>6. \A i \in DOMAIN w : \/ \E j \in DOMAIN wire : w[i] = wire[j]
                            \/ w[i].of = 0 /\ w[i].len = 0 /\ ~w[i].mine
    BY <1>2, <1>4
  <1>7. PortTypeOK'
    <2>1. sent' \in Nat
      BY <1>0 DEF PortTypeOK
    <2> QED
      BY <1>0, <1>3, <1>5, <2>1 DEF PortTypeOK
  <1>8. Lengths'
    BY <1>0, <1>5, <1>6 DEF Lengths, Fits
  <1>9. Control' /\ Sends'
    BY <1>0 DEF Control, Reading, Sends
  <1>10. Ages'
    BY <1>0, <1>5, <1>6 DEF Ages, Answer
  <1>11. Guarded'
    BY <1>0, <1>5, <1>6 DEF Guarded, Spent, Answer, Reading
  <1>12. InOrder'
    BY <1>0 DEF InOrder, Reading
  <1> QED
    BY <1>0, <1>7, <1>8, <1>9, <1>10, <1>11, <1>12

----------------------------------------------------------------------------
\* The theorems.

\* The invariant holds at the start.
LEMMA PortInitInv == PortInit => PortInv
  <1> SUFFICES ASSUME PortInit PROVE PortInv
    OBVIOUS
  <1>1. PortTypeOK
    <2>1. elapsed \in 0..Horizon /\ want \in Lens \cup {0} /\ asked \in Nat /\ sent \in Nat
      BY Constants DEF PortInit
    <2>2. wire \in Seq(Packet) /\ rx \in Seq(Packet) /\ got \in Seq(Packet)
      BY EmptySeq DEF PortInit
    <2> QED
      BY <2>1, <2>2, Zenon DEF PortInit, PortTypeOK
  <1>2. Lengths /\ Control /\ Sends /\ Ages /\ Guarded /\ InOrder /\ slip # "stale"
    BY DEF PortInit, Lengths, Control, Reading, Sends, Ages, Guarded, InOrder
  <1> QED
    BY <1>1, <1>2 DEF PortInv

\* Every step keeps it.
LEMMA PortStepInv == PortInv /\ [PortNext]_portVars => PortInv'
  <1> SUFFICES ASSUME PortInv, [PortNext]_portVars PROVE PortInv'
    OBVIOUS
  <1>1. CASE UNCHANGED portVars
    BY <1>1
      DEF portVars, PortInv, PortTypeOK, Lengths, Fits, Control, Reading, Requested,
          Sends, Ages,
                Answer, Guarded, Spent, InOrder, Sorted, Before, Follows
  <1>2. CASE Arm \/ Disarm \/ \E w \in Lens \cup {0} : Begin(w)
    BY <1>2, ArmStep, DisarmStep, BeginStep
  <1>3. CASE Transmit
    BY <1>3, GiveUpStep, EndGuardStep, LastCheckStep, SendReadStep, SendReadFailsStep,
       SendOtherStep
      DEF Transmit
  <1>4. CASE Receive
    BY <1>4, TakeBytesStep, AcceptStep, AmbiguousStep, NeedMoreStep DEF Receive
  <1>5. CASE Tick \/ Arrive \/ Lose \/ Inhibit
    BY <1>5, TickStep, ArriveStep, LoseStep, InhibitStep
  <1> QED
    BY <1>1, <1>2, <1>3, <1>4, <1>5 DEF PortNext

\* It holds in every reachable state.
LEMMA PortInvariance == PortSpec => []PortInv
  BY PortInitInv, PortStepInv, PTL DEF PortSpec

\* The windows, the buffers and the packets in flight stay what boundedRead()
\* and the line make of them.
THEOREM PortTypeCorrect == PortSpec => []PortTypeOK
  <1>1. PortInv => PortTypeOK
    BY DEF PortInv
  <1> QED
    BY <1>1, PortInvariance, PTL

\* The guard and the recovery epoch of boundedRead() do their work until the
\* first slip, for every group, set of windows and load of the line: a read takes
\* its own answers, or an overdue one of an earlier recovery read of its window.
THEOREM FirstSlipIsOverdue == PortSpec => []NoStaleReply
  <1>1. PortInv => NoStaleReply
    BY DEF PortInv, NoStaleReply
  <1> QED
    BY <1>1, PortInvariance, PTL

\* clearToTransmit() looks at the inhibit last: once it is set, at most the one
\* instruction already past that look leaves the port.
THEOREM OneInstructionAtMost == PortSpec => []SilentAfterInhibit
  <1>1. PortInv => SilentAfterInhibit
    BY DEF PortInv, Sends, SilentAfterInhibit
  <1> QED
    BY <1>1, PortInvariance, PTL

-----------------------------------------------------------------------------
(***************************************************************************)
(* The programs that change stored parameters, for every bus and every     *)
(* file: what a refusal, a verified rollback, a load and a set leave in    *)
(* the registers.                                                          *)
(***************************************************************************)

(* The invariant.                                                          *)

Loading == pc \in {"apply", "rollback"}

(* Where a program is says which one it is, and that it has not ended. *)
Places ==
    /\ pc # "idle" => exit = "none"
    /\ pc \in {"idle", "capture", "check", "show"} =>
         ops = {} /\ todo = {} /\ entries = <<>> /\ checked = 0
    /\ Loading => Loads
    /\ pc = "capture" => program = "dump"
    /\ pc \in {"check", "show", "set", "verify"} => program = "set"

(* Nothing is written before the last check. *)
Untouched ==
    /\ pc \in {"capture", "check", "show"} => regs = before
    /\ pc = "apply" /\ ~PreflightOver => regs = before /\ todo = ops

(* What is planned for register f of servo s. *)
Planned(s, f) == {o \in ops : o.id = s /\ o.field = f}

(* A plan names each register once, with its original value. *)
Origins ==
    Loading =>
      /\ entries = wanted /\ Distinct(entries)
      /\ \A o \in ops : /\ o.motor \in 1..checked /\ o.id = entries[o.motor].id
                        /\ o.was = before[o.id][o.field]
      /\ \A o, p \in ops : o.id = p.id /\ o.field = p.field => o = p

(* A mode comes with everything it resets. *)
Restores ==
    Loading =>
      \A o \in ops, g \in ModeResets : o.field = "mode" => Planned(o.id, g) # {}

(* The plan gives the checked motors the values of the file, and nothing   *)
(* else.                                                                   *)
Plans ==
    Loading =>
      /\ \A n \in 1..checked : \A f \in DOMAIN entries[n].params :
           \/ \E o \in Planned(entries[n].id, f) : o.want = entries[n].params[f]
           \/ /\ Planned(entries[n].id, f) = {}
              /\ before[entries[n].id][f] = entries[n].params[f]
      /\ \A o \in ops : o.field \notin DOMAIN entries[o.motor].params => o.want = o.was

(* The writes made so far, in order, and what they left. *)
Progress ==
    Loading =>
      /\ \A s \in Servo, f \in Field : Planned(s, f) = {} => regs[s][f] = before[s][f]
      /\ \A o \in ops \ todo, p \in todo : Precedes(o, p)
      /\ pc = "apply" => \A o \in ops \ todo : regs[o.id][o.field] = o.want
      /\ pc = "rollback" /\ restored => \A o \in ops \ todo : regs[o.id][o.field] = o.was

(* A set touches only what was asked for. *)
Setting ==
    /\ pc = "set" => \A o \in todo : o.field \in DOMAIN request
    /\ pc \in {"set", "verify"} =>
         \A s \in Servo, f \in Field \ DOMAIN request : regs[s][f] = before[s][f]

IInv ==
    /\ TypeOK /\ Places /\ Untouched /\ Origins /\ Restores /\ Plans /\ Progress /\ Setting
    /\ RefusalTouchesNothing /\ VerifiedRollbackRestores /\ LoadIsExact /\ SetIsHonest

-----------------------------------------------------------------------------
(* Registers, files and plans.                                             *)

(* The addresses put the mode before what its write resets. *)
LEMMA Fields ==
  /\ Field = {"baud", "mode", "high", "low", "port", "gain", "profile"}
  /\ \A f \in Field : Address[f] \in Nat
  /\ \A g \in ModeResets : Address["mode"] < Address[g]
  /\ ModeResets \subseteq Loadable /\ Loadable \subseteq Field
  /\ "mode" \in Loadable /\ "mode" \notin ModeResets
  BY DEF Field, Address, ModeResets, Loadable

(* What a mode write resets comes later in its motor. *)
LEMMA ResetComesLater ==
  ASSUME Loads, NEW o \in Operation, NEW p \in Operation, o.field = "mode",
         p.field \in ModeResets, p.motor = o.motor
  PROVE  ~Precedes(p, o)
  <1>1. /\ program # "set" /\ o.motor \in Nat
        /\ Address[o.field] < Address[p.field]
        /\ Address[o.field] \in Nat /\ Address[p.field] \in Nat
    BY Fields DEF Loads, Operation
  <1> QED
    BY <1>1 DEF Precedes

(* The bus. *)
LEMMA Bus ==
  /\ Len(Joints) \in Nat /\ DOMAIN Joints = 1..Len(Joints)
  /\ Servo \subseteq Nat /\ IsFiniteSet(Servo)
  /\ \A j \in DOMAIN Joints : j \in Nat /\ Joints[j] \in Servo
  <1>1. Len(Joints) \in Nat /\ DOMAIN Joints = 1..Len(Joints)
    BY JointsAssumption, LenProperties
  <1>2. \A j \in DOMAIN Joints : j \in Nat /\ Joints[j] \in Nat /\ Joints[j] \in Servo
    BY <1>1, JointsAssumption, ElementOfSeq DEF Servo
  <1>3. Joints \in Surjection(1..Len(Joints), Servo)
    BY <1>1, JointsAssumption DEF Surjection, Servo
  <1>4. IsFiniteSet(Servo)
    BY <1>1, <1>3, FS_Interval, FS_Surjection
  <1>5. Servo \subseteq Nat
    BY <1>2 DEF Servo
  <1> QED
    BY <1>1, <1>2, <1>4, <1>5

(* A file and its motors. *)
LEMMA FileFacts ==
  ASSUME NEW s, IsFile(s)
  PROVE  /\ Len(s) \in Nat /\ DOMAIN s = 1..Len(s)
         /\ \A n \in DOMAIN s :
              /\ s[n].id \in Nat /\ s[n].model \in Models
              /\ DOMAIN s[n].params \subseteq Field
              /\ \A f \in DOMAIN s[n].params : s[n].params[f] \in Nat
  <1>1. s \in Seq({s[n] : n \in DOMAIN s})
    BY DEF IsFile
  <1>2. Len(s) \in Nat /\ DOMAIN s = 1..Len(s)
    BY <1>1, LenProperties
  <1> QED
    BY <1>2 DEF IsFile, IsEntry

(* A sequence of motors is a file. *)
LEMMA FileOf ==
  ASSUME NEW S, \A e \in S : IsEntry(e), NEW n \in Nat, NEW s \in [1..n -> S]
  PROVE  IsFile(s)
  <1>1. s \in [1..n -> {s[i] : i \in DOMAIN s}] /\ DOMAIN s = 1..n
    OBVIOUS
  <1>2. s \in Seq({s[i] : i \in DOMAIN s})
    BY <1>1, SeqDef
  <1>3. \A i \in DOMAIN s : s[i] \in S
    OBVIOUS
  <1> QED
    BY <1>2, <1>3 DEF IsFile

(* The file without motors. *)
LEMMA NoFile == IsFile(<<>>) /\ Len(<<>>) = 0 /\ Distinct(<<>>)
  <1>1. <<>> \in Seq({<<>>[i] : i \in DOMAIN <<>>})
    BY EmptySeq
  <1>2. DOMAIN <<>> = {} /\ Len(<<>>) = 0
    BY EmptySeq
  <1> QED
    BY <1>1, <1>2 DEF IsFile, Distinct

(* A write to a register changes that one, and what a mode resets. *)
LEMMA WriteFacts ==
  ASSUME TypeOK, NEW s \in Servo, NEW f \in Field, NEW v \in Nat,
         NEW applied \in BOOLEAN, NEW acked \in BOOLEAN, Write(s, f, v, applied, acked)
  PROVE  /\ regs' \in [Servo -> [Field -> Nat]]
         /\ \A r \in Servo, g \in Field :
              r # s \/ (g # f /\ ~(f = "mode" /\ g \in ModeResets)) =>
                regs'[r][g] = regs[r][g]
  <1>1. regs \in [Servo -> [Field -> Nat]]
    BY DEF TypeOK
  <1> DEFINE old == regs[s]
             new == IF applied THEN Stored(old, f, v) ELSE old
  <1>2. regs' = [regs EXCEPT ![s] = new]
    BY DEF Write
  <1>3. old \in [Field -> Nat]
    BY <1>1
  <1>4. /\ Stored(old, f, v) \in [Field -> Nat]
        /\ \A g \in Field : g # f /\ ~(f = "mode" /\ g \in ModeResets) =>
             Stored(old, f, v)[g] = old[g]
    BY <1>3 DEF Stored, Default
  <1>5. /\ new \in [Field -> Nat]
        /\ \A g \in Field : g # f /\ ~(f = "mode" /\ g \in ModeResets) => new[g] = old[g]
    BY <1>3, <1>4
  <1> HIDE DEF new
  <1> QED
    BY <1>1, <1>2, <1>5

(* The plan for the motor that is checked next. *)
LEMMA MotorOpsFacts ==
  ASSUME TypeOK, NEW n \in 1..Len(entries), Acceptable(entries[n])
  PROVE  /\ entries[n].id \in Servo
         /\ \A o \in MotorOps(n) :
              /\ o \in Operation /\ o.motor = n /\ o.id = entries[n].id
              /\ o.was = regs[o.id][o.field]
              /\ o.field \notin DOMAIN entries[n].params => o.want = o.was
         /\ \A o, p \in MotorOps(n) : o.field = p.field => o = p
         /\ \A o \in MotorOps(n), g \in ModeResets :
              o.field = "mode" => \E p \in MotorOps(n) : p.field = g
         /\ \A f \in DOMAIN entries[n].params :
              \/ \E o \in MotorOps(n) : o.field = f /\ o.want = entries[n].params[f]
              \/ /\ \A o \in MotorOps(n) : o.field # f
                 /\ regs[entries[n].id][f] = entries[n].params[f]
  <1> DEFINE e == entries[n]
             F == Changed(e) \cup Kept(e)
             op(f) == [motor |-> n, id |-> e.id, field |-> f, want |-> After(e, f),
                       was |-> regs[e.id][f]]
  <1>1. /\ e.id \in Servo /\ regs[e.id] \in [Field -> Nat]
        /\ \A f \in DOMAIN e.params \ Loadable : regs[e.id][f] = e.params[f]
    BY DEF TypeOK, Acceptable
  <1>2. /\ DOMAIN e.params \subseteq Field /\ n \in Nat
        /\ \A f \in DOMAIN e.params : e.params[f] \in Nat
    BY FileFacts DEF TypeOK
  <1>3. MotorOps(n) = {op(f) : f \in F}
    BY DEF MotorOps
  <1>4. F \subseteq Loadable
    BY Fields DEF Changed, Kept
  <1>5. \A f \in Field : After(e, f) \in Nat
    BY <1>1, <1>2 DEF After
  <1>6. \A f \in F : op(f) \in Operation
    BY <1>1, <1>2, <1>4, <1>5, Fields DEF Operation
  <1>7. \A f \in Field : f \notin DOMAIN e.params => After(e, f) = regs[e.id][f]
    BY DEF After
  <1>8. \A f \in DOMAIN e.params : After(e, f) = e.params[f]
    BY DEF After
  <1>9. \A g \in ModeResets : "mode" \in F => g \in F
    BY Fields DEF Changed, Kept
  <1>10. \A f \in DOMAIN e.params : f \notin F => regs[e.id][f] = e.params[f]
    BY <1>1 DEF Changed
  <1> HIDE DEF F, e
  <1>11. \A f \in F : /\ op(f).motor = n /\ op(f).id = e.id /\ op(f).field = f
                      /\ op(f).want = After(e, f) /\ op(f).was = regs[e.id][f]
    OBVIOUS
  <1> HIDE DEF op
  <1>12. \A o \in MotorOps(n) : o.field \in F /\ o = op(o.field)
    BY <1>3, <1>11
  <1>13. ASSUME NEW o \in MotorOps(n)
         PROVE  /\ o \in Operation /\ o.motor = n /\ o.id = e.id
                /\ o.was = regs[o.id][o.field]
                /\ o.field \notin DOMAIN e.params => o.want = o.was
    <2>1. PICK f \in F : o = op(f)
      BY <1>3
    <2>2. f \in Field /\ o \in Operation
      BY <1>4, <1>6, <2>1, Fields
    <2>3. /\ o.motor = n /\ o.id = e.id /\ o.field = f
          /\ o.want = After(e, f) /\ o.was = regs[e.id][f]
      BY <1>11, <2>1
    <2> QED
      BY <1>7, <2>2, <2>3
  <1>14. ASSUME NEW g \in ModeResets, NEW o \in MotorOps(n), o.field = "mode"
         PROVE  \E p \in MotorOps(n) : p.field = g
    BY <1>3, <1>9, <1>11, <1>12, <1>14
  <1>15. ASSUME NEW f \in DOMAIN e.params
         PROVE  \/ \E o \in MotorOps(n) : o.field = f /\ o.want = e.params[f]
                \/ /\ \A o \in MotorOps(n) : o.field # f
                   /\ regs[e.id][f] = e.params[f]
    <2>1. CASE f \in F
      BY <1>3, <1>8, <1>11, <2>1
    <2>2. CASE f \notin F
      BY <1>10, <1>12, <2>2
    <2> QED
      BY <2>1, <2>2
  <1>16. \A o, p \in MotorOps(n) : o.field = p.field => o = p
    BY <1>12
  <1> QED
    BY <1>1, <1>13, <1>14, <1>15, <1>16 DEF e

-----------------------------------------------------------------------------
(* The beginning and the end of a program.                                 *)

(* What is asked of a program. *)
Demanded(r) == DOMAIN r \subseteq ModeResets /\ \A f \in DOMAIN r : r[f] \in Nat

(* A program starts with an empty plan, over registers nothing has touched. *)
LEMMA StartStep ==
  ASSUME IInv, NEW p, NEW at, Start(p, at), IsFile(entries'), wanted' = entries',
         Demanded(request'),
         \/ p \in {"load", "configure"} /\ at = "apply" /\ Distinct(entries')
         \/ p = "dump" /\ at = "capture" /\ entries' = <<>>
         \/ p = "set" /\ at \in {"check", "show"} /\ entries' = <<>>
  PROVE  IInv'
  <1> USE DEF IInv
  <1>1. /\ pc = "idle" /\ program' = p /\ pc' = at /\ before' = regs /\ exit' = "none"
        /\ UNCHANGED <<regs, torque, saved, checked, ops, todo, restored, allOk>>
        /\ ops = {} /\ todo = {} /\ checked = 0
    BY DEF Start, Places
  <1>2. TypeOK'
    <2>1. checked' \in 0..Len(entries')
      BY <1>1, FileFacts
    <2>2. ops' \subseteq Operation /\ todo' \subseteq ops'
      BY <1>1
    <2>3. /\ IsFile(saved') /\ IsFile(entries') /\ IsFile(wanted')
          /\ before' \in [Servo -> [Field -> Nat]]
      BY <1>1 DEF TypeOK
    <2>4. /\ program' \in {"none", "load", "configure", "dump", "set"}
          /\ pc' \in {"idle", "apply", "rollback", "capture", "check", "show", "set", "verify"}
      BY <1>1
    <2> QED
      BY <1>1, <2>1, <2>2, <2>3, <2>4, Zenon DEF TypeOK, Demanded
  <1>3. Places'
    BY <1>1 DEF Places, Loading, Loads
  <1>4. Untouched' /\ Setting'
    BY <1>1 DEF Untouched, Setting
  <1>5. Origins' /\ Restores'
    BY <1>1 DEF Origins, Restores, Loading, Planned, Distinct
  <1>6. Plans'
    BY <1>1 DEF Plans, Loading
  <1>7. Progress'
    BY <1>1 DEF Progress, Loading
  <1>8. /\ RefusalTouchesNothing' /\ VerifiedRollbackRestores' /\ LoadIsExact'
        /\ SetIsHonest'
    BY <1>1
      DEF RefusalTouchesNothing, VerifiedRollbackRestores, LoadIsExact, SetIsHonest
  <1> QED
    BY <1>2, <1>3, <1>4, <1>5, <1>6, <1>7, <1>8

(* What a program has promised when it ends that way. *)
Earned(how) ==
    /\ how \in {"ok", "refused", "restored", "incomplete", "failed", "killed"}
    /\ Loads /\ how \in {"refused", "restored"} => regs = before
    /\ Loads /\ how = "ok" => \A s \in Servo, f \in Field : regs[s][f] = Loaded(s, f)
    /\ program = "set" /\ how = "ok" =>
         \A s \in Servo, f \in Field :
            regs[s][f] = IF f \in DOMAIN request THEN request[f] ELSE before[s][f]

(* It ends, and leaves no plan behind. *)
LEMMA EndStep ==
  ASSUME IInv, NEW how, End(how), Earned(how), regs' = regs, IsFile(saved')
  PROVE  IInv'
  <1> USE DEF IInv
  <1>1. /\ pc' = "idle" /\ exit' = how
        /\ entries' = <<>> /\ checked' = 0 /\ ops' = {} /\ todo' = {}
        /\ restored' = FALSE /\ allOk' = TRUE
        /\ UNCHANGED <<program, torque, request, before, wanted, runs>>
    BY DEF End, NoPlan, history
  <1>2. TypeOK'
    <2>1. checked' \in 0..Len(entries') /\ IsFile(entries')
      BY <1>1, NoFile
    <2>2. ops' \subseteq Operation /\ todo' \subseteq ops' /\ IsFile(wanted')
      BY <1>1 DEF TypeOK
    <2>3. /\ exit' \in {"none", "ok", "refused", "restored", "incomplete", "failed", "killed"}
          /\ pc' \in {"idle", "apply", "rollback", "capture", "check", "show", "set", "verify"}
      BY <1>1 DEF Earned
    <2> QED
      BY <1>1, <2>1, <2>2, <2>3, Zenon DEF TypeOK
  <1>3. Places' /\ Untouched' /\ Setting'
    BY <1>1 DEF Places, Untouched, Setting, Loading
  <1>4. Origins' /\ Restores' /\ Plans' /\ Progress'
    BY <1>1 DEF Origins, Restores, Plans, Progress, Loading
  <1>5. RefusalTouchesNothing' /\ VerifiedRollbackRestores'
    BY <1>1 DEF RefusalTouchesNothing, VerifiedRollbackRestores, Loads, Earned
  <1>6. LoadIsExact'
    BY <1>1 DEF LoadIsExact, Loads, Earned, Loaded
  <1>7. SetIsHonest'
    BY <1>1 DEF SetIsHonest, Earned
  <1> QED
    BY <1>2, <1>3, <1>4, <1>5, <1>6, <1>7

(* A part of a file is a file. *)
LEMMA ChosenFacts ==
  ASSUME NEW file, IsFile(file), Distinct(file), NEW ids, NEW part \in Chosen(file, ids),
         ids \subseteq {file[n].id : n \in DOMAIN file}
  PROVE  IsFile(part) /\ Distinct(part)
  <1>1. CASE ids = {}
    BY <1>1 DEF Chosen
  <1>2. CASE ids # {}
    <2> DEFINE S == {file[n] : n \in DOMAIN file}
               ks == {file[n].id : n \in DOMAIN file}
    <2>1. /\ part \in [1..Cardinality(ids) -> S]
          /\ \A a, b \in DOMAIN part : a < b => part[a].id < part[b].id
      BY <1>2 DEF Chosen
    <2>2. \A e \in S : IsEntry(e)
      BY DEF IsFile
    <2>3. Cardinality(ids) \in Nat
      <3>1. Len(file) \in Nat /\ DOMAIN file = 1..Len(file)
        BY FileFacts
      <3>2. IsFiniteSet(1..Len(file))
        BY <3>1, FS_Interval
      <3> DEFINE f == [n \in 1..Len(file) |-> file[n].id]
      <3>3. f \in Surjection(1..Len(file), ks)
        BY <3>1 DEF Surjection
      <3>4. IsFiniteSet(ks)
        BY <3>2, <3>3, FS_Surjection
      <3>5. IsFiniteSet(ids)
        BY <3>4, FS_Subset
      <3> QED
        BY <3>5, FS_CardinalityType
    <2>4. IsFile(part)
      BY <2>1, <2>2, <2>3, FileOf
    <2>5. \A a \in DOMAIN part : part[a].id \in Nat /\ a \in Nat
      BY <2>4, FileFacts
    <2>6. ASSUME NEW a \in DOMAIN part, NEW b \in DOMAIN part, part[a].id = part[b].id
          PROVE  a = b
      BY <2>1, <2>5, <2>6
    <2> QED
      BY <2>4, <2>6 DEF Distinct
  <1> QED
    BY <1>1, <1>2

(* The loader takes a file or a part of one. *)
LEMMA LoadBeginStep ==
  ASSUME IInv, LoadBegin
  PROVE  IInv'
  <1>1. PICK file \in Files \cup {saved} :
          /\ WellFormed(file)
          /\ \E ids \in SUBSET {file[n].id : n \in DOMAIN file} : entries' \in Chosen(file, ids)
          /\ Start("load", "apply") /\ wanted' = entries' /\ request' = NoRequest
    BY DEF LoadBegin
  <1>2. IsFile(file) /\ Distinct(file)
    BY <1>1, FilesAssumption DEF IInv, TypeOK, WellFormed
  <1>3. IsFile(entries') /\ Distinct(entries')
    BY <1>1, <1>2, ChosenFacts
  <1>4. Demanded(request')
    BY <1>1 DEF Demanded, NoRequest
  <1> QED
    BY <1>1, <1>3, <1>4, StartStep

(* The configurator takes a whole file. *)
LEMMA ConfigureBeginStep ==
  ASSUME IInv, ConfigureBegin
  PROVE  IInv'
  <1>1. PICK file \in Files :
          /\ WellFormed(file) /\ Start("configure", "apply")
          /\ entries' = file /\ wanted' = file /\ request' = NoRequest
    BY DEF ConfigureBegin
  <1>2. IsFile(entries') /\ Distinct(entries')
    BY <1>1, FilesAssumption DEF WellFormed
  <1>3. Demanded(request')
    BY <1>1 DEF Demanded, NoRequest
  <1> QED
    BY <1>1, <1>2, <1>3, StartStep

(* The dump and the set have no file. *)
LEMMA OtherBeginStep ==
  ASSUME IInv, DumpBegin \/ SetBegin
  PROVE  IInv'
  <1>1. CASE DumpBegin
    <2>1. Demanded(request')
      BY <1>1 DEF DumpBegin, Demanded, NoRequest
    <2> QED
      BY <1>1, <2>1, StartStep, NoFile DEF DumpBegin
  <1>2. CASE SetBegin
    <2>1. PICK fs \in SUBSET ModeResets, v \in {0, 2} :
            /\ request' = [f \in fs |-> v]
            /\ Start("set", IF fs = {} THEN "show" ELSE "check")
            /\ entries' = <<>> /\ wanted' = <<>>
      BY <1>2 DEF SetBegin
    <2>2. Demanded(request')
      BY <2>1 DEF Demanded
    <2> QED
      BY <2>1, <2>2, StartStep, NoFile
  <1> QED
    BY <1>1, <1>2

-----------------------------------------------------------------------------
(* The loader.                                                             *)

(* A motor that is acceptable adds its plan. *)
LEMMA PreflightStep ==
  ASSUME IInv, Preflight
  PROVE  IInv'
  <1> USE DEF IInv
  <1> DEFINE n == checked + 1
             M == MotorOps(n)
  <1>0. /\ pc = "apply" /\ Loads /\ Loading /\ checked < Len(entries) /\ Acceptable(entries[n])
        /\ ops' = ops \cup M /\ todo' = todo \cup M /\ checked' = n
        /\ UNCHANGED <<regs, torque, saved, program, pc, entries, restored, request, allOk,
                       exit, history>>
        /\ exit = "none"
    BY DEF Preflight, Places, Loading
  <1>1. /\ UNCHANGED <<before, wanted, runs>> /\ regs = before /\ todo = ops
        /\ entries = wanted /\ Distinct(entries)
        /\ Loading' /\ Loads'
    BY <1>0 DEF history, Untouched, PreflightOver, Origins, Loading, Loads
  <1>2. /\ Len(entries) \in Nat /\ DOMAIN entries = 1..Len(entries) /\ checked \in Nat
        /\ n \in 1..Len(entries) /\ n \in Nat
    BY <1>0, FileFacts DEF TypeOK
  <1>3. /\ entries[n].id \in Servo
        /\ \A o \in M :
              /\ o \in Operation /\ o.motor = n /\ o.id = entries[n].id
              /\ o.was = regs[o.id][o.field]
              /\ o.field \notin DOMAIN entries[n].params => o.want = o.was
        /\ \A o, p \in M : o.field = p.field => o = p
        /\ \A o \in M, g \in ModeResets :
              o.field = "mode" => \E p \in M : p.field = g
        /\ \A f \in DOMAIN entries[n].params :
              \/ \E o \in M : o.field = f /\ o.want = entries[n].params[f]
              \/ /\ \A o \in M : o.field # f
                 /\ regs[entries[n].id][f] = entries[n].params[f]
    BY <1>0, <1>2, MotorOpsFacts
  <1> HIDE DEF M
  <1>4. \A m \in 1..checked : entries[m].id # entries[n].id
    BY <1>1, <1>2 DEF Distinct
  <1>5. \A o \in ops : o.motor \in 1..checked /\ o.id = entries[o.motor].id
                       /\ o.id # entries[n].id /\ o.was = before[o.id][o.field]
    BY <1>0, <1>4 DEF Origins
  <1>6. TypeOK'
    <2>1. checked' \in 0..Len(entries')
      BY <1>0, <1>2
    <2>2. ops' \subseteq Operation /\ todo' \subseteq ops'
      BY <1>0, <1>3 DEF TypeOK
    <2> QED
      BY <1>0, <1>1, <2>1, <2>2, Zenon DEF TypeOK
  <1>7. Places' /\ Setting'
    BY <1>0, <1>1 DEF Places, Loading, Loads, Setting
  <1>8. Untouched'
    BY <1>0, <1>1 DEF Untouched
  <1>9. Origins'
    <2>1. \A o \in ops' : /\ o.motor \in 1..checked' /\ o.id = entries[o.motor].id
                          /\ o.was = before[o.id][o.field]
      BY <1>0, <1>1, <1>2, <1>3, <1>5
    <2>2. ASSUME NEW o \in ops', NEW p \in ops', o.id = p.id, o.field = p.field
          PROVE  o = p
      <3>1. CASE o \in ops /\ p \in ops
        BY <1>0, <2>2, <3>1 DEF Origins
      <3>2. CASE o \in M /\ p \in M
        BY <1>3, <2>2, <3>2
      <3>3. CASE o \in ops /\ p \in M
        BY <1>3, <1>5, <2>2, <3>3
      <3>4. CASE o \in M /\ p \in ops
        BY <1>3, <1>5, <2>2, <3>4
      <3> QED
        BY <1>0, <3>1, <3>2, <3>3, <3>4
    <2> QED
      BY <1>0, <1>1, <2>1, <2>2 DEF Origins
  <1>10. Restores'
    <2>1. ASSUME NEW o \in ops', NEW g \in ModeResets, o.field = "mode"
          PROVE  \E p \in ops' : p.id = o.id /\ p.field = g
      <3>1. CASE o \in ops
        BY <1>0, <2>1, <3>1 DEF Restores, Planned
      <3>2. CASE o \in M
        BY <1>0, <1>3, <2>1, <3>2
      <3> QED
        BY <1>0, <3>1, <3>2
    <2> QED
      BY <2>1 DEF Restores, Planned
  <1>11. Plans'
    <2>1. ASSUME NEW m \in 1..checked', NEW f \in DOMAIN entries[m].params
          PROVE  \/ \E o \in ops' : /\ o.id = entries[m].id /\ o.field = f
                                    /\ o.want = entries[m].params[f]
                 \/ /\ \A o \in ops' : ~(o.id = entries[m].id /\ o.field = f)
                    /\ before[entries[m].id][f] = entries[m].params[f]
      <3>1. CASE m = n
        BY <1>0, <1>1, <1>3, <1>5, <3>1
      <3>2. CASE m \in 1..checked
        <4>1. \A o \in M : o.id # entries[m].id
          BY <1>3, <1>4, <3>2
        <4> QED
          BY <1>0, <3>2, <4>1 DEF Plans, Planned
      <3> QED
        BY <1>0, <1>2, <3>1, <3>2
    <2>2. \A o \in ops' : o.field \notin DOMAIN entries[o.motor].params => o.want = o.was
      BY <1>0, <1>3 DEF Plans
    <2> QED
      BY <1>0, <1>1, <2>1, <2>2 DEF Plans, Planned
  <1>12. Progress'
    BY <1>0, <1>1 DEF Progress
  <1>13. /\ RefusalTouchesNothing' /\ VerifiedRollbackRestores' /\ LoadIsExact'
         /\ SetIsHonest'
    BY <1>0
      DEF RefusalTouchesNothing, VerifiedRollbackRestores, LoadIsExact, SetIsHonest
  <1> QED
    BY <1>6, <1>7, <1>8, <1>9, <1>10, <1>11, <1>12, <1>13

(* A refusal comes before the first write. *)
LEMMA RefuseStep ==
  ASSUME IInv, Refuse
  PROVE  IInv'
  <1>1. regs = before /\ Loads
    BY DEF IInv, Refuse, Untouched, PreflightOver, Places, Loading
  <1>2. Earned("refused") /\ regs' = regs /\ IsFile(saved')
    BY <1>1 DEF Refuse, Earned, IInv, TypeOK
  <1> QED
    BY <1>2, EndStep DEF Refuse

(* A planned write or its undoing, next in order: the registers without a  *)
(* plan and those of the writes made before keep their values.             *)
LEMMA PlannedWrite ==
  ASSUME IInv, Loading, NEW o \in todo, IsNext(o), NEW v \in Nat,
         NEW applied \in BOOLEAN, NEW acked \in BOOLEAN,
         Write(o.id, o.field, v, applied, acked)
  PROVE  /\ regs' \in [Servo -> [Field -> Nat]] /\ o \in Operation
         /\ \A s \in Servo, f \in Field : Planned(s, f) = {} => regs'[s][f] = regs[s][f]
         /\ \A p \in ops \ todo : regs'[p.id][p.field] = regs[p.id][p.field]
         /\ \A p \in ops \ (todo \ {o}), q \in todo \ {o} : Precedes(p, q)
  <1> USE DEF IInv
  <1>1. /\ ops \subseteq Operation /\ o \in ops /\ o \in Operation /\ Loads
        /\ o.id \in Servo /\ o.field \in Field
    BY DEF TypeOK, Places, Operation
  <1>2. /\ regs' \in [Servo -> [Field -> Nat]]
        /\ \A r \in Servo, g \in Field :
             r # o.id \/ (g # o.field /\ ~(o.field = "mode" /\ g \in ModeResets)) =>
               regs'[r][g] = regs[r][g]
    BY <1>1, WriteFacts
  <1>3. ASSUME NEW s \in Servo, NEW f \in Field, Planned(s, f) = {}
        PROVE  regs'[s][f] = regs[s][f]
    <2>1. s # o.id \/ f # o.field
      BY <1>1, <1>3 DEF Planned
    <2>2. s # o.id \/ ~(o.field = "mode" /\ f \in ModeResets)
      BY <1>1, <1>3 DEF Restores
    <2> QED
      BY <1>2, <2>1, <2>2
  <1>4. ASSUME NEW p \in ops \ todo
        PROVE  regs'[p.id][p.field] = regs[p.id][p.field]
    <2>1. p \in Operation /\ p.id \in Servo /\ p.field \in Field
      BY <1>1 DEF Operation
    <2>2. p.id # o.id \/ p.field # o.field
      BY <1>1 DEF Origins
    <2>3. Precedes(p, o)
      BY DEF Progress
    <2>4. ASSUME p.id = o.id, o.field = "mode", p.field \in ModeResets
          PROVE  FALSE
      <3>1. p.motor = o.motor
        <4>1. /\ p.motor \in DOMAIN entries /\ o.motor \in DOMAIN entries
              /\ entries[p.motor].id = entries[o.motor].id
          BY <1>1, <2>4, FileFacts DEF Origins, TypeOK
        <4> QED
          BY <4>1 DEF Origins, Distinct
      <3> QED
        BY <1>1, <2>1, <2>3, <2>4, <3>1, ResetComesLater
    <2> QED
      BY <1>1, <1>2, <2>1, <2>2, <2>4
  <1>5. \A p \in ops \ (todo \ {o}), q \in todo \ {o} : Precedes(p, q)
    BY DEF Progress, IsNext
  <1> QED
    BY <1>1, <1>2, <1>3, <1>4, <1>5

(* The next write of a load. *)
LEMMA WriteNextStep ==
  ASSUME IInv, WriteNext
  PROVE  IInv'
  <1> USE DEF IInv
  <1>0. /\ pc = "apply" /\ PreflightOver /\ Loading /\ Loads /\ exit = "none"
        /\ UNCHANGED <<torque, saved, program, entries, checked, ops, request, allOk, exit,
                       before, wanted, runs>>
    BY DEF WriteNext, Places, Loading, history
  <1>1. PICK o \in todo, applied \in BOOLEAN, acked \in BOOLEAN :
          /\ IsNext(o) /\ Write(o.id, o.field, o.want, applied, acked)
          /\ IF Verified(o, o.want, acked)
               THEN todo' = todo \ {o} /\ UNCHANGED <<pc, restored>>
               ELSE todo' = ops /\ pc' = "rollback" /\ restored' = TRUE
    BY DEF WriteNext
  <1>2. o.want \in Nat /\ o \in ops /\ todo \subseteq ops
    BY DEF TypeOK, Operation
  <1>3. /\ regs' \in [Servo -> [Field -> Nat]] /\ o \in Operation
        /\ \A s \in Servo, f \in Field : Planned(s, f) = {} => regs'[s][f] = regs[s][f]
        /\ \A p \in ops \ todo : regs'[p.id][p.field] = regs[p.id][p.field]
        /\ \A p \in ops \ (todo \ {o}), q \in todo \ {o} : Precedes(p, q)
    BY <1>0, <1>1, <1>2, PlannedWrite
  <1>4. /\ todo' \subseteq ops' /\ pc' \in {"apply", "rollback"} /\ restored' \in BOOLEAN
        /\ Loading'
    BY <1>0, <1>1, <1>2 DEF TypeOK, Loading
  <1>5. TypeOK'
    BY <1>0, <1>3, <1>4, Zenon DEF TypeOK
  <1>6. Places' /\ Setting'
    BY <1>0, <1>4 DEF Places, Loading, Loads, Setting
  <1>7. Untouched'
    BY <1>0, <1>4 DEF Untouched, PreflightOver
  <1>8. Origins' /\ Restores' /\ Plans'
    BY <1>0, <1>4 DEF Origins, Restores, Plans, Planned, Distinct
  <1>9. Progress'
    <2>1. \A s \in Servo, f \in Field : Planned(s, f) = {} => regs'[s][f] = before[s][f]
      BY <1>0, <1>3 DEF Progress
    <2>2. CASE Verified(o, o.want, acked)
      <3>1. \A p \in ops \ todo' : regs'[p.id][p.field] = p.want
        BY <1>0, <1>1, <1>3, <2>2 DEF Progress, Verified
      <3>2. \A p \in ops \ todo', q \in todo' : Precedes(p, q)
        BY <1>1, <1>3, <2>2
      <3> QED
        BY <1>0, <1>1, <2>1, <2>2, <3>1, <3>2 DEF Progress, Planned, Precedes
    <2>3. CASE ~Verified(o, o.want, acked)
      <3>1. ops' \ todo' = {}
        BY <1>0, <1>1, <2>3
      <3> QED
        BY <1>0, <1>1, <2>1, <2>3, <3>1 DEF Progress, Planned
    <2> QED
      BY <2>2, <2>3
  <1>10. /\ RefusalTouchesNothing' /\ VerifiedRollbackRestores' /\ LoadIsExact'
         /\ SetIsHonest'
    BY <1>0
      DEF RefusalTouchesNothing, VerifiedRollbackRestores, LoadIsExact, SetIsHonest
  <1> QED
    BY <1>5, <1>6, <1>7, <1>8, <1>9, <1>10

(* With every write made, the registers hold what the file says. *)
LEMMA LoadEndStep ==
  ASSUME IInv, LoadEnd
  PROVE  IInv'
  <1> USE DEF IInv
  <1>0. /\ pc = "apply" /\ Loading /\ Loads /\ todo = {} /\ checked = Len(entries)
        /\ entries = wanted /\ Distinct(entries)
        /\ Len(entries) \in Nat /\ DOMAIN entries = 1..checked
    BY FileFacts DEF LoadEnd, Places, Loading, PreflightOver, Origins, TypeOK
  <1>1. ASSUME NEW s \in Servo, NEW f \in Field
        PROVE  regs[s][f] = Loaded(s, f)
    <2> DEFINE said == {n \in DOMAIN wanted : wanted[n].id = s /\ f \in DOMAIN wanted[n].params}
    <2>1. \A o \in Planned(s, f) : o \in ops /\ o.id = s /\ o.field = f /\ regs[s][f] = o.want
      BY <1>0 DEF Progress, Planned
    <2>2. Planned(s, f) = {} => regs[s][f] = before[s][f]
      BY <1>0 DEF Progress
    <2>3. CASE said = {}
      <3>1. ASSUME NEW o \in Planned(s, f)
            PROVE  regs[s][f] = before[s][f]
        <4>1. o.motor \in DOMAIN wanted /\ o.id = wanted[o.motor].id /\ o.was = before[s][f]
          BY <1>0, <2>1 DEF Origins
        <4>2. f \notin DOMAIN wanted[o.motor].params
          BY <2>1, <2>3, <4>1
        <4> QED
          BY <1>0, <2>1, <4>1, <4>2 DEF Plans
      <3>2. regs[s][f] = before[s][f]
        BY <2>2, <3>1
      <3> QED
        BY <2>3, <3>2 DEF Loaded
    <2>4. CASE said # {}
      <3> DEFINE n == CHOOSE n \in said : TRUE
      <3>1. n \in said
        BY <2>4
      <3>2. Loaded(s, f) = wanted[n].params[f]
        BY <2>4 DEF Loaded
      <3> HIDE DEF n
      <3>3. n \in 1..checked /\ entries[n].id = s /\ f \in DOMAIN entries[n].params
        BY <1>0, <3>1
      <3>4. \/ \E o \in Planned(s, f) : o.want = entries[n].params[f]
            \/ Planned(s, f) = {} /\ before[s][f] = entries[n].params[f]
        BY <1>0, <3>3 DEF Plans
      <3> QED
        BY <1>0, <2>1, <2>2, <3>2, <3>4
    <2> QED
      BY <2>3, <2>4
  <1>2. Earned("ok") /\ regs' = regs /\ IsFile(saved')
    BY <1>0, <1>1 DEF LoadEnd, Earned, TypeOK, Loads
  <1> QED
    BY <1>2, EndStep DEF LoadEnd

(* The next write undone. *)
LEMMA RollbackStep ==
  ASSUME IInv, Rollback
  PROVE  IInv'
  <1> USE DEF IInv
  <1>0. /\ pc = "rollback" /\ Loading /\ Loads /\ exit = "none"
        /\ UNCHANGED <<torque, saved, program, pc, entries, checked, ops, request, allOk, exit,
                       before, wanted, runs>>
    BY DEF Rollback, Places, Loading, history
  <1>1. PICK o \in todo, applied \in BOOLEAN, acked \in BOOLEAN :
          /\ IsNext(o) /\ Write(o.id, o.field, o.was, applied, acked)
          /\ restored' = (restored /\ Verified(o, o.was, acked))
          /\ todo' = todo \ {o}
    BY DEF Rollback, IsNextUndone
  <1>2. o.was \in Nat /\ o \in ops /\ todo \subseteq ops
    BY DEF TypeOK, Operation
  <1>3. /\ regs' \in [Servo -> [Field -> Nat]] /\ o \in Operation
        /\ \A s \in Servo, f \in Field : Planned(s, f) = {} => regs'[s][f] = regs[s][f]
        /\ \A p \in ops \ todo : regs'[p.id][p.field] = regs[p.id][p.field]
        /\ \A p \in ops \ (todo \ {o}), q \in todo \ {o} : Precedes(p, q)
    BY <1>0, <1>1, <1>2, PlannedWrite
  <1>4. todo' \subseteq ops' /\ Loading'
    BY <1>0, <1>1, <1>2 DEF Loading
  <1>5. restored' \in BOOLEAN
    BY <1>1
  <1>6. TypeOK'
    BY <1>0, <1>3, <1>4, <1>5, Zenon DEF TypeOK
  <1>7. Places' /\ Setting' /\ Untouched'
    BY <1>0 DEF Places, Loading, Loads, Setting, Untouched
  <1>8. Origins' /\ Restores' /\ Plans'
    BY <1>0, <1>4 DEF Origins, Restores, Plans, Planned, Distinct
  <1>9. Progress'
    <2>1. \A s \in Servo, f \in Field : Planned(s, f) = {} => regs'[s][f] = before[s][f]
      BY <1>0, <1>3 DEF Progress
    <2>2. restored' => restored /\ regs'[o.id][o.field] = o.was
      BY <1>1 DEF Verified
    <2>3. restored' => \A p \in ops \ todo' : regs'[p.id][p.field] = p.was
      BY <1>0, <1>1, <1>3, <2>2 DEF Progress
    <2>4. \A p \in ops \ todo', q \in todo' : Precedes(p, q)
      BY <1>1, <1>3
    <2> QED
      BY <1>0, <2>1, <2>3, <2>4 DEF Progress, Planned, Precedes
  <1>10. /\ RefusalTouchesNothing' /\ VerifiedRollbackRestores' /\ LoadIsExact'
         /\ SetIsHonest'
    BY <1>0
      DEF RefusalTouchesNothing, VerifiedRollbackRestores, LoadIsExact, SetIsHonest
  <1> QED
    BY <1>6, <1>7, <1>8, <1>9, <1>10

(* With every write undone and verified, nothing has changed. *)
LEMMA RollbackEndStep ==
  ASSUME IInv, RollbackEnd
  PROVE  IInv'
  <1> USE DEF IInv
  <1>0. pc = "rollback" /\ Loading /\ Loads /\ todo = {}
    BY DEF RollbackEnd, Places, Loading
  <1>1. ASSUME restored
        PROVE  regs = before
    <2>1. ASSUME NEW s \in Servo, NEW f \in Field
          PROVE  regs[s][f] = before[s][f]
      <3>1. CASE Planned(s, f) = {}
        BY <1>0, <3>1 DEF Progress
      <3>2. ASSUME NEW o \in Planned(s, f)
            PROVE  regs[s][f] = before[s][f]
        BY <1>0, <1>1 DEF Progress, Origins, Planned
      <3> QED
        BY <3>1, <3>2
    <2>2. regs \in [Servo -> [Field -> Nat]] /\ before \in [Servo -> [Field -> Nat]]
      BY DEF TypeOK
    <2>3. \A s \in Servo : regs[s] = before[s]
      BY <2>1, <2>2
    <2> QED
      BY <2>2, <2>3
  <1>2. Earned(IF restored THEN "restored" ELSE "incomplete")
    BY <1>1 DEF Earned
  <1>3. regs' = regs /\ IsFile(saved')
    BY DEF RollbackEnd, TypeOK
  <1> QED
    BY <1>2, <1>3, EndStep DEF RollbackEnd

-----------------------------------------------------------------------------
(* The dump and the set.                                                   *)

(* A dump is a file. *)
LEMMA CaptureStep ==
  ASSUME IInv, Capture \/ CaptureFails
  PROVE  IInv'
  <1> USE DEF IInv
  <1>0. /\ pc = "capture" /\ program = "dump" /\ regs' = regs
        /\ regs \in [Servo -> [Field -> Nat]] /\ IsFile(saved)
    BY DEF Capture, CaptureFails, Places, TypeOK
  <1>1. Earned("ok") /\ Earned("failed")
    BY <1>0 DEF Earned, Loads
  <1>2. CASE CaptureFails
    BY <1>0, <1>1, <1>2, EndStep DEF CaptureFails
  <1>3. CASE Capture
    <2>0. PICK found \in SUBSET Servo \ {{}} :
            \E order \in [1..Cardinality(found) -> found] :
              saved' = [n \in DOMAIN order |-> Captured(order[n])]
      BY <1>3 DEF Capture
    <2>1. PICK order \in [1..Cardinality(found) -> found] :
            saved' = [n \in DOMAIN order |-> Captured(order[n])]
      BY <2>0
    <2>2. Cardinality(found) \in Nat
      BY Bus, FS_Subset, FS_CardinalityType
    <2>3. ASSUME NEW s \in Servo
          PROVE  IsEntry(Captured(s))
      <3>1. s \in Nat /\ Model[s] \in Models
        BY Bus, ModelAssumption
      <3>2. \A f \in Field : regs[s][f] \in Nat
        BY <1>0
      <3> QED
        BY <3>1, <3>2 DEF Captured, IsEntry
    <2>4. saved' \in [1..Cardinality(found) -> {Captured(s) : s \in Servo}]
      BY <2>1
    <2>5. IsFile(saved')
      BY <2>2, <2>3, <2>4, FileOf
    <2> QED
      BY <1>0, <1>1, <1>3, <2>5, EndStep DEF Capture
  <1> QED
    BY <1>2, <1>3

(* A kill leaves the registers as they are. *)
LEMMA KillStep ==
  ASSUME IInv, Kill
  PROVE  IInv'
  <1>1. Earned("killed") /\ regs' = regs /\ IsFile(saved')
    BY DEF Kill, Earned, IInv, TypeOK
  <1> QED
    BY <1>1, EndStep DEF Kill

(* A failed set has promised nothing. *)
LEMMA FailedStep ==
  ASSUME IInv, program = "set", End("failed"), UNCHANGED <<regs, saved>>
  PROVE  IInv'
  <1>1. Earned("failed") /\ regs' = regs /\ IsFile(saved')
    BY DEF Earned, IInv, TypeOK
  <1> QED
    BY <1>1, EndStep

(* The torque is looked at. *)
LEMMA CheckTorqueStep ==
  ASSUME IInv, CheckTorque
  PROVE  IInv'
  <1>1. pc = "check" /\ program = "set" /\ UNCHANGED <<regs, saved>>
    BY DEF CheckTorque, IInv, Places
  <1>2. CASE End("failed")
    BY <1>1, <1>2, FailedStep
  <1>3. CASE /\ pc' = "show"
             /\ UNCHANGED <<program, entries, checked, ops, todo, restored, request, allOk,
                            exit, history, torque>>
    <2>1. UNCHANGED <<before, wanted, runs>>
      BY <1>3 DEF history
    <2>2. TypeOK'
      BY <1>1, <1>3, <2>1, Zenon DEF IInv, TypeOK
    <2>3. Places' /\ Untouched' /\ Setting'
      BY <1>1, <1>3, <2>1 DEF IInv, Places, Loading, Loads, Untouched, Setting
    <2>4. Origins' /\ Restores' /\ Plans' /\ Progress'
      BY <1>3 DEF Origins, Restores, Plans, Progress, Loading
    <2>5. /\ RefusalTouchesNothing' /\ VerifiedRollbackRestores' /\ LoadIsExact'
          /\ SetIsHonest'
      BY <1>1, <1>3 DEF IInv, Places, RefusalTouchesNothing, VerifiedRollbackRestores,
                        LoadIsExact, SetIsHonest
    <2> QED
      BY <2>2, <2>3, <2>4, <2>5 DEF IInv
  <1> QED
    BY <1>2, <1>3 DEF CheckTorque

(* The writes of a set are planned. *)
LEMMA ShowStep ==
  ASSUME IInv, Show
  PROVE  IInv'
  <1>1. /\ pc = "show" /\ program = "set" /\ UNCHANGED <<regs, saved>> /\ exit = "none"
        /\ regs = before
    BY DEF Show, IInv, Places, Untouched
  <1>2. CASE End("failed")
    BY <1>1, <1>2, FailedStep
  <1>3. CASE request = NoRequest /\ End("ok")
    <2>1. DOMAIN request = {}
      BY <1>3 DEF NoRequest
    <2>2. Earned("ok") /\ regs' = regs /\ IsFile(saved')
      BY <1>1, <2>1 DEF Earned, Loads, IInv, TypeOK
    <2> QED
      BY <1>3, <2>2, EndStep
  <1>4. CASE /\ ops' = SetOps /\ todo' = SetOps /\ pc' = "set"
             /\ UNCHANGED <<program, entries, checked, restored, request, allOk, exit,
                            history, torque>>
    <2>1. UNCHANGED <<before, wanted, runs>>
      BY <1>4 DEF history
    <2>2. ASSUME NEW o \in SetOps
          PROVE  o \in Operation /\ o.field \in DOMAIN request
      <3>1. PICK j \in DOMAIN Joints, f \in DOMAIN request :
              o = [motor |-> j, id |-> Joints[j], field |-> f, want |-> request[f],
                   was |-> regs[Joints[j]][f]]
        BY DEF SetOps
      <3>2. j \in Nat /\ Joints[j] \in Servo
        BY Bus
      <3>3. f \in Field /\ request[f] \in Nat
        BY Fields DEF IInv, TypeOK
      <3>4. regs[Joints[j]][f] \in Nat
        BY <3>2, <3>3 DEF IInv, TypeOK
      <3> QED
        BY <3>1, <3>2, <3>3, <3>4 DEF Operation
    <2>3. TypeOK'
      <3>1. ops' \subseteq Operation /\ todo' \subseteq ops'
        BY <1>4, <2>2
      <3> QED
        BY <1>1, <1>4, <2>1, <3>1, Zenon DEF IInv, TypeOK
    <2>4. Places' /\ Untouched'
      BY <1>1, <1>4, <2>1 DEF IInv, Places, Loading, Loads, Untouched
    <2>5. Setting'
      BY <1>1, <1>4, <2>1, <2>2 DEF Setting
    <2>6. Origins' /\ Restores' /\ Plans' /\ Progress'
      BY <1>4 DEF Origins, Restores, Plans, Progress, Loading
    <2>7. /\ RefusalTouchesNothing' /\ VerifiedRollbackRestores' /\ LoadIsExact'
          /\ SetIsHonest'
      BY <1>1, <1>4 DEF RefusalTouchesNothing, VerifiedRollbackRestores, LoadIsExact,
                        SetIsHonest
    <2> QED
      BY <2>3, <2>4, <2>5, <2>6, <2>7 DEF IInv
  <1> QED
    BY <1>2, <1>3, <1>4 DEF Show

(* The next write of a set: to a register that a mode write resets, so it  *)
(* changes no other.                                                       *)
LEMMA SetNextStep ==
  ASSUME IInv, SetNext
  PROVE  IInv'
  <1> USE DEF IInv
  <1>0. /\ pc = "set" /\ program = "set" /\ exit = "none"
        /\ UNCHANGED <<torque, saved, program, pc, entries, checked, ops, restored, request,
                       exit, before, wanted, runs>>
    BY DEF SetNext, Places, history
  <1>1. PICK o \in todo, applied \in BOOLEAN, acked \in BOOLEAN :
          /\ Write(o.id, o.field, o.want, applied, acked)
          /\ allOk' = acked
          /\ todo' = IF acked THEN todo \ {o} ELSE {}
    BY DEF SetNext
  <1>2. /\ o.id \in Servo /\ o.field \in Field /\ o.want \in Nat
        /\ o.field \in DOMAIN request /\ DOMAIN request \subseteq ModeResets
        /\ todo \subseteq ops
    BY <1>0 DEF TypeOK, Operation, Setting
  <1>3. /\ regs' \in [Servo -> [Field -> Nat]]
        /\ \A s \in Servo, f \in Field : f # o.field => regs'[s][f] = regs[s][f]
    BY <1>1, <1>2, WriteFacts, Fields
  <1>4. todo' \subseteq todo /\ todo' \subseteq ops' /\ allOk' \in BOOLEAN
    BY <1>0, <1>1, <1>2
  <1>5. TypeOK'
    BY <1>0, <1>3, <1>4, Zenon DEF TypeOK
  <1>6. Places' /\ Untouched'
    BY <1>0 DEF Places, Loading, Loads, Untouched
  <1>7. Setting'
    BY <1>0, <1>2, <1>3, <1>4 DEF Setting
  <1>8. Origins' /\ Restores' /\ Plans' /\ Progress'
    BY <1>0 DEF Origins, Restores, Plans, Progress, Loading
  <1>9. /\ RefusalTouchesNothing' /\ VerifiedRollbackRestores' /\ LoadIsExact'
        /\ SetIsHonest'
    BY <1>0
      DEF RefusalTouchesNothing, VerifiedRollbackRestores, LoadIsExact, SetIsHonest
  <1> QED
    BY <1>5, <1>6, <1>7, <1>8, <1>9

(* The writes of a set are over. *)
LEMMA SetDoneStep ==
  ASSUME IInv, SetDone
  PROVE  IInv'
  <1> USE DEF IInv
  <1>0. /\ pc = "set" /\ pc' = "verify"
        /\ UNCHANGED <<regs, torque, saved, program, entries, checked, ops, todo, restored,
                       request, allOk, exit, before, wanted, runs>>
    BY DEF SetDone, history
  <1>1. TypeOK'
    BY <1>0, Zenon DEF TypeOK
  <1>2. Places' /\ Untouched' /\ Setting'
    BY <1>0 DEF Places, Loading, Loads, Untouched, Setting
  <1>3. Origins' /\ Restores' /\ Plans' /\ Progress'
    BY <1>0 DEF Origins, Restores, Plans, Progress, Loading
  <1>4. /\ RefusalTouchesNothing' /\ VerifiedRollbackRestores' /\ LoadIsExact'
        /\ SetIsHonest'
    BY <1>0 DEF Places, RefusalTouchesNothing, VerifiedRollbackRestores, LoadIsExact,
                SetIsHonest
  <1> QED
    BY <1>1, <1>2, <1>3, <1>4

(* A set succeeds on what the registers show. *)
LEMMA SetVerifyStep ==
  ASSUME IInv, SetVerify
  PROVE  IInv'
  <1>1. /\ pc = "verify" /\ program = "set" /\ UNCHANGED <<regs, saved>>
    BY DEF SetVerify, IInv, Places
  <1>2. CASE End("failed")
    BY <1>1, <1>2, FailedStep
  <1>3. CASE Holds /\ End("ok")
    <2>1. Earned("ok") /\ regs' = regs /\ IsFile(saved')
      BY <1>1, <1>3 DEF Earned, Loads, Holds, IInv, TypeOK, Setting
    <2> QED
      BY <1>3, <2>1, EndStep
  <1> QED
    BY <1>2, <1>3 DEF SetVerify

-----------------------------------------------------------------------------
(* The theorems.                                                           *)

(* The invariant holds at the start. *)
LEMMA InitInv == Init => IInv
  <1> SUFFICES ASSUME Init PROVE IInv
    OBVIOUS
  <1>1. /\ pc = "idle" /\ exit = "none" /\ ops = {} /\ todo = {} /\ entries = <<>>
        /\ checked = 0 /\ saved = <<>> /\ wanted = <<>> /\ request = NoRequest
        /\ before = regs
    BY DEF Init
  <1>2. TypeOK
    <2>1. regs \in [Servo -> [Field -> Nat]]
      <3>1. [f \in Field |-> IF f = "high" THEN 2 ELSE 1] \in [Field -> Nat]
        OBVIOUS
      <3> QED
        BY <3>1 DEF Init
    <2>2. checked \in 0..Len(entries)
      BY <1>1, NoFile
    <2>3. DOMAIN request \subseteq ModeResets /\ \A f \in DOMAIN request : request[f] \in Nat
      BY <1>1 DEF NoRequest
    <2>4. ops \subseteq Operation /\ todo \subseteq ops
      BY <1>1
    <2>5. torque \in [Servo -> BOOLEAN] /\ restored \in BOOLEAN /\ allOk \in BOOLEAN
      BY DEF Init
    <2>6. program \in {"none"} /\ pc \in {"idle"} /\ exit \in {"none"}
      BY DEF Init
    <2> QED
      BY <1>1, <2>1, <2>2, <2>3, <2>4, <2>5, <2>6, NoFile DEF TypeOK
  <1>3. Places /\ Untouched /\ Setting
    BY <1>1 DEF Places, Untouched, Setting, Loading
  <1>4. Origins /\ Restores /\ Plans /\ Progress
    BY <1>1 DEF Origins, Restores, Plans, Progress, Loading
  <1>5. RefusalTouchesNothing /\ VerifiedRollbackRestores /\ LoadIsExact /\ SetIsHonest
    BY <1>1
      DEF RefusalTouchesNothing, VerifiedRollbackRestores, LoadIsExact, SetIsHonest
  <1> QED
    BY <1>2, <1>3, <1>4, <1>5 DEF IInv

(* A step that changes nothing keeps it. *)
LEMMA StutterStep ==
  ASSUME IInv, UNCHANGED vars
  PROVE  IInv'
  <1> USE DEF IInv, vars, run, history
  <1>1. TypeOK'
    BY Zenon DEF TypeOK
  <1>2. Places' /\ Untouched' /\ Setting'
    BY DEF Places, Untouched, Setting, Loading, Loads, PreflightOver
  <1>3. Origins' /\ Restores' /\ Plans'
    BY DEF Origins, Restores, Plans, Loading, Planned, Distinct
  <1>4. Progress'
    BY DEF Progress, Loading, Planned, Precedes
  <1>5. RefusalTouchesNothing' /\ VerifiedRollbackRestores' /\ LoadIsExact' /\ SetIsHonest'
    BY DEF RefusalTouchesNothing, VerifiedRollbackRestores, LoadIsExact, SetIsHonest,
           Loads,
           Loaded
  <1> QED
    BY <1>1, <1>2, <1>3, <1>4, <1>5

(* Every step keeps it. *)
LEMMA StepInv == IInv /\ [Next]_vars => IInv'
  <1> SUFFICES ASSUME IInv, [Next]_vars PROVE IInv'
    OBVIOUS
  <1>1. CASE Loader
    BY <1>1, LoadBeginStep, ConfigureBeginStep, PreflightStep, RefuseStep,
       WriteNextStep,
       LoadEndStep, RollbackStep, RollbackEndStep DEF Loader
  <1>2. CASE Dump
    BY <1>2, OtherBeginStep, CaptureStep DEF Dump
  <1>3. CASE SetParam
    BY <1>3, OtherBeginStep, CheckTorqueStep, ShowStep, SetNextStep, SetDoneStep,
       SetVerifyStep DEF SetParam
  <1> QED
    BY <1>1, <1>2, <1>3, KillStep, StutterStep DEF Next

(* It holds in every reachable state. *)
LEMMA Invariance == Spec => []IInv
  BY InitInv, StepInv, PTL DEF Spec

(* Registers, files and plans keep their types; what a dump has written is *)
(* a file again.                                                           *)
THEOREM TypeCorrect == Spec => []TypeOK
  <1>1. IInv => TypeOK
    BY DEF IInv
  <1> QED
    BY <1>1, Invariance, PTL

(* apply() finishes every check before the first write: whatever file is   *)
(* refused, on whatever bus, no register has changed.                      *)
THEOREM RefusalIsClean == Spec => []RefusalTouchesNothing
  <1>1. IInv => RefusalTouchesNothing
    BY DEF IInv
  <1> QED
    BY <1>1, Invariance, PTL

(* apply(): a rollback that reports itself verified has put back every     *)
(* register of every servo, whichever write failed and whichever replies   *)
(* were lost.                                                              *)
THEOREM RollbackIsWhole == Spec => []VerifiedRollbackRestores
  <1>1. IInv => VerifiedRollbackRestores
    BY DEF IInv
  <1> QED
    BY <1>1, Invariance, PTL

(* apply() and x7_set_param: whatever the file or the request, and whatever *)
(* the bus loses, success means that every servo holds what was asked for   *)
(* and has what it had elsewhere.                                           *)
THEOREM SuccessMeansExact == Spec => []SuccessIsExact
  <1>1. IInv => SuccessIsExact
    BY DEF IInv, SuccessIsExact
  <1> QED
    BY <1>1, Invariance, PTL

=============================================================================
