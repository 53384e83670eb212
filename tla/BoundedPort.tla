---------------------------- MODULE BoundedPort ----------------------------
(***************************************************************************)
(* The serial transport with its bounded grouped read (src/dxl/port.cpp    *)
(* and, packet by packet, src/dxl/status_parser.cpp).                      *)
(*                                                                         *)
(* A grouped read asks every servo of Ids for Len bytes.  The replies      *)
(* travel on `wire`, a FIFO whose packets may be lost, damaged or delayed  *)
(* for as long as they like.  A read that ends without whole replies sets  *)
(* a quiet guard, and until a read succeeds the reads ask for one byte     *)
(* more (the recovery epoch), so that the replies of an abandoned read can *)
(* be told from the ones awaited.  The bytes of a packet are left out.     *)
(*                                                                         *)
(* Time passes in ticks, at any moment.  A packet's age counts the ticks   *)
(* since its request; like `elapsed` it is cut off at Budget + Guard, the  *)
(* largest value it is compared with.                                      *)
(***************************************************************************)
EXTENDS Naturals, Sequences

CONSTANTS
  N,        \* servos of the group, in request order 1..N
  Lens,     \* the data lengths of the armed windows
  Budget,   \* ticks from the instruction to the last reply byte
  Guard,    \* further quiet ticks after the budget of a failed read
  MaxWire   \* packets in flight at once, the rest is lost

ASSUME ServosAssumption == N \in Nat \ {0}
ASSUME LensAssumption ==
  /\ Lens \subseteq Nat \ {0}
  /\ \A a, b \in Lens : a # b => a + 1 < b \/ b + 1 < a
ASSUME TimesAssumption == Budget \in Nat \ {0} /\ Guard \in Nat
ASSUME WireAssumption == MaxWire \in Nat /\ N <= MaxWire

VARIABLES
  stage,     \* where the calling thread is in a transaction
  want,      \* the window's data length of the transaction; 0: another instruction
  armed,     \* bounded_ holds windows
  recovery,  \* recovery_
  guarding,  \* quiet_pending_
  elapsed,   \* ticks since t0 of the last bounded read
  inhibit,   \* the owner's quiesce flag
  wire,      \* packets in flight
  rx,        \* packets in the receive buffer of the port
  got,       \* packets the read in progress has taken
  asked,     \* the data length the read in progress asked for
  slip,      \* history: the first time a read took an answer to an earlier one
  sent       \* history: instructions sent since the inhibit

portVars == <<stage, want, armed, recovery, guarding, elapsed, inhibit, wire, rx, got,
          asked, slip, sent>>
lineVars == <<elapsed, wire, rx>>

Ids == 1..N
Horizon == Budget + Guard
\* A packet: the servo, the window it answers and its data bytes, whether its CRC
\* holds, whether it answers the read in progress, and its age.
Packet == [id : Ids, of : Lens \cup {0}, len : Nat, whole : BOOLEAN, mine : BOOLEAN,
           age : 0..Horizon]

PortTypeOK ==
  /\ stage \in {"idle", "clear", "cleared", "reading", "took"}
  /\ want \in Lens \cup {0} /\ asked \in Nat
  /\ armed \in BOOLEAN /\ recovery \in BOOLEAN /\ guarding \in BOOLEAN
  /\ inhibit \in BOOLEAN
  /\ elapsed \in 0..Horizon
  /\ wire \in Seq(Packet) /\ rx \in Seq(Packet) /\ got \in Seq(Packet)
  /\ slip \in {"none", "overdue", "stale"}
  /\ sent \in Nat

PortInit ==
  /\ stage = "idle" /\ want = 0 /\ asked = 0
  /\ armed = FALSE /\ recovery = FALSE /\ guarding = FALSE /\ inhibit = FALSE
  /\ elapsed = Horizon
  /\ wire = <<>> /\ rx = <<>> /\ got = <<>>
  /\ slip = "none" /\ sent = 0

----------------------------------------------------------------------------
\* The windows.

\* A recovery still due stays due when the windows change.
RecoveryAfterArming == recovery

Arm ==
  /\ stage = "idle" /\ ~armed
  /\ armed' = TRUE /\ recovery' = RecoveryAfterArming
  /\ UNCHANGED <<stage, want, guarding, inhibit, got, asked, slip, sent, lineVars>>

Disarm ==
  /\ stage = "idle" /\ armed
  /\ armed' = FALSE
  /\ UNCHANGED <<stage, want, recovery, guarding, inhibit, got, asked, slip, sent,
                 lineVars>>

----------------------------------------------------------------------------
\* A transaction begins: clearToTransmit() before every kind of instruction.

Begin(w) ==
  /\ stage = "idle"
  /\ w # 0 => armed
  /\ stage' = "clear" /\ want' = w
  /\ UNCHANGED <<armed, recovery, guarding, inhibit, got, asked, slip, sent, lineVars>>

FaultQuietOver == elapsed >= Budget
QuietOver == elapsed >= Horizon

\* An inhibit cancels the wait; the guard stays pending.
GiveUp ==
  /\ stage = "clear" /\ guarding /\ ~QuietOver /\ inhibit
  /\ stage' = "idle" /\ want' = 0
  /\ UNCHANGED <<armed, recovery, guarding, inhibit, got, asked, slip, sent,
                 lineVars>>

\* Whatever arrived during the guard is discarded.
EndGuard ==
  /\ stage = "clear" /\ guarding /\ QuietOver
  /\ guarding' = FALSE
  /\ UNCHANGED <<stage, want, armed, recovery, inhibit, got, asked, slip, sent, lineVars>>

FaultMayTransmit == TRUE
MayTransmit == ~inhibit

\* The last look at the inhibit flag before sending.
LastCheck ==
  /\ stage = "clear" /\ ~guarding
  /\ IF MayTransmit THEN stage' = "cleared" /\ want' = want
                    ELSE stage' = "idle" /\ want' = 0
  /\ UNCHANGED <<armed, recovery, guarding, inhibit, got, asked, slip, sent,
                 lineVars>>

\* MaxWire bounds the packets in flight: beyond it the oldest are lost.
Newest(s) == IF Len(s) <= MaxWire THEN s ELSE SubSeq(s, Len(s) - MaxWire + 1, Len(s))
Abandoned(s) == [i \in DOMAIN s |-> [s[i] EXCEPT !.mine = FALSE]]
Reply(i, w, len, whole, mine) ==
  [id |-> i, of |-> w, len |-> len, whole |-> whole, mine |-> mine, age |-> 0]

\* The servos answer in request order; a disturbance may damage a packet.
Answers(len) == {[i \in Ids |-> Reply(i, want, len, i # bad, TRUE)] : bad \in Ids \cup {0}}

Requested(len) == IF recovery THEN len + 1 ELSE len

\* The SDK discards received input, then writes the instruction.
SendRead ==
  /\ stage = "cleared" /\ want # 0
  /\ asked' = Requested(want)
  /\ \E a \in Answers(asked') :
       wire' = Newest(Abandoned(wire) \o a)
  /\ elapsed' = 0
  /\ sent' = IF inhibit THEN sent + 1 ELSE sent
  /\ stage' = "reading"
  /\ UNCHANGED <<want, armed, recovery, guarding, inhibit, rx, got, slip>>

\* The instruction is not, or not wholly, written: the call returns at once, and
\* neither the guard nor the recovery epoch is touched.  It is still counted.
SendReadFails ==
  /\ stage = "cleared" /\ want # 0
  /\ stage' = "idle" /\ want' = 0
  /\ sent' = IF inhibit THEN sent + 1 ELSE sent
  /\ UNCHANGED <<armed, recovery, guarding, inhibit, got, asked, slip, lineVars>>

\* Every other instruction: a ping, a register, a group write.  One servo
\* may answer it; the SDK's own receive takes the answer or gives up.
SendOther ==
  /\ stage = "cleared" /\ want = 0
  /\ \E a \in {<<>>} \cup {<<Reply(i, 0, 0, TRUE, FALSE)>> : i \in Ids} :
       wire' = Newest(wire \o a)
  /\ sent' = IF inhibit THEN sent + 1 ELSE sent
  /\ stage' = "idle"
  /\ UNCHANGED <<want, armed, recovery, guarding, elapsed, inhibit, rx, got, asked,
                 slip>>

----------------------------------------------------------------------------
\* The receive loop of boundedRead().

TakeBytes ==
  /\ stage = "reading" /\ stage' = "took"
  /\ got' = got \o rx /\ rx' = <<>>
  /\ UNCHANGED <<want, armed, recovery, guarding, elapsed, inhibit, wire, asked, slip,
                 sent>>

\* Packet i of the stream is servo i's, of the length asked for, and whole.
Expected(i, p) == p.id = i /\ p.len = asked /\ p.whole
Malformed == \E i \in DOMAIN got : i > N \/ ~Expected(i, got[i])
Complete == ~Malformed /\ Len(got) = N

FaultExpired == elapsed >= Budget /\ got # <<>>
\* The clock is read after the receive: bytes held at the deadline are refused.
Expired == elapsed >= Budget

EndRead ==
  stage' = "idle" /\ want' = 0 /\ got' = <<>> /\ asked' = 0 /\ rx' = <<>>

\* An answer to an earlier read of the same window that was a recovery read
\* too, and that came only after its guard.
Overdue(p) == p.of = want /\ p.len = want + 1 /\ p.age >= Horizon

Slip ==
  IF \A i \in DOMAIN got : got[i].mine THEN "none"
  ELSE IF \A i \in DOMAIN got : got[i].mine \/ Overdue(got[i]) THEN "overdue" ELSE "stale"

Accept ==
  /\ stage = "took" /\ ~Expired /\ Complete
  /\ recovery' = FALSE
  /\ slip' = IF slip = "none" THEN Slip ELSE slip
  /\ EndRead
  /\ UNCHANGED <<armed, guarding, elapsed, inhibit, wire, sent>>

\* A read cut off in the middle of a packet leaves the rest of it in flight.
Remainders == {wire} \cup
  {[wire EXCEPT ![1].whole = FALSE] : x \in {y \in {wire} : y # <<>>}}

Ambiguous ==
  /\ stage = "took" /\ (Expired \/ Malformed)
  /\ guarding' = TRUE /\ recovery' = TRUE
  /\ wire' \in Remainders
  /\ EndRead
  /\ UNCHANGED <<armed, elapsed, inhibit, slip, sent>>

NeedMore ==
  /\ stage = "took" /\ ~Expired /\ ~Malformed /\ ~Complete
  /\ stage' = "reading"
  /\ UNCHANGED <<want, armed, recovery, guarding, inhibit, got, asked, slip, sent,
                 lineVars>>

----------------------------------------------------------------------------
\* The clock, the line and the owner of the inhibit flag.

Older(s) == [i \in DOMAIN s |-> [s[i] EXCEPT !.age = IF @ < Horizon THEN @ + 1 ELSE @]]

Tick ==
  /\ elapsed' = IF elapsed < Horizon THEN elapsed + 1 ELSE elapsed
  /\ wire' = Older(wire)
  /\ <<elapsed, wire>>' # <<elapsed, wire>>
  /\ UNCHANGED <<stage, want, armed, recovery, guarding, inhibit, rx, got, asked, slip,
                 sent>>

\* Input that arrives outside a read is `Lose`: the SDK discards it before
\* the next instruction, if EndGuard has not.
Arrive ==
  /\ wire # <<>> /\ stage \in {"reading", "took"}
  /\ Len(rx) + Len(got) <= N
  /\ rx' = Append(rx, [Head(wire) EXCEPT !.age = IF @ < Horizon THEN 0 ELSE Horizon])
  /\ wire' = Tail(wire)
  /\ UNCHANGED <<stage, want, armed, recovery, guarding, elapsed, inhibit, got, asked,
                 slip, sent>>

Lose ==
  /\ wire # <<>>
  /\ wire' = Tail(wire)
  /\ UNCHANGED <<stage, want, armed, recovery, guarding, elapsed, inhibit, rx, got, asked,
                 slip, sent>>

Inhibit ==
  /\ ~inhibit /\ inhibit' = TRUE
  /\ UNCHANGED <<stage, want, armed, recovery, guarding, got, asked, slip, sent, lineVars>>

----------------------------------------------------------------------------
Transmit ==
  GiveUp \/ EndGuard \/ LastCheck \/ SendRead \/ SendReadFails \/ SendOther
Receive == TakeBytes \/ Accept \/ Ambiguous \/ NeedMore

PortNext ==
  \/ Arm \/ Disarm
  \/ \E w \in Lens \cup {0} : Begin(w)
  \/ Transmit \/ Receive
  \/ Tick \/ Arrive \/ Lose \/ Inhibit

PortSpec == PortInit /\ [][PortNext]_portVars
FairPortSpec == PortSpec /\ WF_portVars(Transmit) /\ WF_portVars(Receive) /\ WF_portVars(Tick)

----------------------------------------------------------------------------
\* A read does not return an answer to an earlier read, but for one kind, which
\* nothing on the line tells from its own: a recovery read's answer that outlasts
\* the guard, taken by a later recovery read of the same window.  This is the
\* first slip; the reads after it may be an answer behind.
NoStaleReply == slip # "stale"

\* After the inhibit at most the one instruction that had already passed
\* its last check leaves the port.
SilentAfterInhibit == sent <= 1

\* Every transaction ends: in its answer, in its budget, or refused.
TransactionsEnd == stage # "idle" ~> stage = "idle"
====
