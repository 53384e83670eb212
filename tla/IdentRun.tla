------------------------------ MODULE IdentRun ------------------------------
(***************************************************************************)
(* The identification run of src/apps/ident/ident_common.hpp: after an     *)
(* optional capture of the anchor posture it excites one joint at a list   *)
(* of frequencies ("dwells"), takes the probe off after a soft event and   *)
(* tries the dwell once more, and winds down before the watchdog of the    *)
(* session quiesces the arm.  One sample is one Update and one Observe;    *)
(* a duplicate sample re-emits the last command and is a stuttering step.  *)
(***************************************************************************)
EXTENDS Naturals, FiniteSets

CONSTANTS
    N,          \* scheduled dwells
    Joints,     \* joints whose integral the capture latches
    Kinds,      \* options in use: "plain", "capture", "hold"
    Offsets,    \* seconds between the activation and the first sample
    TStop, TQuiesce,                       \* graceful stop, watchdog expiry
    LeadIn, Ramp, HoldMin, HoldMax, Window, Mult, Kill, ReSettle, FinalHold,
    CaptureRamps, JointReady, Quiet, HeldMin, CaptureMax, HoldOnly

(* The constants of the code, in any unit: the ladder from TStop to        *)
(* TQuiesce holds the longest wind-down (lines 107-117).                   *)
ASSUME IdentAssumption ==
    /\ N \in Nat /\ Offsets \subseteq 0..TStop
    /\ {TStop, TQuiesce, LeadIn, Ramp, HoldMin, HoldMax, Window, Mult, Kill, ReSettle,
        FinalHold, JointReady, Quiet, HeldMin, CaptureMax, HoldOnly} \subseteq Nat \ {0}
    /\ CaptureRamps \subseteq Nat /\ HoldMin <= HoldMax
    /\ Kill < Ramp + FinalHold /\ TStop + FinalHold + 1 <= TQuiesce
    /\ TStop + Kill + ReSettle <= TQuiesce + Ramp

Dwells == 1..N

VARIABLES
    kind, offset, wants,   \* options: mode, setup offset, dwells that ask for a longer window
    stage,                 \* "update", "observe", "over"
    now,                   \* time of the sample
    phase, since,          \* phase, and the time it began
    outcome,               \* Outcome
    dwell,                 \* current dwell, 0 before the first
    book,                  \* DwellResult of each dwell
    probe,                 \* the probe torque is not zero
    mult,                  \* length of the granted window
    after,                 \* what follows the kill ramp: "final", "abort", "resettle"
    capEnd, steady, quiet  \* capture: its ramp's end, per-joint and global quiet time

options == <<kind, offset, wants>>
captureVars == <<capEnd, steady, quiet>>
vars == <<options, stage, now, phase, since, outcome, dwell, book, probe, mult, after,
          captureVars>>

Phases == {"Capture", "HoldDiag", "LeadIn", "RampIn", "Hold", "Measure", "RampOut",
           "KillRamp", "ReSettle", "FinalHold", "Done"}

Outcomes == {"Running", "Completed", "DeadlineStop", "SoftAbort", "HardFault"}

Result == [started : BOOLEAN, completed : BOOLEAN, skipped : BOOLEAN,
           retried : BOOLEAN, softs : 0..2]

TypeOK ==
    /\ kind \in Kinds /\ offset \in Offsets /\ wants \subseteq Dwells
    /\ stage \in {"update", "observe", "over"} /\ now \in Nat
    /\ phase \in Phases /\ since \in Nat /\ outcome \in Outcomes
    /\ dwell \in 0..(N + 1) /\ book \in [Dwells -> Result]
    /\ probe \in BOOLEAN /\ mult \in {1, Mult} /\ after \in {"final", "abort", "resettle"}
    /\ capEnd \in Nat /\ steady \in [Joints -> 0..JointReady] /\ quiet \in 0..Quiet

Init ==
    /\ kind \in Kinds /\ offset \in Offsets /\ wants \in SUBSET Dwells
    /\ stage = "update" /\ now = 0 /\ since = 0 /\ outcome = "Running"
    /\ phase = IF kind = "plain" THEN "LeadIn" ELSE "Capture"
    /\ dwell = 0 /\ probe = FALSE /\ mult = 1 /\ after = "resettle"
    /\ book = [k \in Dwells |-> [started |-> FALSE, completed |-> FALSE,
                                 skipped |-> FALSE, retried |-> FALSE, softs |-> 0]]
    /\ capEnd = 0 /\ steady = [j \in Joints |-> 0] /\ quiet = 0

-----------------------------------------------------------------------------
(* The budget.                                                             *)

dwellWorst == Ramp + HoldMax + Window + Ramp

worstFrom(k) == FinalHold + (N + 1 - k) * dwellWorst

admits(requested) == offset + now + requested <= TStop

AdmitsDwell(k) == admits(dwellWorst + worstFrom(k + 1))

InPhase == now - since

Enter(p) == phase' = p /\ since' = now

fail(o) == outcome' = IF outcome = "HardFault" THEN outcome ELSE o

Skipped(b, ks) == [k \in Dwells |-> IF k \in ks THEN [b[k] EXCEPT !.skipped = TRUE] ELSE b[k]]

(* markRestNotRun: what the deadline leaves out. *)
Rest(b, k) == {i \in Dwells : i > k /\ ~b[i].started}

restartDwell(b, k) == book' = [b EXCEPT ![k].started = TRUE] /\ Enter("RampIn")

(* startDwell(k): the dwells from k on without the torque headroom are     *)
(* skipped; the first one left is not admitted, or begins.                 *)
startDwell(b, k) ==
    \E j \in k..(N + 1) :
        /\ \A i \in k..(j - 1) : AdmitsDwell(i)
        /\ dwell' = j
        /\ LET c == Skipped(b, k..(j - 1))
           IN  \/ /\ j > N
                  /\ Enter("FinalHold") /\ book' = c /\ UNCHANGED <<outcome, mult>>
               \/ /\ j <= N /\ ~AdmitsDwell(j)
                  /\ Enter("FinalHold") /\ UNCHANGED mult
                  /\ IF outcome = "Running"
                       THEN book' = Skipped(c, {j} \cup Rest(c, j)) /\ fail("DeadlineStop")
                       ELSE book' = Skipped(c, {j}) /\ UNCHANGED outcome
               \/ /\ j <= N /\ AdmitsDwell(j)
                  /\ restartDwell(c, j) /\ UNCHANGED outcome
                  /\ mult' = IF /\ j \in wants
                                /\ admits((Mult - 1) * Window + dwellWorst + worstFrom(j + 1))
                               THEN Mult ELSE 1

(* enterKill: without a probe there is nothing to remove. *)
enterKill(next) ==
    IF dwell = 0 \/ ~probe
      THEN /\ Enter(IF next = "final" THEN "FinalHold" ELSE "ReSettle")
           /\ probe' = FALSE /\ UNCHANGED after
      ELSE Enter("KillRamp") /\ after' = next /\ UNCHANGED probe

nextDwell(b) == startDwell(b, dwell + 1)

startMeasure == Enter("Measure")

finishMeasure == Enter("RampOut") /\ book' = [book EXCEPT ![dwell].completed = TRUE]

-----------------------------------------------------------------------------
(* The phases, one sample each.                                            *)

(* Fault: a measurement that has begun is left to end. *)
FaultBackstop ==
    /\ outcome = "Running"
    /\ phase \in {"Capture", "HoldDiag", "LeadIn", "RampIn", "Hold"}
    /\ offset + now + Ramp + FinalHold > TStop

(* The graceful deadline: an immediate ramp-out would be late. *)
Backstop ==
    /\ outcome = "Running"
    /\ phase \in {"Capture", "HoldDiag", "LeadIn", "RampIn", "Hold", "Measure"}
    /\ offset + now + Ramp + FinalHold > TStop

DeadlineStop ==
    /\ Backstop
    /\ fail("DeadlineStop")
    /\ book' = Skipped(book, Rest(book, dwell))
    /\ enterKill("final")
    /\ UNCHANGED <<dwell, mult, captureVars>>

Least(a, b) == IF a <= b THEN a ELSE b

Stay == UNCHANGED <<phase, since, outcome, dwell, book, mult, after>>

(* The joints in band and quiet at this sample. *)
Settled == SUBSET Joints

(* Each joint latches its integral once it was in band and quiet long      *)
(* enough; when all have, the whole arm must be so for a while.            *)
Capture ==
    /\ phase = "Capture"
    /\ UNCHANGED <<dwell, book, mult, after, capEnd>> /\ probe' = FALSE
    /\ IF now < capEnd
         THEN quiet' = 0 /\ UNCHANGED <<steady, phase, since, outcome>>
         ELSE \E ready \in Settled :
               /\ steady' = [j \in Joints |->
                     IF j \in ready \/ steady[j] = JointReady
                       THEN Least(steady[j] + 1, JointReady) ELSE 0]
               /\ quiet' = IF (\A j \in Joints : steady'[j] = JointReady) /\ ready = Joints
                             THEN Least(quiet + 1, Quiet) ELSE 0
               /\ IF now - capEnd >= HeldMin /\ quiet' = Quiet
                    THEN Enter(IF kind = "hold" THEN "HoldDiag" ELSE "LeadIn") /\ UNCHANGED outcome
                    ELSE /\ IF now - capEnd >= CaptureMax THEN fail("HardFault")
                                                          ELSE UNCHANGED outcome
                         /\ UNCHANGED <<phase, since>>

(* The hold diagnostic: a joint leaves its band, or after the grace the    *)
(* arm is not quiet.                                                       *)
HoldDiag ==
    /\ phase = "HoldDiag"
    /\ UNCHANGED <<dwell, book, mult, after, captureVars>> /\ probe' = FALSE
    /\ \/ fail("HardFault") /\ UNCHANGED <<phase, since>>
       \/ IF outcome = "Running" /\ InPhase >= HoldOnly
            THEN outcome' = "Completed" /\ phase' = "Done" /\ UNCHANGED since
            ELSE UNCHANGED <<phase, since, outcome>>

LeadInPhase ==
    /\ phase = "LeadIn"
    /\ UNCHANGED <<probe, after, captureVars>>
    /\ IF InPhase >= LeadIn
         THEN startDwell(book, 1)
         ELSE UNCHANGED <<phase, since, outcome, dwell, book, mult>>

(* Fault: one event too many. *)
FaultAborts(b) == b[dwell].softs > 2

Aborts(b) == b[dwell].softs >= 2

(* The phases in which the response of every joint is watched. *)
Watched == phase \in {"RampIn", "Hold", "Measure"}

(* The probe is clipped, or a joint's response exceeds its cap or grows. *)
SoftEvent ==
    /\ Watched /\ ~Backstop
    /\ book' = [book EXCEPT ![dwell].softs = @ + 1]
    /\ Enter("KillRamp") /\ probe' = TRUE
    /\ after' = IF Aborts(book') THEN "abort" ELSE "resettle"
    /\ UNCHANGED <<outcome, dwell, mult, captureVars>>

RampIn ==
    /\ phase = "RampIn"
    /\ probe' = TRUE
    /\ IF InPhase >= Ramp THEN Enter("Hold") ELSE UNCHANGED <<phase, since>>
    /\ UNCHANGED <<outcome, dwell, book, mult, after, captureVars>>

(* Two consecutive estimates of the response agree: from HoldMin on, any   *)
(* sample may tell.                                                        *)
MayConverge == InPhase >= HoldMin

(* The response converges, or the hold times out. *)
Hold ==
    /\ phase = "Hold"
    /\ probe' = TRUE
    /\ \/ MayConverge /\ startMeasure
       \/ InPhase < HoldMax /\ UNCHANGED <<phase, since>>
    /\ UNCHANGED <<outcome, dwell, book, mult, after, captureVars>>

(* The window ends with its last block that counts: one of fewer than five *)
(* samples, or without a solution, does not, so only the backstop bounds   *)
(* how long a window lasts.                                                *)
Measure ==
    /\ phase = "Measure"
    /\ probe' = TRUE
    /\ \/ InPhase >= Window * mult /\ finishMeasure
       \/ UNCHANGED <<phase, since, book>>
    /\ UNCHANGED <<outcome, dwell, mult, after, captureVars>>

RampOut ==
    /\ phase = "RampOut"
    /\ UNCHANGED <<after, captureVars>>
    /\ IF InPhase >= Ramp
         THEN probe' = FALSE /\ nextDwell(book)
         ELSE probe' = TRUE /\ UNCHANGED <<phase, since, outcome, dwell, book, mult>>

KillRamp ==
    /\ phase = "KillRamp"
    /\ UNCHANGED <<dwell, book, mult, after, captureVars>>
    /\ IF InPhase < Kill
         THEN probe' = TRUE /\ UNCHANGED <<phase, since, outcome>>
         ELSE /\ probe' = FALSE
              /\ CASE after = "final" -> Enter("FinalHold") /\ UNCHANGED outcome
                   [] after = "abort" -> fail("SoftAbort") /\ phase' = "Done" /\ UNCHANGED since
                   [] after = "resettle" -> Enter("ReSettle") /\ UNCHANGED outcome

(* One retry at half the amplitude, if it is admitted; the window keeps    *)
(* the length it was granted.                                              *)
ReSettlePhase ==
    /\ phase = "ReSettle"
    /\ probe' = FALSE /\ UNCHANGED <<after, captureVars>>
    /\ IF InPhase < ReSettle
         THEN UNCHANGED <<phase, since, outcome, dwell, book, mult>>
         ELSE IF ~book[dwell].retried /\ AdmitsDwell(dwell)
           THEN /\ restartDwell([book EXCEPT ![dwell].retried = TRUE], dwell)
                /\ UNCHANGED <<outcome, dwell, mult>>
           ELSE nextDwell(book)

(* Fault: whatever ended the schedule, it is complete. *)
FaultFinalOutcome == "Completed"

FinalOutcome == IF outcome = "Running" THEN "Completed" ELSE outcome

FinalHoldPhase ==
    /\ phase = "FinalHold"
    /\ probe' = FALSE
    /\ IF InPhase >= FinalHold
         THEN outcome' = FinalOutcome /\ phase' = "Done"
         ELSE UNCHANGED <<outcome, phase>>
    /\ UNCHANGED <<since, dwell, book, mult, after, captureVars>>

-----------------------------------------------------------------------------
(* A sample.                                                               *)

(* The ramp from where the arm is to the anchor. *)
beginCapture == capEnd' \in CaptureRamps

(* The first one only installs the capture; beyond the envelope it fails. *)
FirstUpdate ==
    /\ stage = "update" /\ now = 0
    /\ stage' = "observe"
    /\ IF phase = "Capture"
         THEN /\ beginCapture
              /\ \/ UNCHANGED outcome
                 \/ fail("HardFault")
         ELSE UNCHANGED <<capEnd, outcome>>
    /\ UNCHANGED <<options, now, phase, since, dwell, book, probe, mult, after, steady, quiet>>

(* supervise: health, deviation, saturation. *)
SuperviseFails ==
    /\ stage = "update" /\ now > 0 /\ outcome = "Running"
    /\ stage' = "observe" /\ fail("HardFault") /\ probe' = FALSE
    /\ UNCHANGED <<options, now, phase, since, dwell, book, mult, after, captureVars>>

advance ==
    /\ stage = "update" /\ now > 0 /\ outcome # "HardFault"
    /\ stage' = "observe" /\ UNCHANGED <<options, now>>
    /\ \/ DeadlineStop
       \/ SoftEvent
       \/ /\ ~Backstop
          /\ \/ Capture \/ HoldDiag \/ LeadInPhase \/ RampIn \/ Hold \/ Measure
             \/ RampOut \/ KillRamp \/ ReSettlePhase \/ FinalHoldPhase

Unmoved == UNCHANGED <<options, phase, since, dwell, book, mult, after, captureVars>>

(* A late command, or a gated or clamped joint. *)
ObserveFails ==
    /\ stage = "observe"
    /\ fail("HardFault") /\ probe' = FALSE /\ stage' = "over"
    /\ Unmoved /\ UNCHANGED now

Observe ==
    /\ stage = "observe"
    /\ IF outcome = "HardFault" \/ phase = "Done"
         THEN stage' = "over" /\ UNCHANGED now
         ELSE stage' = "update" /\ now' = now + 1
    /\ Unmoved /\ UNCHANGED <<outcome, probe>>

(* The runner ends for a reason of its own. *)
RunEnds ==
    /\ stage # "over" /\ stage' = "over"
    /\ Unmoved /\ UNCHANGED <<now, outcome, probe>>

Next ==
    \/ FirstUpdate \/ SuperviseFails \/ advance
    \/ ObserveFails \/ Observe \/ RunEnds

Spec == Init /\ [][Next]_vars

-----------------------------------------------------------------------------
(* The probe is off when the session's graceful stop arrives, and the run  *)
(* has ended by itself before its watchdog quiesces the arm, whatever soft *)
(* events, retries and extended windows it went through.                   *)
InTime ==
    /\ probe => offset + now <= TStop
    /\ stage # "over" => offset + now <= TQuiesce

(* A run that reports a complete schedule has measured every dwell, but    *)
(* those without headroom and those whose retry was denied; one that ends  *)
(* cleanly at the deadline has accounted for those it did not start.       *)
CompletedIsComplete ==
    /\ outcome = "Completed" =>
          \A k \in Dwells : \/ book[k].completed \/ book[k].skipped \/ kind = "hold"
                            \/ book[k].softs = 1 /\ ~book[k].retried
    /\ phase = "Done" /\ outcome \in {"Completed", "DeadlineStop"} =>
          \A k \in Dwells : book[k].started \/ book[k].skipped \/ kind = "hold"

(* The second soft event of a dwell takes the probe off for good. *)
SecondEventEnds ==
    \A k \in Dwells : book[k].softs >= 2 => phase \in {"KillRamp", "Done"} /\ k = dwell

=============================================================================
