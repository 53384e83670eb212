------------------------ MODULE LatencySessionProofs ------------------------
(***************************************************************************)
(* Proofs about LatencySession, for every set of values and every list of  *)
(* runs: a starting value that a tool changed is restored or its loss is   *)
(* told, a foreign trace instance is never removed, and no run passes      *)
(* whose recorders ended under it.                                         *)
(***************************************************************************)
EXTENDS LatencySession, TLAPS

(* Whose instance it is, as far as the session says it owns one. *)
OwnedInv ==
    /\ tscOwed = 1 => instance = "ours"
    /\ pc = "started" /\ startStatus \in {0, 4} => instance = "ours"

(* How the news that a recorder ended reaches the verdict. *)
WitnessInv ==
    /\ pc \in RunSteps => outcome = "none"
    /\ pc \in {"record", "instance", "started", "verdict"} => ~lost
    /\ pc \in {"load", "probe"} /\ lost => running = "ended"
    /\ pc \in {"ended", "check"} /\ lost => problem

(* Until the cleanup is over, whoever touched the timer owes its value. *)
DebtInv ==
    /\ pc = "ready" => ~touched
    /\ pc \notin {"closing", "gone"} => (touched => owed)
    /\ pc \in {"closing", "gone"} /\ touched /\ ~owed => InEffect(orig)
    /\ pc \in {"closing", "gone"} /\ touched /\ owed => gaveUp
    /\ pc = "closing" /\ touched /\ owed => ~cleanupOk
    /\ pc = "gone" /\ touched /\ owed => status # 0

(* An instance left behind is known, or an error ended the session. *)
LeftInv ==
    /\ pc = "ready" => instance # "ours"
    /\ instance = "ours" => program = "session"
    /\ pc \in HoldSteps => program = "hold"
    /\ pc \in RunSteps \cup {"next"} => program = "session"
    /\ pc \in RunSteps \cup {"ready", "next"} => status = 0
    /\ instance = "ours" => tscOwed = 1 \/ pc = "started" \/ status \in {1, 130}
    /\ pc = "gone" /\ instance = "ours" => status # 0

IInv == TypeOK /\ OwnedInv /\ WitnessInv /\ DebtInv /\ LeftInv /\ PassIsWitnessed

-----------------------------------------------------------------------------
(* The types.                                                              *)

(* Each run of a list is a record of its type.                             *)
LEMMA RunsTyped ==
    ASSUME TypeOK, k < Len(runs)
    PROVE  runs[k + 1] \in RunType /\ k + 1 \in 0..Len(runs)
BY RunListsAssumption, SMT DEF TypeOK

(* The adapter keeps its type under every write.                           *)
LEMMA WritesTyped ==
    ASSUME TypeOK, NEW ms \in Values
    PROVE  /\ Written(ms) \in Timers
           /\ NotWritten(ms) \subseteq Timers
<1>1. timer \in Timers /\ 1 \in Values
  BY ValuesAssumption DEF TypeOK
<1>2. Written(ms) \in Timers
  BY <1>1 DEF Written, Timers
<1>3. [timer EXCEPT !.sysfs = ms] \in Timers
  BY <1>1 DEF Timers
<1> QED
  BY <1>1, <1>2, <1>3 DEF NotWritten

(* What a read finds is a truth value.                                     *)
LEMMA FoundTyped == ASSUME NEW ms PROVE Found(ms) \subseteq BOOLEAN
BY DEF Found, InEffect

(* The end of a cleanup keeps the types.                                   *)
LEMMA EndsTyped ==
    ASSUME TypeOK, NEW ok \in BOOLEAN, CleanupEnds(ok)
    PROVE  /\ pc' \in {"verify", "closing"} /\ masked' \in BOOLEAN
           /\ owed' \in BOOLEAN /\ touched' \in BOOLEAN /\ gaveUp' \in BOOLEAN
           /\ status' \in {0, 1, 2, 3, 130} /\ cleanupOk' \in BOOLEAN
<1>1. status' \in {status, 0, 3} /\ pc' \in {"verify", "closing"}
  BY DEF CleanupEnds
<1>2. masked' \in BOOLEAN /\ touched' \in BOOLEAN /\ cleanupOk' \in BOOLEAN
  BY DEF CleanupEnds, TypeOK
<1>3. owed' \in BOOLEAN /\ gaveUp' \in BOOLEAN
  BY Zenon DEF CleanupEnds
<1> QED
  BY <1>1, <1>2, <1>3 DEF TypeOK

(* The initial state is well typed. *)
LEMMA TypeInit == Init => TypeOK
<1> SUFFICES ASSUME Init PROVE TypeOK
  OBVIOUS
<1>1. WorkingMs \in Values
  BY ValuesAssumption DEF WorkingMs
<1>2. k \in 0..Len(runs)
  BY RunListsAssumption DEF Init
<1> QED
  BY <1>1, <1>2 DEF Init, TypeOK

(* Every step keeps the types. *)
LEMMA TypeStep == TypeOK /\ [Next]_vars => TypeOK'
<1> SUFFICES ASSUME TypeOK, [Next]_vars PROVE TypeOK'
  OBVIOUS
<1> USE DEF HoldSteps, RunSteps, CleanupSteps
<1>1. CASE Hold
  <2>1. WorkingMs \in Values /\ 0 \in Values
    BY ValuesAssumption DEF WorkingMs
  <2>2. CASE HoldRefused
    BY <2>2 DEF HoldRefused, TypeOK, adapter, debt, tracing, run
  <2>3. CASE HoldStarts
    <3>1. /\ UNCHANGED <<program, runs, masked, adapter, k, tracing, run>>
          /\ \/ Owe /\ Step("ready", "baseline")
             \/ Cleanup(2) /\ UNCHANGED debt
      BY <2>3 DEF HoldStarts
    <3>2. CASE Owe /\ Step("ready", "baseline")
      BY <3>1, <3>2 DEF TypeOK, Owe, Step, adapter, exit, tracing, run
    <3>3. CASE Cleanup(2) /\ UNCHANGED debt
      BY <3>1, <3>3 DEF TypeOK, Cleanup, adapter, debt, tracing, run
    <3> QED
      BY <3>1, <3>2, <3>3
  <2>4. CASE HoldPings
    BY <2>4 DEF HoldPings, TypeOK, Step, Abort, Cleanup, adapter, debt, exit, tracing, run
  <2>5. CASE HoldZero
    BY <2>1, <2>5, WritesTyped
    DEF HoldZero, TypeOK, Step, Abort, Cleanup, Owe, exit, tracing, run
  <2>6. CASE HoldSwitches
    BY <2>1, <2>6, WritesTyped
    DEF HoldSwitches, TypeOK, Step, Owe, exit, tracing, run
  <2>7. CASE HoldInterrupted
    BY <2>7 DEF HoldInterrupted, TypeOK, Cleanup, adapter, debt, tracing, run
  <2>8. CASE HoldCloses
    BY <2>8 DEF HoldCloses, TypeOK, adapter, debt, tracing, run
  <2> QED
    BY <1>1, <2>2, <2>3, <2>4, <2>5, <2>6, <2>7, <2>8 DEF Hold
<1>2. CASE Session
  <2> USE DEF TypeOK, Finishing, StopSession, adapter, debt, exit, tracing, run
  <2>1. CASE SessionRefused \/ AllDone \/ SessionInterrupted
    BY <2>1 DEF SessionRefused, AllDone, SessionInterrupted
  <2>2. CASE SessionStarts
    BY <2>2 DEF SessionStarts, Timers
  <2>3. CASE RunSkipped
    BY <2>3, RunsTyped DEF RunSkipped
  <2>4. CASE RunBegins
    <3>1. k < Len(runs) /\ runs[k + 1] \in RunType /\ k + 1 \in 0..Len(runs)
      BY <2>4, RunsTyped DEF RunBegins
    <3>2. runs[k + 1].step \in Values \cup {NoStep}
      BY <3>1 DEF RunType
    <3>3. timer' \in Timers /\ now' \in Values
      BY <2>4, <3>2, WritesTyped DEF RunBegins
    <3>4. owed' \in BOOLEAN /\ touched' \in BOOLEAN
      BY <2>4 DEF RunBegins
    <3>5. /\ pc' \in {"finish", "record"} /\ status' \in {status, 1}
          /\ outcome' \in {"none", "stop"}
          /\ lost' \in {lost, FALSE} /\ problem' \in {problem, FALSE}
          /\ running' = running /\ cleanupOk' = cleanupOk
      BY <2>4 DEF RunBegins
    <3>6. UNCHANGED <<program, runs, masked, orig, gaveUp, tracing>> /\ k' = k + 1
      BY <2>4 DEF RunBegins
    <3>7. /\ lost' \in BOOLEAN /\ problem' \in BOOLEAN
      BY <3>5, Zenon
    <3>8. pc' \in HoldSteps \cup RunSteps \cup CleanupSteps
                  \cup {"ready", "next", "finish", "closing", "gone"}
      BY <3>5
    <3> QED
      BY <3>1, <3>3, <3>4, <3>5, <3>6, <3>7, <3>8
  <2>5. CASE Record \/ Load
    BY <2>5 DEF Record, Load
  <2>8. CASE Probe
    <3>1. problem' \in BOOLEAN
      BY <2>8, Zenon DEF Probe, Ended
    <3> QED
      BY <2>8, <3>1 DEF Probe
  <2>9. CASE CheckRun
    <3>1. /\ UNCHANGED <<program, runs, masked, adapter, debt, k, tracing>>
          /\ \/ pc' = "verdict" /\ UNCHANGED <<exit, run>>
             \/ StopSession
      BY <2>9 DEF CheckRun
    <3> QED
      BY <3>1
  <2>10. CASE Verdict
    BY <2>10 DEF Verdict
  <2>11. CASE RecorderEnds
    <3>1. lost' \in BOOLEAN
      BY <2>11, Zenon DEF RecorderEnds
    <3> QED
      BY <2>11, <3>1 DEF RecorderEnds
  <2>6. CASE StartTool \/ Started
    BY <2>6 DEF StartTool, Started, Ownership
  <2>7. ASSUME Remove
        PROVE  instance' \in {"none", "ours", "other"} /\ tscOwed' \in {0, 1, 2}
    BY <2>7 DEF Remove
  <2>12. CASE StopRecorders
    <3>1. problem' \in BOOLEAN
      BY <2>12, Zenon DEF StopRecorders
    <3> QED
      BY <2>7, <2>12, <3>1 DEF StopRecorders
  <2>13. CASE Finish
    BY <2>7, <2>13 DEF Finish
  <2>14. CASE SessionCloses
    <3>1. status' \in {status, 3}
      BY <2>14 DEF SessionCloses
    <3>2. UNCHANGED <<program, runs, masked, adapter, debt, cleanupOk, k, startStatus, run>>
          /\ pc' = "gone" /\ Remove
      BY <2>14 DEF SessionCloses
    <3> QED
      BY <2>7, <3>1, <3>2
  <2> QED
    BY <1>2, <2>1, <2>2, <2>3, <2>4, <2>5, <2>6, <2>8, <2>9, <2>10, <2>11,
       <2>12, <2>13, <2>14 DEF Session
<1>3. CASE Verify \/ Recheck
  <2>1. /\ UNCHANGED <<program, runs, adapter, k, tracing, run>>
        /\ \/ \E ok \in BOOLEAN : CleanupEnds(ok)
           \/ pc' = "restore" /\ UNCHANGED <<masked, debt, exit>>
    BY <1>3, FoundTyped DEF Verify, Recheck
  <2>2. CASE \E ok \in BOOLEAN : CleanupEnds(ok)
    BY <2>1, <2>2, EndsTyped DEF TypeOK, adapter, tracing, run
  <2> QED
    BY <2>1, <2>2 DEF TypeOK, adapter, debt, exit, tracing, run
<1>4. CASE Restore
  <2>1. timer' \in Timers
    <3>1. orig \in Values
      BY DEF TypeOK
    <3> QED
      BY <1>4, <3>1, WritesTyped DEF Restore
  <2>2. CASE \E ok \in BOOLEAN : CleanupEnds(ok)
    BY <1>4, <2>1, <2>2, EndsTyped DEF TypeOK, Restore, tracing, run
  <2>3. CASE pc' = "recheck" /\ UNCHANGED <<masked, debt, exit>>
    BY <1>4, <2>1, <2>3 DEF TypeOK, Restore, debt, exit, tracing, run
  <2> QED
    BY <1>4, <2>2, <2>3 DEF Restore
<1>5. CASE Disturb
  BY <1>5 DEF TypeOK, Disturb, debt, exit, tracing, run
<1>6. CASE UNCHANGED vars
  BY <1>6 DEF TypeOK, vars, adapter, debt, exit, tracing, run
<1> QED
  BY <1>1, <1>2, <1>3, <1>4, <1>5, <1>6 DEF Next

(* Every variable keeps its type.                                          *)
THEOREM TypeCorrect == Spec => []TypeOK
BY TypeInit, TypeStep, PTL DEF Spec

-----------------------------------------------------------------------------
(* The trace instance.                                                     *)

(* Every step keeps who owns the trace instance. *)
LEMMA OwnedStep == TypeOK /\ OwnedInv /\ [Next]_vars => OwnedInv'
<1> SUFFICES ASSUME TypeOK, OwnedInv, [Next]_vars PROVE OwnedInv'
  OBVIOUS
<1> USE DEF OwnedInv
<1>1. CASE StartTool
  BY <1>1 DEF StartTool
<1>2. CASE Started
  <2>1. tscOwed' = 1 => startStatus \in {0, 4}
    BY <1>2 DEF Started, Ownership, TypeOK
  <2>2. pc = "started" /\ UNCHANGED <<instance, startStatus>> /\ pc' # "started"
    BY <1>2 DEF Started, StopSession, Finishing
  <2> QED
    BY <2>1, <2>2
<1>3. CASE StopRecorders \/ Finish \/ SessionCloses
  <2>1. Remove /\ pc' # "started"
    BY <1>3 DEF StopRecorders, Finish, SessionCloses
  <2>2. tscOwed' = 1 => instance' = "ours"
    BY <2>1 DEF Remove
  <2> QED
    BY <2>1, <2>2
<1>4. ASSUME UNCHANGED tracing, pc' # "started" \/ pc' = pc
      PROVE  OwnedInv'
  BY <1>4 DEF tracing
<1>5. CASE Hold
  BY <1>4, <1>5 DEF Hold, HoldRefused, HoldStarts, HoldPings, HoldZero, HoldSwitches,
                    HoldInterrupted, HoldCloses, Step, Abort, Cleanup
<1>6. CASE SessionRefused \/ SessionStarts \/ RunSkipped \/ RunBegins \/ Record
           \/ Load \/ RecorderEnds \/ Probe \/ CheckRun \/ Verdict \/ AllDone
           \/ SessionInterrupted
  BY <1>4, <1>6 DEF SessionRefused, SessionStarts, RunSkipped, RunBegins, Record,
                    Load, RecorderEnds, Probe, CheckRun, Verdict, AllDone,
                    SessionInterrupted, StopSession, Finishing
<1>7. CASE Verify \/ Restore \/ Recheck \/ Disturb
  BY <1>4, <1>7 DEF Verify, Restore, Recheck, Disturb, CleanupEnds
<1>8. CASE UNCHANGED vars
  BY <1>4, <1>8 DEF vars
<1> QED
  BY <1>1, <1>2, <1>3, <1>5, <1>6, <1>7, <1>8 DEF Next, Session

(* A step leaves the instance of somebody else.                            *)
LEMMA ForeignStep ==
    ASSUME TypeOK, OwnedInv, [Next]_vars, instance = "other"
    PROVE  instance' = "other"
<1> USE DEF OwnedInv
<1>1. CASE StartTool
  BY <1>1 DEF StartTool
<1>2. CASE StopRecorders \/ Finish \/ SessionCloses
  BY <1>2 DEF StopRecorders, Finish, SessionCloses, Remove
<1>3. CASE Hold
  BY <1>3 DEF Hold, HoldRefused, HoldStarts, HoldPings, HoldZero, HoldSwitches,
              HoldInterrupted, HoldCloses, tracing
<1>4. CASE SessionRefused \/ SessionStarts \/ RunSkipped \/ RunBegins \/ Record
           \/ Started \/ Load \/ RecorderEnds \/ Probe \/ CheckRun \/ Verdict
           \/ AllDone \/ SessionInterrupted
  BY <1>4 DEF SessionRefused, SessionStarts, RunSkipped, RunBegins, Record, Started,
              Load, RecorderEnds, Probe, CheckRun, Verdict, AllDone,
              SessionInterrupted, tracing
<1>5. CASE Verify \/ Restore \/ Recheck \/ Disturb
  BY <1>5 DEF Verify, Restore, Recheck, Disturb, tracing
<1>6. CASE UNCHANGED vars
  BY <1>6 DEF vars, tracing
<1> QED
  BY <1>1, <1>2, <1>3, <1>4, <1>5, <1>6 DEF Next, Session

-----------------------------------------------------------------------------
(* What a run that passes rests on.                                        *)

(* Every step keeps what the witnesses of a run say. *)
LEMMA WitnessStep ==
    TypeOK /\ WitnessInv /\ PassIsWitnessed /\ [Next]_vars
        => WitnessInv' /\ PassIsWitnessed'
<1> SUFFICES ASSUME TypeOK, WitnessInv, PassIsWitnessed, [Next]_vars
             PROVE  WitnessInv' /\ PassIsWitnessed'
  OBVIOUS
<1> USE DEF WitnessInv, PassIsWitnessed, HoldSteps, RunSteps, CleanupSteps
<1>1. ASSUME pc' \notin RunSteps, UNCHANGED run
      PROVE  WitnessInv' /\ PassIsWitnessed'
  BY <1>1 DEF run
<1>2. ASSUME StopSession, pc \in RunSteps \cup {"next"}
      PROVE  WitnessInv' /\ PassIsWitnessed'
  BY <1>2 DEF StopSession, Finishing
<1>3. CASE Hold
  BY <1>1, <1>3 DEF Hold, HoldRefused, HoldStarts, HoldPings, HoldZero, HoldSwitches,
                    HoldInterrupted, HoldCloses, Step, Abort, Cleanup
<1>4. CASE Verify \/ Restore \/ Recheck
  BY <1>1, <1>4 DEF Verify, Restore, Recheck, CleanupEnds
<1>5. CASE SessionRefused \/ SessionStarts \/ SessionInterrupted \/ AllDone
           \/ SessionCloses
  BY <1>1, <1>5 DEF SessionRefused, SessionStarts, SessionInterrupted, AllDone,
                    SessionCloses, Finishing
<1>6. CASE RunSkipped
  BY <1>2, <1>6 DEF RunSkipped
<1>7. CASE RunBegins
  <2>1. CASE StopSession
    BY <1>2, <1>7, <2>1 DEF RunBegins
  <2>2. CASE pc' = "record" /\ ~lost' /\ outcome' = "none"
    BY <2>2
  <2> QED
    BY <1>7, <2>1, <2>2 DEF RunBegins
<1>8. CASE Record \/ Load
  BY <1>2, <1>8 DEF Record, Load, run
<1>9. CASE StartTool
  BY <1>9 DEF StartTool, run
<1>10. CASE Started
  BY <1>2, <1>10 DEF Started, run
<1>11. CASE RecorderEnds
  BY <1>11 DEF RecorderEnds
<1>12. CASE Probe
  BY <1>12 DEF Probe, Ended
<1>13. CASE StopRecorders
  <2>1. problem => problem'
    BY <1>13, Zenon DEF StopRecorders
  <2>2. pc = "ended" /\ pc' = "check" /\ UNCHANGED <<lost, outcome>>
    BY <1>13 DEF StopRecorders
  <2> QED
    BY <2>1, <2>2
<1>14. CASE CheckRun
  BY <1>2, <1>14 DEF CheckRun, run
<1>15. CASE Verdict
  BY <1>2, <1>15 DEF Verdict, Finishing
<1>16. CASE Finish
  BY <1>16 DEF Finish
<1>17. CASE Disturb \/ UNCHANGED vars
  BY <1>17 DEF Disturb, vars, run
<1> QED
  BY <1>3, <1>4, <1>5, <1>6, <1>7, <1>8, <1>9, <1>10, <1>11, <1>12, <1>13, <1>14,
     <1>15, <1>16, <1>17 DEF Next, Session

-----------------------------------------------------------------------------
(* The value owed to the adapter.                                          *)

(* The cleanup ends with the value restored, or still owed and given up.   *)
LEMMA CleanupPays ==
    ASSUME TypeOK, DebtInv, pc \in CleanupSteps, NEW ok \in BOOLEAN, CleanupEnds(ok),
           ok => ~owed \/ InEffect(orig)', UNCHANGED orig
    PROVE  DebtInv'
<1> USE DEF DebtInv, CleanupSteps
<1>1. touched' = touched /\ (touched => owed)
  BY DEF CleanupEnds
<1>2. CASE ok
  <2>1. pc' = "closing" /\ ~owed'
    BY <1>2 DEF CleanupEnds
  <2> QED
    BY <1>1, <1>2, <2>1
<1>3. CASE ~ok
  <2>1. pc' \in {"verify", "closing"} /\ (owed => owed') /\ gaveUp' /\ ~cleanupOk'
    BY <1>3 DEF CleanupEnds
  <2> QED
    BY <1>1, <2>1
<1> QED
  BY <1>2, <1>3

(* What is not the cleanup or the way out only adds to the debt.           *)
LEMMA WorkOwes ==
    ASSUME DebtInv, pc \notin {"closing", "gone"}, pc' \notin {"closing", "gone", "ready"},
           owed => owed', touched' => touched \/ owed'
    PROVE  DebtInv'
BY DEF DebtInv

(* Every step keeps what the tool owes the adapter. *)
LEMMA DebtStep == TypeOK /\ DebtInv /\ [Next]_vars => DebtInv'
<1> SUFFICES ASSUME TypeOK, DebtInv, [Next]_vars PROVE DebtInv'
  OBVIOUS
<1> USE DEF HoldSteps, RunSteps, CleanupSteps
<1>1. CASE HoldRefused
  BY <1>1 DEF HoldRefused, DebtInv, debt
<1>2. CASE HoldStarts
  BY <1>2, WorkOwes DEF debt, Owe, HoldStarts, Step, Cleanup
<1>3. CASE HoldPings \/ HoldInterrupted
  BY <1>3, WorkOwes DEF debt, Owe, HoldPings, HoldInterrupted, Step, Abort, Cleanup
<1>4. CASE HoldZero \/ HoldSwitches
  BY <1>4, WorkOwes DEF debt, Owe, HoldZero, HoldSwitches, Step, Abort, Cleanup
<1>5. CASE HoldCloses
  <2>1. ~cleanupOk => status' # 0
    BY <1>5 DEF HoldCloses
  <2> QED
    BY <1>5, <2>1 DEF HoldCloses, DebtInv, adapter, debt, InEffect
<1>6. CASE SessionRefused \/ SessionStarts \/ RunSkipped \/ AllDone
           \/ SessionInterrupted \/ Finish
  BY <1>6, WorkOwes DEF debt, Owe, SessionRefused, SessionStarts, RunSkipped, AllDone,
                        SessionInterrupted, Finish, StopSession, Finishing, exit
<1>7. CASE RunBegins
  <2>1. (owed => owed') /\ (touched' => touched \/ owed')
    BY <1>7 DEF RunBegins, Owes
  <2>2. pc = "next" /\ pc' \in {"finish", "record"}
    BY <1>7 DEF RunBegins, StopSession, Finishing
  <2> QED
    BY <2>1, <2>2, WorkOwes
<1>8. CASE Record \/ StartTool \/ Started \/ Load
  BY <1>8, WorkOwes DEF debt, Owe, Record, StartTool, Started, Load, StopSession, Finishing
<1>9. CASE RecorderEnds
  BY <1>9, WorkOwes DEF debt, RecorderEnds
<1>17. CASE Probe \/ StopRecorders
  <2>1. UNCHANGED debt /\ pc \in RunSteps /\ pc' \in {"ended", "check"}
    <3>1. CASE Probe
      BY <3>1, Zenon DEF Probe
    <3>2. CASE StopRecorders
      BY <3>2, Zenon DEF StopRecorders
    <3> QED
      BY <1>17, <3>1, <3>2
  <2> QED
    BY <2>1, WorkOwes DEF debt
<1>16. CASE CheckRun \/ Verdict
  <2>1. UNCHANGED debt /\ pc \in RunSteps /\ pc' \in {"verdict", "finish", "next"}
    BY <1>16 DEF CheckRun, Verdict, StopSession, Finishing
  <2> QED
    BY <2>1, WorkOwes DEF debt
<1>10. CASE SessionCloses
  <2>1. ~cleanupOk => status' # 0
    BY <1>10 DEF SessionCloses
  <2> QED
    BY <1>10, <2>1 DEF SessionCloses, DebtInv, adapter, debt, InEffect
<1>11. CASE Verify
  <2>1. pc = "verify" /\ UNCHANGED <<timer, orig>>
    BY <1>11 DEF Verify, adapter
  <2>2. CASE ~owed /\ CleanupEnds(TRUE)
    BY <2>1, <2>2, CleanupPays
  <2>3. ASSUME NEW seen \in Found(orig), owed,
               IF Verified(seen) THEN CleanupEnds(TRUE)
               ELSE pc' = "restore" /\ UNCHANGED <<masked, debt, exit>>
        PROVE  DebtInv'
    <3>1. CASE seen
      <4>1. InEffect(orig)'
        BY <2>1, <2>3, <3>1 DEF Found, InEffect
      <4> QED
        BY <2>1, <2>3, <3>1, <4>1, CleanupPays DEF Verified
    <3>2. CASE ~seen
      BY <2>1, <2>3, <3>2, WorkOwes DEF debt, Owe, Verified
    <3> QED
      BY <3>1, <3>2
  <2> QED
    BY <1>11, <2>2, <2>3 DEF Verify
<1>12. CASE Restore
  <2>1. CASE CleanupEnds(FALSE)
    BY <1>12, <2>1, CleanupPays DEF Restore
  <2>2. CASE pc' = "recheck" /\ UNCHANGED <<masked, debt, exit>>
    BY <1>12, <2>2, WorkOwes DEF debt, Owe, Restore
  <2> QED
    BY <1>12, <2>1, <2>2 DEF Restore
<1>13. CASE Recheck
  <2>1. PICK seen \in Found(orig) : CleanupEnds(seen)
    BY <1>13 DEF Recheck
  <2>2. seen \in BOOLEAN /\ pc = "recheck" /\ UNCHANGED <<timer, orig>>
    BY <1>13, FoundTyped DEF Recheck, adapter
  <2>3. seen => InEffect(orig)'
    BY <2>1, <2>2 DEF Found, InEffect
  <2> QED
    BY <2>1, <2>2, <2>3, CleanupPays
<1>14. CASE Disturb
  BY <1>14 DEF Disturb, DebtInv, debt, exit
<1>15. CASE UNCHANGED vars
  BY <1>15 DEF vars, DebtInv, adapter, debt, exit, InEffect
<1> QED
  BY <1>1, <1>2, <1>3, <1>4, <1>5, <1>6, <1>7, <1>8, <1>9, <1>10, <1>11, <1>12,
     <1>13, <1>14, <1>15, <1>16, <1>17 DEF Next, Hold, Session

-----------------------------------------------------------------------------
(* What is left of the session's own instance.                             *)

(* A step after which the session is in an error keeps LeftInv. *)
LEMMA ErrorKeepsLeft ==
    ASSUME LeftInv, program' = program, pc' \notin RunSteps \cup HoldSteps \cup {"ready", "next"},
           status' \in {1, 130}, instance' = instance
    PROVE  LeftInv'
BY DEF LeftInv

(* Every step keeps what may be left of the instance. *)
LEMMA LeftStep == TypeOK /\ OwnedInv /\ LeftInv /\ [Next]_vars => LeftInv'
<1> SUFFICES ASSUME TypeOK, OwnedInv, LeftInv, [Next]_vars PROVE LeftInv'
  OBVIOUS
<1> USE DEF HoldSteps, RunSteps, CleanupSteps
<1>1. CASE Hold
  <2>1. program = "hold" /\ UNCHANGED <<program, instance>>
    BY <1>1 DEF LeftInv, Hold, HoldRefused, HoldStarts, HoldPings, HoldZero,
                HoldSwitches, HoldInterrupted, HoldCloses, Abort, Step, tracing
  <2>2. pc' \notin RunSteps \cup {"ready", "next"}
    BY <1>1 DEF Hold, HoldRefused, HoldStarts, HoldPings, HoldZero, HoldSwitches,
                HoldInterrupted, HoldCloses, Abort, Step, Cleanup
  <2> QED
    BY <2>1, <2>2 DEF LeftInv
<1>2. ASSUME StopSession, UNCHANGED <<program, instance>>
      PROVE  LeftInv'
  BY <1>2, ErrorKeepsLeft DEF StopSession, Finishing
<1>3. CASE SessionRefused \/ SessionStarts
  BY <1>3 DEF SessionRefused, SessionStarts, Finishing, LeftInv, tracing, exit
<1>4. CASE SessionInterrupted
  BY <1>4, ErrorKeepsLeft DEF SessionInterrupted, Finishing, tracing
<1>5. CASE RunSkipped \/ RunBegins \/ Record \/ Load \/ CheckRun
  <2>1. pc \in {"next"} \cup RunSteps /\ pc # "started"
    BY <1>5 DEF RunSkipped, RunBegins, Record, Load, CheckRun
  <2>2. UNCHANGED <<program, instance, tscOwed>>
    BY <1>5 DEF RunSkipped, RunBegins, Record, Load, CheckRun, tracing
  <2>3. StopSession \/ (UNCHANGED status /\ pc' \in {"next"} \cup RunSteps)
    BY <1>5 DEF RunSkipped, RunBegins, Record, Load, CheckRun, exit
  <2> QED
    BY <1>2, <2>1, <2>2, <2>3 DEF LeftInv
<1>6. CASE StartTool
  <2>1. pc = "instance" /\ pc' = "started" /\ UNCHANGED <<program, status>>
    BY <1>6 DEF StartTool, exit
  <2>2. program = "session"
    BY <1>6 DEF StartTool, LeftInv
  <2> QED
    BY <2>1, <2>2 DEF LeftInv
<1>7. CASE Started
  <2>1. CASE StopSession
    BY <1>2, <1>7, <2>1 DEF Started
  <2>2. CASE startStatus = 0 /\ pc' = "load" /\ UNCHANGED <<exit, run>>
    <3>1. tscOwed' = 1 /\ pc = "started" /\ UNCHANGED <<program, instance>>
      BY <1>7, <2>2 DEF Started, Ownership
    <3> QED
      BY <2>2, <3>1 DEF LeftInv, exit
  <2> QED
    BY <1>7, <2>1, <2>2 DEF Started
<1>8. CASE RecorderEnds \/ Probe
  BY <1>8 DEF RecorderEnds, Probe, LeftInv, tracing, exit
<1>9. ASSUME Remove
      PROVE  /\ instance' \in {instance, "none"}
             /\ instance' = "ours" => (tscOwed = 1 /\ tscOwed' = 1) \/ tscOwed # 1
  BY <1>9 DEF Remove
<1>10. CASE StopRecorders
  <2>1. pc = "ended" /\ pc' = "check" /\ Remove /\ program' = program /\ exit' = exit
    BY <1>10, Zenon DEF StopRecorders
  <2>2. status' = status
    BY <2>1 DEF exit
  <2> QED
    BY <1>9, <2>1, <2>2 DEF LeftInv
<1>15. CASE Finish
  <2>1. pc' = "verify" /\ pc = "finish" /\ Remove /\ program' = program /\ status' = status
    BY <1>15 DEF Finish, exit
  <2> QED
    BY <1>9, <2>1 DEF LeftInv
<1>11. CASE SessionCloses
  <2>1. /\ pc = "closing" /\ pc' = "gone" /\ Remove /\ UNCHANGED program
        /\ status' = IF status = 0 /\ (tscOwed' # 0 \/ ~cleanupOk) THEN 3 ELSE status
    BY <1>11 DEF SessionCloses
  <2>2. CASE instance' = "ours" /\ tscOwed' = 1
    <3>1. status' # 0
      BY <2>1, <2>2
    <3> QED
      BY <1>9, <2>1, <2>2, <3>1 DEF LeftInv
  <2>3. CASE instance' = "ours" /\ tscOwed' # 1
    <3>1. status \in {1, 130}
      BY <1>9, <2>1, <2>3 DEF LeftInv
    <3> QED
      BY <1>9, <2>1, <2>3, <3>1 DEF LeftInv
  <2>4. CASE instance' # "ours"
    BY <2>1, <2>4 DEF LeftInv
  <2> QED
    BY <2>2, <2>3, <2>4
<1>12. CASE Verdict \/ AllDone
  <2>1. /\ UNCHANGED <<program, instance, tscOwed>>
        /\ pc \in {"verdict", "next"}
        /\ StopSession \/ pc' \in {"finish", "next"}
        /\ pc' = "next" => UNCHANGED status
    BY <1>12 DEF Verdict, AllDone, StopSession, Finishing, exit, tracing
  <2> QED
    BY <1>2, <2>1 DEF LeftInv
<1>13. CASE Verify \/ Restore \/ Recheck
  <2>1. /\ UNCHANGED <<program, instance, tscOwed>>
        /\ pc \in CleanupSteps /\ pc' \in CleanupSteps \cup {"closing"}
        /\ status \in {1, 130} => status' = status
    BY <1>13 DEF Verify, Restore, Recheck, CleanupEnds, exit, tracing
  <2> QED
    BY <2>1 DEF LeftInv
<1>14. CASE Disturb \/ UNCHANGED vars
  BY <1>14 DEF Disturb, vars, LeftInv, exit, tracing
<1> QED
  BY <1>1, <1>3, <1>4, <1>5, <1>6, <1>7, <1>8, <1>10, <1>11, <1>12, <1>13, <1>14,
     <1>15 DEF Next, Session

-----------------------------------------------------------------------------
(* The theorems.                                                           *)

(* The inductive invariant holds at the start. *)
LEMMA InvInit == Init => IInv
<1> SUFFICES ASSUME Init PROVE IInv
  OBVIOUS
<1> QED
  BY TypeInit DEF Init, IInv, OwnedInv, WitnessInv, DebtInv, LeftInv, PassIsWitnessed,
                  HoldSteps, RunSteps

(* Every step keeps the inductive invariant. *)
LEMMA InvStep == IInv /\ [Next]_vars => IInv'
BY TypeStep, OwnedStep, WitnessStep, DebtStep, LeftStep DEF IInv

(* However a tool ends, the latency timer it had a hand in is back at the  *)
(* starting value, or the exit status tells that restoring it failed; and  *)
(* status 0 means that the session's trace instance is gone.               *)
THEOREM RestoredAtTheEnd == Spec => []EndsRestored
<1>1. IInv => EndsRestored
  BY DEF IInv, DebtInv, LeftInv, EndsRestored, TypeOK
<1> QED
  BY InvInit, InvStep, <1>1, PTL DEF Spec

(* A run passes only if no recorder and no load ended before its probe.    *)
THEOREM PassWitnessed == Spec => []PassIsWitnessed
<1>1. IInv => PassIsWitnessed
  BY DEF IInv
<1> QED
  BY InvInit, InvStep, <1>1, PTL DEF Spec

(* No step of either tool removes a trace instance of another session.     *)
THEOREM ForeignKept == Spec => ForeignInstanceKept
<1>1. IInv /\ [Next]_vars => [instance = "other" => instance' = "other"]_vars
  BY ForeignStep DEF IInv
<1> QED
  BY InvInit, InvStep, <1>1, PTL DEF Spec, ForeignInstanceKept
=============================================================================
