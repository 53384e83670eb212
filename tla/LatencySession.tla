--------------------------- MODULE LatencySession ---------------------------
(***************************************************************************)
(* The two tools that change the USB adapter's latency timer for a         *)
(* measurement and owe the starting value back: tools/latency_hold.py, one *)
(* diagnostic at 0 ms, and tools/trace_session.sh, a list of traced runs   *)
(* at given steps.  Both end through a cleanup that verifies the starting  *)
(* value and sets it again, on every exit and after any signal.  The       *)
(* session also owns a trace instance in the kernel (tsc_instance.sh),     *)
(* whose name another session may use.                                     *)
(*                                                                         *)
(* The value counts only when sysfs, the adapter itself and the port's     *)
(* low-latency flag agree; any read and any write may fail, a write half   *)
(* way.  While a tool owes the value, anybody (the probe that opens the    *)
(* port first) may change it; once it is verified for the last time nobody *)
(* does.  The measured traffic is left out but for what makes a tool stop. *)
(***************************************************************************)
EXTENDS Naturals, Sequences

CONSTANTS
    Programs,   \* of "hold" and "session"
    Values,     \* milliseconds a latency timer is set to
    NoStep,     \* a run that leaves the timer alone
    RunLists    \* what a session may be asked to run: sequences of
                \* [step, timer, earlier], see RunType

(* step: the latency timer of the run; timer: it uses the trace instance;  *)
(* earlier: its files exist already.                                       *)
RunType == [step : Values \cup {NoStep}, timer : BOOLEAN, earlier : BOOLEAN]

ASSUME ProgramsAssumption == Programs \subseteq {"hold", "session"}
ASSUME ValuesAssumption == {0, 1} \subseteq Values /\ NoStep \notin Values
(* A session steps the latency timer in all its runs or in none. *)
ASSUME RunListsAssumption ==
    \A l \in RunLists : /\ l \in Seq(RunType)
                        /\ \A i, j \in DOMAIN l : l[i].step = NoStep <=> l[j].step = NoStep

WorkingMs == 1

Timers == [sysfs : Values, device : Values, low : BOOLEAN]

VARIABLES
    program,
    pc,
    masked,      \* signals are ignored: the tool is on its way out
    \* the adapter
    timer,
    orig,        \* the value found at the start
    owed,        \* Hold.owed, lt_owed
    touched,     \* history: it set the value, or ran something at a step
    gaveUp,      \* history: its last attempt to restore it failed
    status,      \* exit status
    cleanupOk,   \* cleanup_ok
    \* the session
    runs,        \* its runs
    k,           \* runs begun
    now,         \* lt_now
    instance,    \* who made the trace instance: "none", "ours", "other"
    tscOwed,     \* tsc_owed
    startStatus, \* of the tool that starts the instance
    running,     \* the recorders and the load: "off", "on", "ended"
    lost,        \* history: one of them ended before the run's probe
    problem,     \* tracer_problem, load_problem or a failed probe
    outcome      \* of the last run

adapter == <<timer, orig, now>>
debt == <<owed, touched, gaveUp>>
exit == <<status, cleanupOk>>
tracing == <<instance, tscOwed, startStatus>>
run == <<running, lost, problem, outcome>>
vars == <<program, runs, pc, masked, adapter, debt, exit, k, tracing, run>>

HoldSteps == {"baseline", "baselineWindow", "drain", "zero", "zeroWindow",
              "switch", "unswitched", "control", "controlWindow"}
RunSteps == {"record", "instance", "started", "load", "probe", "ended", "check",
             "verdict"}
CleanupSteps == {"verify", "restore", "recheck"}

TypeOK ==
    /\ program \in Programs /\ runs \in RunLists
    /\ pc \in HoldSteps \cup RunSteps \cup CleanupSteps
             \cup {"ready", "next", "finish", "closing", "gone"}
    /\ masked \in BOOLEAN
    /\ timer \in Timers /\ orig \in Values /\ now \in Values
    /\ owed \in BOOLEAN /\ touched \in BOOLEAN /\ gaveUp \in BOOLEAN
    /\ status \in {0, 1, 2, 3, 130} /\ cleanupOk \in BOOLEAN
    /\ k \in 0..Len(runs)
    /\ instance \in {"none", "ours", "other"}
    /\ tscOwed \in {0, 1, 2}
    /\ startStatus \in {0, 1, 2, 4}
    /\ running \in {"off", "on", "ended"}
    /\ lost \in BOOLEAN /\ problem \in BOOLEAN
    /\ outcome \in {"none", "pass", "fail", "skip", "stop"}

Init ==
    /\ program \in Programs /\ runs \in RunLists
    /\ pc = "ready" /\ masked = FALSE
    /\ timer \in Timers /\ orig = WorkingMs /\ now = WorkingMs
    /\ owed = FALSE /\ touched = FALSE /\ gaveUp = FALSE
    /\ status = 0 /\ cleanupOk = TRUE
    /\ k = 0
    /\ instance \in {"none", "other"} /\ tscOwed = 0 /\ startStatus = 0
    /\ running = "off" /\ lost = FALSE /\ problem = FALSE /\ outcome = "none"

-----------------------------------------------------------------------------
(* The adapter.                                                            *)

InEffect(ms) == timer = [sysfs |-> ms, device |-> ms, low |-> FALSE]

(* What a read that looks for ms may find: reading any part may fail. *)
Found(ms) == {FALSE, InEffect(ms)}

(* The driver's write: done, refused, or failed on the adapter after sysfs *)
(* took it.  With the low-latency flag the adapter gets 1 ms.              *)
Written(ms) == [timer EXCEPT !.sysfs = ms, !.device = IF timer.low THEN 1 ELSE ms]
NotWritten(ms) == {timer, [timer EXCEPT !.sysfs = ms]}

(* Somebody else, while the value is owed, or the run's probe uses the port. *)
Disturb ==
    /\ owed \/ pc \in RunSteps
    /\ timer' \in Timers
    /\ UNCHANGED <<program, runs, pc, masked, orig, now, debt, exit, k, tracing, run>>

Owe ==
    /\ owed' = TRUE /\ touched' = TRUE
    /\ UNCHANGED gaveUp

-----------------------------------------------------------------------------
(* The cleanup of both tools.                                              *)

(* The sequence, or the session's finish, is over: the cleanup begins. *)
Cleanup(s) ==
    /\ pc' = "verify"
    /\ status' = s
    /\ UNCHANGED cleanupOk

(* What a cleanup that ends with ok leads to: after the first one, which a *)
(* signal can still cut off, the hold ignores signals, and tries once more *)
(* if it still owes the value.                                             *)
CleanupEnds(ok) ==
    /\ cleanupOk' = ok
    /\ owed' = (owed /\ ~ok)
    /\ gaveUp' = ~ok
    /\ masked' = TRUE
    /\ pc' = IF masked \/ ok THEN "closing" ELSE "verify"
    /\ status' = IF status = 0 /\ ~ok THEN 3
                 ELSE IF status = 3 /\ ok THEN 0 ELSE status
    /\ UNCHANGED touched

Verified(seen) == seen

Verify ==
    /\ pc = "verify"
    /\ \/ ~owed /\ CleanupEnds(TRUE)
       \/ \E seen \in Found(orig) :
             /\ owed
             /\ IF Verified(seen) THEN CleanupEnds(TRUE)
                ELSE pc' = "restore" /\ UNCHANGED <<masked, debt, exit>>
    /\ UNCHANGED <<program, runs, adapter, k, tracing, run>>

Restore ==
    /\ pc = "restore"
    /\ \/ /\ timer' = Written(orig)
          /\ pc' = "recheck"
          /\ UNCHANGED <<masked, debt, exit>>
       \/ /\ timer' \in NotWritten(orig)
          /\ CleanupEnds(FALSE)
    /\ UNCHANGED <<program, runs, orig, now, k, tracing, run>>

Recheck ==
    /\ pc = "recheck"
    /\ \E seen \in Found(orig) : CleanupEnds(seen)
    /\ UNCHANGED <<program, runs, adapter, k, tracing, run>>

-----------------------------------------------------------------------------
(* latency_hold.py.                                                        *)

Step(from, to) ==
    /\ pc = from
    /\ pc' = to
    /\ UNCHANGED exit

(* Aborted, at any step: the rest of the sequence is not done. *)
Abort(at) == pc = at /\ Cleanup(1)

(* The arguments, the root check, the output names, the confirmation,      *)
(* tcpdump or the port are refused: nothing was sent.                      *)
HoldRefused ==
    /\ program = "hold" /\ pc = "ready"
    /\ pc' = "gone" /\ status' = 2 /\ masked' = TRUE
    /\ UNCHANGED <<program, runs, adapter, debt, cleanupOk, k, tracing, run>>

(* The start of sequence(): the working value must be in effect. *)
HoldStarts ==
    /\ program = "hold" /\ pc = "ready"
    /\ \E seen \in Found(WorkingMs) :
          IF seen THEN Owe /\ Step("ready", "baseline")
                  ELSE Cleanup(2) /\ UNCHANGED debt
    /\ UNCHANGED <<program, runs, masked, adapter, k, tracing, run>>

(* A ping is written whole, or the sequence aborts; a window is observed,  *)
(* and only the baseline's must hold a reply.  A transport error aborts    *)
(* too, in a window as in the drain and in the flushes.                    *)
HoldPings ==
    /\ \/ Step("baseline", "baselineWindow") \/ Abort("baseline")
       \/ Step("baselineWindow", "drain") \/ Abort("baselineWindow")
       \/ Step("zero", "zeroWindow") \/ Abort("zero")
       \/ Step("zeroWindow", "switch") \/ Abort("zeroWindow")
       \/ Step("control", "controlWindow") \/ Abort("control")
       \/ (pc = "controlWindow" /\ Cleanup(0)) \/ Abort("controlWindow")
       \/ Abort("unswitched") \/ Abort("drain")
    /\ UNCHANGED <<program, runs, masked, adapter, debt, k, tracing, run>>

(* set(): write and check.  0 ms must read back before the ping.           *)
HoldZero ==
    /\ \/ timer' = Written(0) /\ InEffect(0)' /\ Step("drain", "zero")
       \/ timer' \in {Written(0)} \cup NotWritten(0) /\ Abort("drain")
    /\ Owe
    /\ UNCHANGED <<program, runs, masked, orig, now, k, tracing, run>>

(* The window after the switch back is observed whatever was read; the     *)
(* control ping needs the working value.                                   *)
HoldSwitches ==
    /\ \/ /\ timer' = Written(WorkingMs) /\ InEffect(WorkingMs)'
          /\ Step("switch", "control")
       \/ /\ timer' \in {Written(WorkingMs)} \cup NotWritten(WorkingMs)
          /\ Step("switch", "unswitched")
    /\ Owe
    /\ UNCHANGED <<program, runs, masked, orig, now, k, tracing, run>>

(* A signal raises Interrupted: in the sequence its cleanup follows, in    *)
(* the cleanup main's own.                                                 *)
HoldInterrupted ==
    /\ program = "hold" /\ ~masked
    /\ pc \in HoldSteps \cup CleanupSteps
    /\ Cleanup(130)
    /\ masked' = (pc \in CleanupSteps)
    /\ UNCHANGED <<program, runs, adapter, debt, k, tracing, run>>

(* The recorder is stopped and its capture judged; the record is written.  *)
HoldCloses ==
    /\ program = "hold" /\ pc = "closing"
    /\ pc' = "gone"
    /\ \E invalid \in BOOLEAN :
          status' = IF status # 0 THEN status
                    ELSE IF ~cleanupOk THEN 3 ELSE IF invalid THEN 1 ELSE 0
    /\ UNCHANGED <<program, runs, masked, adapter, debt, cleanupOk, k, tracing, run>>

Hold ==
    \/ HoldRefused \/ HoldStarts \/ HoldPings
    \/ HoldZero \/ HoldSwitches \/ HoldInterrupted \/ HoldCloses

-----------------------------------------------------------------------------
(* trace_session.sh.                                                       *)

Current == runs[k]

(* finish, then exit with status s. *)
Finishing(s) ==
    /\ pc' = "finish"
    /\ status' = s
    /\ UNCHANGED cleanupOk

(* stop_all, outcome=stop: the session ends after this run with status 1.  *)
StopSession ==
    /\ Finishing(1)
    /\ outcome' = "stop"
    /\ UNCHANGED <<running, lost, problem>>

(* The checks before anything is sent, the options' among them. *)
SessionRefused ==
    /\ program = "session" /\ pc = "ready"
    /\ Finishing(2)
    /\ UNCHANGED <<program, runs, masked, adapter, debt, k, tracing, run>>

SessionStarts ==
    /\ program = "session" /\ pc = "ready"
    /\ ~timer.low /\ timer.sysfs = timer.device
    /\ instance = "none"
    /\ orig' = timer.sysfs /\ now' = timer.sysfs
    /\ pc' = "next"
    /\ UNCHANGED <<program, runs, masked, timer, debt, exit, k, tracing, run>>

(* A run attempted earlier is skipped; a batch workload stops the session. *)
RunSkipped ==
    /\ pc = "next" /\ k < Len(runs)
    /\ k' = k + 1
    /\ \/ /\ runs[k + 1].earlier
          /\ outcome' = "skip"
          /\ UNCHANGED <<pc, exit, running, lost, problem>>
       \/ ~runs[k + 1].earlier /\ StopSession
    /\ UNCHANGED <<program, runs, masked, adapter, debt, tracing>>

(* Fault: only a step that changes the timer makes the session owe it. *)
FaultOwes(r) == r.step # NoStep /\ r.step # now

(* From here the session owes the value back, set or not. *)
Owes(r) == r.step # NoStep

(* The run's note is written; its step is set if it changes, and must be   *)
(* in effect.                                                              *)
RunBegins ==
    /\ pc = "next" /\ k < Len(runs) /\ ~runs[k + 1].earlier
    /\ k' = k + 1
    /\ LET r == runs[k + 1]
       IN  /\ owed' = (owed \/ Owes(r))
           /\ touched' = (touched \/ r.step # NoStep)
           /\ UNCHANGED gaveUp
           /\ \/ /\ r.step # NoStep
                 /\ now' = r.step
                 /\ timer' \in IF r.step = now THEN {timer}
                               ELSE {Written(r.step)} \cup NotWritten(r.step)
                 /\ StopSession
              \/ /\ IF r.step = NoStep THEN UNCHANGED <<timer, now>>
                    ELSE /\ now' = r.step
                         /\ timer' = IF r.step = now THEN timer ELSE Written(r.step)
                         /\ timer' = [sysfs |-> r.step, device |-> r.step, low |-> FALSE]
                 /\ pc' = "record"
                 /\ lost' = FALSE /\ problem' = FALSE /\ outcome' = "none"
                 /\ UNCHANGED <<exit, running>>
    /\ UNCHANGED <<program, runs, masked, orig, tracing>>

(* The recorders start one after the other, on the expected trace clock.   *)
Record ==
    /\ pc = "record"
    /\ \/ /\ pc' = IF Current.timer THEN "instance" ELSE "load"
          /\ running' = "on"
          /\ UNCHANGED <<exit, lost, problem, outcome>>
       \/ StopSession
    /\ UNCHANGED <<program, runs, masked, adapter, debt, k, tracing>>

(* tsc_instance.sh start: 0 ready, 4 created and then failed, 2 not        *)
(* created, or cut off (1) with or without the instance.  Somebody else's  *)
(* may have appeared since the session's own check.                        *)
StartTool ==
    /\ pc = "instance"
    /\ pc' = "started"
    /\ tscOwed' = 2
    /\ \/ instance = "none" /\ instance' = "ours" /\ startStatus' \in {0, 1, 4}
       \/ instance' \in {instance, "other"} \ {"none"} /\ startStatus' \in {1, 2}
       \/ UNCHANGED instance /\ startStatus' \in {1, 2}
    /\ UNCHANGED <<program, runs, masked, adapter, debt, exit, k, run>>

(* Fault: whatever the tool said, the instance is the session's. *)
FaultOwnership(s) == IF s = 2 THEN 0 ELSE 1

Ownership(s) == CASE s \in {0, 4} -> 1 [] s = 2 -> 0 [] OTHER -> 2

Started ==
    /\ pc = "started"
    /\ tscOwed' = Ownership(startStatus)
    /\ \/ startStatus = 0 /\ pc' = "load" /\ UNCHANGED <<exit, run>>
       \/ StopSession    \* also when the sampler or perf stat do not start
    /\ UNCHANGED <<program, runs, masked, adapter, debt, k, instance, startStatus>>

(* The load, and then a look whether every recorder still runs. *)
Load ==
    /\ pc = "load"
    /\ \/ running = "on" /\ pc' = "probe" /\ UNCHANGED <<exit, run>>
       \/ StopSession
    /\ UNCHANGED <<program, runs, masked, adapter, debt, k, tracing>>

(* A recorder, or the load, ends by itself at any moment. *)
RecorderEnds ==
    /\ running = "on" /\ pc \in RunSteps
    /\ running' = "ended"
    /\ lost' = (lost \/ pc \in {"load", "probe"})
    /\ UNCHANGED <<program, runs, pc, masked, adapter, debt, exit, k, tracing, problem, outcome>>

(* Fault: only their exit statuses are looked at. *)
FaultEnded == FALSE

Ended == running = "ended"

(* The probe returns; before anything is stopped the recorders and the     *)
(* load must still run.                                                    *)
Probe ==
    /\ pc = "probe"
    /\ pc' = "ended"
    /\ problem' \in {Ended, TRUE}
    /\ UNCHANGED <<program, runs, masked, adapter, debt, exit, k, tracing, running, lost, outcome>>

(* remove_tsc_instance: an instance of unknown ownership stays. *)
Remove ==
    \/ tscOwed = 0 /\ UNCHANGED <<instance, tscOwed>>
    \/ tscOwed = 2 /\ tscOwed' = 0 /\ UNCHANGED instance
    \/ tscOwed = 1 /\ tscOwed' = 0 /\ instance' = "none"
    \/ tscOwed = 1 /\ UNCHANGED <<instance, tscOwed>>

(* The recorders are stopped, each with a status and its losses, and the   *)
(* instance is removed.                                                    *)
StopRecorders ==
    /\ pc = "ended"
    /\ pc' = "check"
    /\ running' = "off"
    /\ problem' \in {problem, TRUE}
    /\ Remove
    /\ UNCHANGED <<program, runs, masked, adapter, debt, exit, k, startStatus, lost, outcome>>

(* The step must still be in effect, and no problem have come up. *)
CheckRun ==
    /\ pc = "check"
    /\ \E seen \in IF Current.step = NoStep THEN {TRUE} ELSE Found(Current.step) :
          IF seen /\ ~problem THEN pc' = "verdict" /\ UNCHANGED <<exit, run>>
                              ELSE StopSession
    /\ UNCHANGED <<program, runs, masked, adapter, debt, k, tracing>>

(* timing_summary.py --check: pass, fail, or neither.  A removal that      *)
(* failed lets no further run begin; the cleanup tries again.              *)
Verdict ==
    /\ pc = "verdict"
    /\ \/ /\ outcome' \in {"pass", "fail"}
          /\ IF tscOwed = 1 THEN Finishing(0) ELSE pc' = "next" /\ UNCHANGED exit
          /\ UNCHANGED <<running, lost, problem>>
       \/ StopSession
    /\ UNCHANGED <<program, runs, masked, adapter, debt, k, tracing>>

AllDone ==
    /\ pc = "next" /\ k = Len(runs)
    /\ Finishing(0)
    /\ UNCHANGED <<program, runs, masked, adapter, debt, k, tracing, run>>

(* on_interrupt, also in the finish of an earlier one. *)
SessionInterrupted ==
    /\ program = "session" /\ ~masked
    /\ pc \in {"next", "finish"} \cup RunSteps
    /\ Finishing(130)
    /\ UNCHANGED <<program, runs, masked, adapter, debt, k, tracing, run>>

(* finish; then the EXIT trap, which no signal cuts off. *)
Finish ==
    /\ pc = "finish"
    /\ running' = "off"
    /\ Remove
    /\ pc' = "verify" /\ masked' = TRUE
    /\ UNCHANGED <<program, runs, adapter, debt, exit, k, startStatus, lost, problem, outcome>>

(* on_exit's second half. *)
SessionCloses ==
    /\ program = "session" /\ pc = "closing"
    /\ pc' = "gone"
    /\ Remove
    /\ status' = IF status = 0 /\ (tscOwed' # 0 \/ ~cleanupOk) THEN 3 ELSE status
    /\ UNCHANGED <<program, runs, masked, adapter, debt, cleanupOk, k, startStatus, run>>

Session ==
    \/ SessionRefused \/ SessionStarts \/ RunSkipped \/ RunBegins
    \/ Record \/ StartTool \/ Started \/ Load \/ RecorderEnds \/ Probe
    \/ StopRecorders \/ CheckRun \/ Verdict \/ AllDone
    \/ SessionInterrupted \/ Finish \/ SessionCloses

Next == Hold \/ Session \/ Verify \/ Restore \/ Recheck \/ Disturb

Spec == Init /\ [][Next]_vars

-----------------------------------------------------------------------------
(* Properties.                                                             *)

(* However a tool ends, interrupted in its cleanup or not, a latency timer *)
(* it had a hand in is back at the starting value; else its restoring      *)
(* failed and the exit status says so.  Status 0 also means that no trace  *)
(* instance of the session is left.                                        *)
EndsRestored ==
    pc = "gone" =>
        /\ touched => InEffect(orig) \/ (gaveUp /\ status # 0)
        /\ status = 0 => instance # "ours"

(* A trace instance another session made is never removed.                 *)
ForeignInstanceKept == [][instance = "other" => instance' = "other"]_vars

(* A run passes only if the recorders and the load outlasted its probe.    *)
PassIsWitnessed == outcome = "pass" => ~lost
=============================================================================
