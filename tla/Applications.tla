---------------------------- MODULE Applications ----------------------------
(***************************************************************************)
(* The programs that switch the arm on (src/apps): each is a script of     *)
(* steps, the objects its steps construct are destroyed in reverse order   *)
(* when it ends or throws, and its calls of CraneX7 are those of           *)
(* AbstractSession.  Around it the background thread may escalate, another *)
(* process may create files, and the program may be killed.                *)
(***************************************************************************)
EXTENDS AbstractSession, Sequences, SequencesExt

CONSTANT Programs      \* the <<program, option>> pairs that are run

VARIABLES
    prog,      \* the <<program, option>> of this run
    pc,        \* index of its next step
    ph,        \* where in that step
    call,      \* the call of CraneX7 in progress
    mode,      \* "run", "unwind" (destructors), "over"
    objects,   \* live objects, in order of construction
    guard,     \* ShutdownGuard: "none", "armed", "running", "quiesce", "done"
    clean,     \* its result
    tried,     \* history: a release was tried since an activation last succeeded
               \* or threw
    ending,    \* "none", "success", "failed", "recorded" (complete, but ended badly)
    fs,        \* the output files
    exit       \* exit status: "none", "zero", "one", "killed"

control == <<pc, ph, call, mode, objects, guard, clean, tried>>
report == <<ending, fs, exit>>
appVars == <<sessionVars, prog, control, report>>

app == prog[1]
option == prog[2]

-----------------------------------------------------------------------------
(* The programs.                                                           *)

With(o, v, steps) == IF o = v THEN steps ELSE <<>>

FollowSetup(o) ==
    With(o, "bundle", << <<"workspace">> >>)
    \o << <<"check">>, <<"reserve">>, <<"create", "log">>, <<"open">> >>
    \o With(o, "posture", << <<"passive">>, <<"create", "reference">>, <<"check">> >>)
    \o With(o, "timed", << <<"create", "timing">> >>)

Finish(o) ==
    << <<"close", "log">> >> \o With(o, "timed", << <<"close", "timing">> >>)
    \o << <<"leave", {"guard", "timing", "port", "log"}>> >>
    \o With(o, "timed", << <<"summary">> >>)
    \o With(o, "bundle", << <<"check">>, <<"publish">> >>) \o << <<"verdict">> >>

Follow(o) ==
    FollowSetup(o) \o << <<"bridge">>, <<"guard">> >>
    \o With(o, "timed", << <<"check">> >>) \o << <<"drive">>, <<"release">> >> \o Finish(o)

TrackSetup(o) ==
    With(o, "bundle", << <<"workspace">> >>)
    \o << <<"check">>, <<"reserve">>, <<"create", "log">>, <<"open">> >>
    \o With(o, "timed", << <<"create", "timing">> >>)

Track(o) ==
    TrackSetup(o) \o << <<"guard">>, <<"bridge">>, <<"drive">>, <<"stop">>, <<"check">>,
       <<"switch">>, <<"bridge">>, <<"drive">>, <<"release">> >> \o Finish(o)

SwitchInPlace == << <<"check">>, <<"switch">>, <<"bridge">>, <<"drive">>, <<"release">> >>

LoggedEnd == << <<"close", "log">>, <<"verdict">> >>

FloatSetup ==
    << <<"check">>, <<"create", "log">>, <<"open">>, <<"check">>, <<"activate">>,
       <<"guard">> >>

Float == FloatSetup \o SwitchInPlace \o LoggedEnd

DemoSetup ==
    << <<"check">>, <<"create", "log">>, <<"open">>, <<"check">>, <<"activate">>,
       <<"guard">> >>

GravityDemo == DemoSetup \o SwitchInPlace \o LoggedEnd

TeachSession(o) ==
    << <<"leave", {"guard", "port"}>>, <<"commit">>, <<"finish">>,
       <<"leave", {"log", "motion"}>> >>
    \o With(o, "bundle", << <<"check">>, <<"publish">> >>) \o << <<"verdict">> >>

TeachSetup(o) ==
    With(o, "bundle", << <<"workspace">> >>)
    \o << <<"check">>, <<"reserve">>, <<"create", "motion">>, <<"create", "log">>,
          <<"open">> >>

TeachPassive(o) ==
    TeachSetup(o) \o << <<"passive">>, <<"drive">>, <<"passive">> >> \o TeachSession(o)

TeachGravity(o) ==
    TeachSetup(o) \o << <<"activate">>, <<"guard">> >> \o SwitchInPlace \o TeachSession(o)

PoseTcp ==
    << <<"keepalive">>, <<"solve">>, <<"stop">>, <<"alive">> >>

Pose(o) ==
    << <<"check">>, <<"open">>, <<"activate">>, <<"guard">> >> \o With(o, "tcp", PoseTcp)
    \o << <<"drive">>, <<"drive">>, <<"release">>, <<"verdict">> >>

MoveSimple ==
    << <<"check">>, <<"open">>, <<"activate">>, <<"guard">>, <<"check">>, <<"drive">>,
       <<"release">>, <<"verdict">> >>

OnOff ==
    << <<"check">>, <<"open">>, <<"activate">>, <<"guard">>, <<"drive">>,
       <<"release">>, <<"verdict">> >>

(* The programs without an arm.  A motion is opened with "w".  A link      *)
(* force has an interval log of its own, created and closed last.          *)
DisturbanceLog(o) == With(o, "disturbed", << <<"create", "disturbance">> >>)
DisturbanceEnd(o) == With(o, "disturbed", << <<"close", "disturbance">> >>)

SimulationSetup(o) ==
    With(o, "bundle", << <<"workspace">> >>)
    \o << <<"check">>, <<"reserve">>, <<"overwrite", "motion">>, <<"create", "log">> >>
    \o DisturbanceLog(o)

SimulationEnd(o) ==
    << <<"close", "log">>, <<"close", "motion">> >> \o DisturbanceEnd(o)
    \o << <<"leave", {"disturbance", "log", "motion"}>> >>
    \o With(o, "bundle", << <<"check">>, <<"publish">> >>) \o << <<"verdict">> >>

Simulation(o) == SimulationSetup(o) \o << <<"work">> >> \o SimulationEnd(o)

PlanPtp(o) ==
    With(o, "bundle", << <<"workspace">> >>)
    \o << <<"check">>, <<"work">>, <<"write", "motion">>, <<"write", "log">> >>
    \o With(o, "bundle", << <<"check">>, <<"publish">> >>) \o << <<"verdict">> >>

Read == << <<"check">>, <<"open">>, <<"work">>, <<"verdict">> >>

(* The load generator talks to the bus itself and never writes torque; the *)
(* summary is opened before the run and written after the log is closed.   *)
TimingSetup ==
    << <<"check">>, <<"create", "log">>, <<"create", "summary">> >>

TimingRun == << <<"probe">>, <<"close", "log">> >>

TimingSummary == << <<"close", "summary">> >>

Inventory == << <<"work">>, <<"create", "log">>, <<"close", "log">> >>

BusTiming(o) ==
    << <<"check">>, <<"open">>, <<"check">> >>
    \o (IF o = "inventory" THEN Inventory ELSE TimingSetup \o TimingRun \o TimingSummary)
    \o << <<"verdict">> >>

ForceBudget ==
    << <<"check">>, <<"reserve">>, <<"work">>, <<"create", "log">>, <<"close", "log">>,
       <<"verdict">> >>

(* With --check, or --help, nothing is opened and nothing made. *)
CheckOnly == << <<"check">>, <<"work">>, <<"verdict">> >>

ScriptOf(p) ==
    LET o == p[2]
    IN  IF o = "check" THEN CheckOnly
        ELSE
        CASE p[1] = "x7_follow" -> Follow(o)
          [] p[1] = "x7_track" -> Track(o)
          [] p[1] = "x7_float" -> Float
          [] p[1] = "x7_gravity_demo" -> GravityDemo
          [] p[1] = "x7_teach passive" -> TeachPassive(o)
          [] p[1] = "x7_teach gravity" -> TeachGravity(o)
          [] p[1] = "x7_pose" -> Pose(o)
          [] p[1] = "x7_move_simple" -> MoveSimple
          [] p[1] = "x7_onoff" -> OnOff
          [] p[1] \in {"x7_follow_sim", "x7_track_sim"} -> Simulation(o)
          [] p[1] = "x7_plan_ptp" -> PlanPtp(o)
          [] p[1] = "x7_read" -> Read
          [] p[1] = "x7_bus_timing" -> BusTiming(o)
          [] p[1] = "x7_force_budget" -> ForceBudget

Script == ScriptOf(prog)

(* The runs that switch nothing on: their verdict needs no release. *)
LimpPrograms ==
    {"x7_teach passive", "x7_follow_sim", "x7_track_sim", "x7_plan_ptp", "x7_read",
     "x7_bus_timing", "x7_force_budget"}
IsLimp(p) == p[1] \in LimpPrograms \/ p[2] = "check"
TeachPrograms == {"x7_teach passive", "x7_teach gravity"}

(* Where a run of x7_teach ends, however it ended. *)
RunEnd == <<"leave", {"guard", "port"}>>

Limp == IsLimp(prog)
Teaches == app \in TeachPrograms

(***************************************************************************)
(* What the order of a program's steps keeps to, whatever its options.     *)
(* TLC evaluates it for the programs that are run; the proofs rest on it,  *)
(* and so hold of any further program that keeps to it.                    *)
(***************************************************************************)
Paths == {"log", "timing", "summary", "motion", "disturbance", "reference", "bundle"}

Makes == {"create", "overwrite", "write"}
Ends == {"release", "leave"}
ArmSteps == {"activate", "switch", "passive", "bridge", "keepalive", "drive", "guard"}

(* Between the guard and the release the guard is alive. *)
Guarded(s, k) ==
    \E j \in 1..(k - 1) : s[j][1] = "guard" /\ \A i \in j..(k - 1) : s[i][1] \notin Ends

(* A file that was made and whose owner is still in scope. *)
Owned(s, x, k) ==
    \E j \in 1..(k - 1) :
        /\ s[j][1] \in Makes /\ s[j][2] = x
        /\ \A i \in j..k : s[i][1] = "leave" => x \notin s[i][2]

(* The steps have arguments where they need one, and the last is the       *)
(* verdict.                                                                *)
InForm(s) ==
    /\ s \in Seq({s[k] : k \in DOMAIN s}) /\ s # <<>>
    /\ \A k \in DOMAIN s :
         /\ s[k][1] = "verdict" <=> k = Len(s)
         /\ s[k][1] \in Makes => s[k][2] \in Paths
         /\ s[k][1] = "close" => s[k][2] \in Paths

(* The arm is switched on just before the guard is built or while it       *)
(* lives, and not again after the release.                                 *)
ArmInOrder(s) ==
    \A k \in DOMAIN s :
      /\ s[k][1] \in {"switch", "keepalive"} => Guarded(s, k)
      /\ s[k][1] = "activate" => s[k + 1][1] = "guard"
      /\ s[k][1] = "bridge" => Guarded(s, k) \/ s[k + 1][1] = "guard"
      /\ s[k][1] = "leave" /\ Guarded(s, k) => "guard" \in s[k][2]
      /\ s[k][1] \in ArmSteps => \A j \in 1..(k - 1) : s[j][1] \notin Ends

(* Nothing is made, finished or published while the guard lives; only what *)
(* was made is finished; and a failing drive, or a failing teach run,      *)
(* passes over nothing that makes a file.                                  *)
FilesInOrder(s, teaches) ==
    \A k \in DOMAIN s :
      /\ s[k][1] \in Makes \cup {"close", "finish", "commit", "summary", "publish",
                               "workspace", "open", "guard", "verdict"} => ~Guarded(s, k)
      /\ s[k][1] = "close" => Owned(s, s[k][2], k)
      /\ s[k][1] = "finish" => Owned(s, "log", k)
      /\ s[k][1] = "commit" => Owned(s, "motion", k)
      /\ s[k][1] \in Makes => \A j \in 1..(k - 1) :
                                s[j][1] # "drive" /\ (teaches => s[j][1] # "open")
      /\ teaches => s[k][1] \notin {"overwrite", "write"}

(* Every drive has its release; what never switches anything on needs none. *)
(* Only the bridge undoes an activation whose configurator threw.           *)
Fits(p) ==
    LET s == ScriptOf(p)
        Has(x) == \E k \in DOMAIN s : s[k][1] = x
    IN  /\ Has("drive") => p[1] = "x7_teach passive" \/ Has("release")
        /\ p[1] = "x7_follow" => ~Has("activate")
        /\ IsLimp(p) => ~ \E x \in ArmSteps \ {"passive", "drive"} : Has(x)
        /\ IsLimp(p) /\ Has("passive") => ~Has("work") /\ ~Has("probe")

Ordered(p) ==
    LET s == ScriptOf(p)
    IN  InForm(s) /\ ArmInOrder(s) /\ FilesInOrder(s, p[1] \in TeachPrograms) /\ Fits(p)

ASSUME ProgramsAssumption == \A p \in Programs : Ordered(p)

-----------------------------------------------------------------------------
(* The outputs.                                                            *)

Made(steps) == {Script[k][2] : k \in {j \in DOMAIN Script : Script[j][1] \in steps}}

(* What a run must leave behind; a bundle holds the files staged in it. *)
Outputs ==
    Made({"create", "overwrite", "write"}) \cup (IF option = "timed" THEN {"summary"} ELSE {})
            \cup (IF option = "bundle" THEN {"bundle"} ELSE {})

(* The files only this process can reach: those in its staging directory. *)
Staged(p) == option = "bundle" /\ p # "bundle"

-----------------------------------------------------------------------------
AppInit ==
    /\ SessionInit
    /\ prog \in Programs /\ pc = 1 /\ ph = "begin" /\ call = "none"
    /\ mode = "run" /\ objects = <<>>
    /\ guard = "none" /\ clean = FALSE /\ tried = TRUE
    /\ ending = "none" /\ exit = "none"
    /\ fs \in [Paths -> {"absent", "foreign"}]
    /\ \A p \in Paths : fs[p] = "foreign" => p \in Outputs /\ ~Staged(p)

Step == Script[pc][1]
At(s) == mode = "run" /\ Step = s /\ ph = "begin"
Next1 == pc' = pc + 1 /\ ph' = "begin"

(* A failing step returns from main or throws; in the runs of x7_teach it  *)
(* returns from the run, and main goes on with a failed result.            *)
Rejoin == CHOOSE k \in pc..Len(Script) : Script[k] = RunEnd

InTeachRun ==
    /\ Teaches
    /\ \E k \in 1..(pc - 1) : Script[k][1] = "open"
    /\ \E k \in pc..Len(Script) : Script[k] = RunEnd

Fails ==
    /\ ph' = "begin"
    /\ IF InTeachRun
         THEN pc' = Rejoin /\ ending' = "failed" /\ UNCHANGED mode
         ELSE mode' = "unwind" /\ UNCHANGED <<pc, ending>>

Push(x) == objects' = Append(objects, x)

-----------------------------------------------------------------------------
(* Steps that do not call CraneX7.                                         *)

(* Arguments, configuration, models, references, feedback and limits. *)
Check ==
    /\ At("check")
    /\ \/ Next1 /\ UNCHANGED <<mode, ending>>
       \/ Fails
    /\ UNCHANGED <<sessionVars, prog, call, objects, guard, clean, tried, fs, exit>>

(* Fault: the file is opened without "x", the bundle renamed over. *)
FaultVacant(p) == fs[p] \in {"absent", "foreign"}

(* Exclusive creation, and a rename that replaces nothing. *)
Vacant(p) == fs[p] = "absent"

Workspace ==
    /\ At("workspace")
    /\ IF fs["bundle"] = "absent"
         THEN Push("workspace") /\ Next1 /\ UNCHANGED <<mode, ending>>
         ELSE Fails /\ UNCHANGED objects
    /\ UNCHANGED <<sessionVars, prog, call, guard, clean, tried, fs, exit>>

(* requireNewOutput, for every output at once, before any is created. *)
Reserve ==
    /\ At("reserve")
    /\ IF \A p \in Outputs : fs[p] = "absent"
         THEN Next1 /\ UNCHANGED <<mode, ending>>
         ELSE Fails
    /\ UNCHANGED <<sessionVars, prog, call, objects, guard, clean, tried, fs, exit>>

Create ==
    /\ At("create")
    /\ LET p == Script[pc][2]
       IN  \/ /\ Vacant(p)
              /\ Next1 /\ UNCHANGED <<mode, ending>>
              /\ IF p = "reference"
                   THEN fs' = [fs EXCEPT ![p] = "whole"] /\ UNCHANGED objects
                   ELSE fs' = [fs EXCEPT ![p] = "partial"] /\ Push(p)
           \/ Fails /\ UNCHANGED <<fs, objects>>
    /\ UNCHANGED <<sessionVars, prog, call, guard, clean, tried, exit>>

(* ZvsWriter and writePtpCsv: whatever is at the path is truncated. *)
Overwrite ==
    /\ At("overwrite") \/ At("write")
    /\ LET p == Script[pc][2]
           later == Step = "overwrite"
       IN  \/ /\ fs' = [fs EXCEPT ![p] = IF later THEN "partial" ELSE "whole"]
              /\ IF later THEN Push(p) ELSE UNCHANGED objects
              /\ Next1 /\ UNCHANGED <<mode, ending>>
           \/ /\ fs' \in {fs} \cup {[fs EXCEPT ![p] = "broken"]}
              /\ Fails /\ UNCHANGED objects
    /\ UNCHANGED <<sessionVars, prog, call, guard, clean, tried, exit>>

(* The simulation, the plan, the display of the feedback, or the message   *)
(* that the checks passed.                                                 *)
Work ==
    /\ At("work")
    /\ \/ ending' = "success" /\ Next1 /\ UNCHANGED mode
       \/ /\ app \in {"x7_follow_sim", "x7_track_sim", "x7_force_budget"}
          /\ option # "check"
          /\ ending' = "failed" /\ Next1 /\ UNCHANGED mode
       \/ Fails
    /\ UNCHANGED <<sessionVars, prog, call, objects, guard, clean, tried, fs, exit>>

(* The timed cycles, drained off the probe thread, and the second torque   *)
(* check: a start refused, a dropped record or torque found on is told at  *)
(* the end.                                                                *)
ProbeRun ==
    /\ At("probe")
    /\ ending' \in {"success", "failed"} /\ Next1
    /\ UNCHANGED <<sessionVars, prog, call, mode, objects, guard, clean, tried, fs, exit>>

(* The port and the CraneX7 on it. *)
Open ==
    /\ At("open")
    /\ \/ Push("port") /\ Next1 /\ UNCHANGED <<mode, ending>>
       \/ Fails /\ UNCHANGED objects
    /\ UNCHANGED <<sessionVars, prog, call, guard, clean, tried, fs, exit>>

Guard ==
    /\ At("guard")
    /\ Push("guard") /\ guard' = "armed" /\ Next1
    /\ UNCHANGED <<sessionVars, prog, call, mode, clean, tried, ending, fs, exit>>

(* Fault: a failed drive goes on behind the release. *)
FaultAfterFailure ==
    IF app = "x7_teach passive"
      THEN pc + 1
      ELSE (CHOOSE k \in DOMAIN Script : Script[k][1] = "release") + 1

AfterFailure ==
    IF app = "x7_teach passive"
      THEN pc + 1
      ELSE CHOOSE k \in DOMAIN Script : Script[k][1] = "release"

(* The motion, the float, the recording, the hold: whatever ends it.  It   *)
(* succeeds only on an arm that did not escalate.                          *)
Drive ==
    /\ At("drive")
    /\ ~busy
    /\ \/ /\ ending # "failed" /\ (active \/ app = "x7_teach passive")
          /\ ending' \in {"success"} \cup (IF app = "x7_teach gravity" THEN {"recorded"} ELSE {})
          /\ Next1 /\ UNCHANGED mode
       \/ /\ ending' = "failed" /\ UNCHANGED mode
          /\ ph' = "begin" /\ pc' = AfterFailure
       \/ ~InTeachRun /\ Fails
    /\ UNCHANGED <<sessionVars, prog, call, objects, guard, clean, tried, fs, exit>>

(* A log, closed: a dropped row or a failed write makes it incomplete. *)
Closed(p) == fs' \in {[fs EXCEPT ![p] = v] : v \in {"whole", "broken"}}

Close ==
    /\ At("close")
    /\ Closed(Script[pc][2]) /\ Next1
    /\ UNCHANGED <<sessionVars, prog, call, mode, objects, guard, clean, tried,
                   ending, exit>>

(* The teach log ends with the status, and main throws if it is incomplete. *)
FinishLog ==
    /\ At("finish")
    /\ Closed("log")
    /\ IF fs'["log"] = "whole" THEN Next1 /\ UNCHANGED <<mode, ending>> ELSE Fails
    /\ UNCHANGED <<sessionVars, prog, call, objects, guard, clean, tried, exit>>

(* A motion is written only for a complete recording, whatever ended the   *)
(* hold after it, and a verified stop; it may still be rejected.           *)
Commit ==
    /\ At("commit")
    /\ Next1
    /\ IF ending \in {"success", "recorded"}
         THEN \/ fs' = [fs EXCEPT !["motion"] = "whole"] /\ UNCHANGED ending
              \/ UNCHANGED fs /\ ending' = "failed"
         ELSE UNCHANGED <<fs, ending>>
    /\ UNCHANGED <<sessionVars, prog, call, mode, objects, guard, clean, tried, exit>>

(* Its failure, or an existing file, is only remembered. *)
Summary ==
    /\ At("summary")
    /\ Next1
    /\ \/ Vacant("summary") /\ fs' = [fs EXCEPT !["summary"] = "whole"]
       \/ Vacant("summary") /\ fs' = [fs EXCEPT !["summary"] = "broken"]
       \/ UNCHANGED fs
    /\ UNCHANGED <<sessionVars, prog, call, mode, objects, guard, clean, tried,
                   ending, exit>>

(* publish(): look, then rename. *)
Publish ==
    /\ mode = "run" /\ Step = "publish"
    /\ \/ /\ ph = "begin"
          /\ IF fs["bundle"] = "absent"
               THEN ph' = "rename" /\ UNCHANGED <<pc, mode, ending>>
               ELSE Fails
          /\ UNCHANGED fs
       \/ /\ ph = "rename"
          /\ IF Vacant("bundle")
               THEN /\ fs' = [fs EXCEPT !["bundle"] = "whole"]
                    /\ Next1 /\ UNCHANGED <<mode, ending>>
               ELSE Fails /\ UNCHANGED fs
    /\ UNCHANGED <<sessionVars, prog, call, objects, guard, clean, tried, exit>>

(* Fault: a guard that ran counts as a verified release. *)
FaultReleased == guard = "done"

Released == clean

Successful ==
    /\ ending = "success"
    /\ Released \/ Limp
    /\ \A p \in Outputs : fs[p] = "whole"

Verdict ==
    /\ At("verdict")
    /\ exit' = IF Successful THEN "zero" ELSE "one"
    /\ mode' = "unwind"
    /\ UNCHANGED <<sessionVars, prog, pc, ph, call, objects, guard, clean, tried,
                   ending, fs>>

-----------------------------------------------------------------------------
(* Calls of CraneX7.                                                       *)

Calls(c, thr) ==
    /\ Call /\ thread' = thr
    /\ call' = c

(* What a call may answer; an activation refused on its arguments is one   *)
(* released before anything was on.  Only x7_follow installs a       *)
(* configurator, which may throw.                                          *)
Answers(c) ==
    CASE c = "activate" -> {"active", "released"}
                             \cup (IF app = "x7_follow" THEN {"threw"} ELSE {})
      [] c = "switch" -> {"active", "refused", "released"}
      [] c = "passive" -> {"limp", "refused"}
      [] c \in {"deactivate", "escalate"} -> {"clean", "unclean"}

Answered(c, r) ==
    /\ call = c /\ r \in Answers(c)
    /\ Return(r)
    /\ thread' = (IF c = "escalate" /\ thread = "running" THEN "exited" ELSE thread)
    /\ silent' = (silent \/ c = "escalate")
    /\ call' = "none"
    /\ tried' = CASE r \in {"active", "threw"} -> FALSE
                  [] r \in {"released", "clean", "unclean"} -> TRUE
                  [] OTHER -> tried

(* activate(), switchToCurrentModeWithPreload(), preparePassiveFeedback(). *)
(* The switch is refused on an arm that is not active.                     *)
CallBegin ==
    /\ mode = "run" /\ Step \in {"activate", "switch", "passive"} /\ ph = "begin"
    /\ Step = "passive" => ~active
    /\ Calls(Step, thread)
    /\ ph' = "calling"
    /\ UNCHANGED <<prog, pc, mode, objects, guard, clean, tried, report>>

CallEnd ==
    /\ mode = "run" /\ Step \in {"activate", "switch", "passive"} /\ ph = "calling"
    /\ \E r \in Answers(Step) :
         /\ Step = "switch" /\ ~active => r = "refused"
         /\ Answered(Step, r)
         /\ IF r \in {"active", "limp"} THEN Next1 /\ UNCHANGED <<mode, ending>> ELSE Fails
    /\ UNCHANGED <<prog, objects, guard, clean, fs, exit>>

(* stopThread() and the thread that keeps the hold alive over a long solve. *)
Stop ==
    /\ At("stop")
    /\ ThreadJoined /\ Next1
    /\ UNCHANGED <<prog, call, mode, objects, guard, clean, tried, report>>

Keepalive ==
    /\ At("keepalive")
    /\ \/ ThreadStarts /\ Next1 /\ UNCHANGED <<mode, ending>>
       \/ Fails /\ UNCHANGED sessionVars
    /\ UNCHANGED <<prog, call, objects, guard, clean, tried, fs, exit>>

Solve ==
    /\ At("solve")
    /\ Next1
    /\ \/ UNCHANGED ending
       \/ ending' = "failed"
    /\ UNCHANGED <<sessionVars, prog, call, mode, objects, guard, clean, tried, fs, exit>>

Alive ==
    /\ At("alive")
    /\ IF active /\ ending # "failed" THEN Next1 /\ UNCHANGED <<mode, ending>> ELSE Fails
    /\ UNCHANGED <<sessionVars, prog, call, objects, guard, clean, tried, fs, exit>>

(* RealArm::activate(): an arm that is active already only gets a thread.  *)
BridgeBegin ==
    /\ At("bridge")
    /\ IF active
         THEN ph' = "start" /\ UNCHANGED <<sessionVars, call>>
         ELSE Calls("activate", thread) /\ ph' = "calling"
    /\ UNCHANGED <<prog, pc, mode, objects, guard, clean, tried, report>>

BridgeActivated ==
    /\ mode = "run" /\ Step = "bridge" /\ ph = "calling"
    /\ \E r \in Answers("activate") :
         /\ Answered("activate", r)
         /\ CASE r = "active" -> ph' = "start" /\ UNCHANGED <<pc, mode, ending>>
              [] r = "threw" -> ph' = "undo" /\ UNCHANGED <<pc, mode, ending>>
              [] OTHER -> Fails
    /\ UNCHANGED <<prog, objects, guard, clean, fs, exit>>

(* Fault: a failing start only reports the failure. *)
FaultAfterNoThread == Fails

(* The thread did not start or gave no feedback: the arm is on. *)
AfterNoThread == ph' = "undo" /\ UNCHANGED <<pc, mode, ending>>

(* startThread() answers true over a thread that was never joined. *)
BridgeStart ==
    /\ mode = "run" /\ Step = "bridge" /\ ph = "start"
    /\ \/ /\ ThreadStarts \/ (thread # "none" /\ UNCHANGED sessionVars)
          /\ ph' = "wait" /\ UNCHANGED <<pc, mode, ending>>
       \/ AfterNoThread /\ UNCHANGED sessionVars
    /\ UNCHANGED <<prog, call, objects, guard, clean, tried, fs, exit>>

BridgeWait ==
    /\ mode = "run" /\ Step = "bridge" /\ ph = "wait"
    /\ \/ thread = "running" /\ ~silent /\ Next1 /\ UNCHANGED <<mode, ending>>
       \/ (thread = "exited" \/ silent) /\ AfterNoThread
    /\ UNCHANGED <<sessionVars, prog, call, objects, guard, clean, tried, fs, exit>>

(* Fault: an unclean stop is left to itself. *)
FaultAfterStop(r) == "done"

(* Only a clean stop needs no silence behind it. *)
AfterStop(r) == IF r = "clean" THEN "done" ELSE "quiesce"

BridgeUndo ==
    /\ mode = "run" /\ Step = "bridge"
    /\ \/ /\ ph = "undo"
          /\ Calls("deactivate", "none")
          /\ ph' = "undoing" /\ UNCHANGED <<pc, mode, ending, tried>>
       \/ /\ ph = "undoing"
          /\ \E r \in Answers("deactivate") :
               /\ Answered("deactivate", r)
               /\ IF AfterStop(r) = "done"
                    THEN Fails
                    ELSE ph' = "quiesce" /\ UNCHANGED <<pc, mode, ending>>
       \/ /\ ph = "quiesce"
          /\ Silenced /\ Fails /\ UNCHANGED <<call, tried>>
    /\ UNCHANGED <<prog, objects, guard, clean, fs, exit>>

Bridge == BridgeBegin \/ BridgeActivated \/ BridgeStart \/ BridgeWait \/ BridgeUndo

-----------------------------------------------------------------------------
(* ShutdownGuard, scopes and destructors.                                  *)

(* run(), from the script or from the destructor. *)
GuardRuns ==
    \/ /\ guard = "armed"
       /\ Calls("deactivate", "none")
       /\ guard' = "running" /\ UNCHANGED <<clean, tried>>
    \/ /\ guard = "running"
       /\ \E r \in Answers("deactivate") :
            /\ Answered("deactivate", r)
            /\ clean' = (r = "clean") /\ guard' = AfterStop(r)
    \/ /\ guard = "quiesce"
       /\ Silenced
       /\ guard' = "done" /\ UNCHANGED <<call, clean, tried>>

(* The teach result turns an unclean stop into a failed run. *)
Release ==
    /\ At("release")
    /\ \/ GuardRuns /\ UNCHANGED <<pc, ph, ending>>
       \/ /\ guard = "done" /\ Next1
          /\ ending' = (IF Teaches /\ ~clean THEN "failed" ELSE ending)
          /\ UNCHANGED <<sessionVars, call, guard, clean, tried>>
    /\ UNCHANGED <<prog, mode, objects, fs, exit>>

Leaving ==
    \/ mode = "unwind"
    \/ At("leave") /\ objects # <<>> /\ Last(objects) \in Script[pc][2]

Top(x) == Leaving /\ objects # <<>> /\ Last(objects) = x

Pop == objects' = Front(objects)

DestroyGuard ==
    /\ Top("guard")
    /\ \/ GuardRuns /\ UNCHANGED objects
       \/ guard = "done" /\ Pop /\ UNCHANGED <<sessionVars, call, guard, clean, tried>>
    /\ UNCHANGED <<prog, pc, ph, mode, report>>

(* ~CraneX7 joins the thread but switches nothing off; then the port goes. *)
DestroyPort ==
    /\ Top("port")
    /\ IF thread # "none"
         THEN ThreadJoined /\ UNCHANGED objects
         ELSE ~busy /\ Silenced /\ Pop
    /\ UNCHANGED <<prog, pc, ph, call, mode, guard, clean, tried, report>>

(* The destructors of the logs close them; a motion that was not committed *)
(* is removed, and a bundle that was not published with all its files.     *)
DestroyOutput ==
    /\ \E x \in {"log", "timing", "summary", "motion", "disturbance", "workspace"} :
         /\ Top(x)
         /\ CASE x \in {"log", "timing", "summary", "disturbance"} ->
                   IF fs[x] = "partial" THEN Closed(x) ELSE UNCHANGED fs
              [] x = "motion" /\ Teaches ->
                   fs' = [fs EXCEPT ![x] = IF @ = "whole" THEN @ ELSE "absent"]
              [] x = "motion" /\ ~Teaches ->
                   IF fs[x] = "partial" THEN Closed(x) ELSE UNCHANGED fs
              [] x = "workspace" ->
                   fs' = [p \in Paths |->
                            IF Staged(p) /\ fs["bundle"] # "whole" THEN "absent" ELSE fs[p]]
    /\ Pop
    /\ UNCHANGED <<sessionVars, prog, pc, ph, call, mode, guard, clean, tried,
                   ending, exit>>

Left ==
    /\ At("leave") /\ ~Leaving
    /\ Next1
    /\ UNCHANGED <<sessionVars, prog, call, mode, objects, guard, clean, tried, report>>

End ==
    /\ mode = "unwind" /\ objects = <<>> /\ ~busy
    /\ mode' = "over"
    /\ exit' = IF exit = "none" THEN "one" ELSE exit
    /\ UNCHANGED <<sessionVars, prog, pc, ph, call, objects, guard, clean, tried,
                   ending, fs>>

Destroy == DestroyGuard \/ DestroyPort \/ DestroyOutput \/ Left \/ End

-----------------------------------------------------------------------------
(* Around the program.                                                     *)

(* The deadman: on the background thread, or in the loop of a program that *)
(* writes the commands itself.                                             *)
Escalate ==
    /\ mode # "over"
    /\ \/ /\ thread = "running" \/ (At("drive") /\ thread = "none" /\ active)
          /\ Calls("escalate", thread) /\ UNCHANGED tried
       \/ \E r \in Answers("escalate") : Answered("escalate", r)
    /\ UNCHANGED <<prog, pc, ph, mode, objects, guard, clean, report>>

Transacts ==
    /\ mode # "over"
    /\ Transaction
    /\ UNCHANGED <<prog, control, report>>

(* Another process creates a file at a path this one wants. *)
Foreign ==
    /\ mode # "over"
    /\ \E p \in Outputs :
         /\ fs[p] = "absent" /\ ~Staged(p)
         /\ fs' = [fs EXCEPT ![p] = "foreign"]
    /\ UNCHANGED <<sessionVars, prog, control, ending, exit>>

Killed ==
    /\ mode # "over"
    /\ mode' = "over" /\ exit' = "killed" /\ Silenced
    /\ UNCHANGED <<prog, pc, ph, call, objects, guard, clean, tried, ending, fs>>

Environment == Escalate \/ Transacts \/ Foreign \/ Killed

Program ==
    \/ Check \/ Workspace \/ Reserve \/ Create \/ Overwrite \/ Work \/ ProbeRun
    \/ Open \/ Guard \/ Drive \/ Close \/ FinishLog \/ Commit \/ Summary \/ Publish \/ Verdict
    \/ CallBegin \/ CallEnd \/ Stop \/ Keepalive \/ Solve \/ Alive
    \/ Bridge \/ Release \/ Destroy

AppNext == Program \/ Environment

AppSpec == AppInit /\ [][AppNext]_appVars
-----------------------------------------------------------------------------
(* Properties.                                                             *)

(* A program that ends by itself has tried to release every servo after    *)
(* the last time it switched one on, or may have done so in an activation  *)
(* that its configurator cut short: whichever step failed or threw.        *)
NeverLeftOn == mode = "over" /\ exit # "killed" => tried

(* A release that failed is left to the watchdogs of the servos: no later  *)
(* call of the program transmits, which would keep them from tripping.     *)
UncleanIsSilenced ==
    [][result = "unclean" /\ on # {} /\ ~busy /\ busy' => silent]_appVars

(* Exit status 0 is told only over a limp arm and complete outputs. *)
ExitZeroHonest ==
    exit = "zero" => on = {} /\ ending = "success" /\ \A p \in Outputs : fs[p] = "whole"

(* No file that may block for long is finished, and nothing published,     *)
(* while the arm is on and nobody feeds its watchdogs but this program.    *)
FilesAfterRelease ==
    [][\A p \in Paths :
          fs[p] \in {"absent", "partial"} /\ fs'[p] \in {"whole", "broken"}
            => ~active /\ thread # "running"]_appVars

(* Another process's file is neither overwritten nor deleted, whenever it  *)
(* appears: even between the look at the path and the creation.  (Only the *)
(* files opened with "w" are truncated.)                                   *)
OutputsAreOwn ==
    [][\A p \in Paths \ Made({"overwrite", "write"}) :
          fs[p] = "foreign" => fs'[p] = "foreign"]_appVars
=============================================================================
