------------------------- MODULE ApplicationProofs --------------------------
(***************************************************************************)
(* The programs that switch the arm on.  Applications: whatever fails or   *)
(* throws, a program that ends has tried to release the arm, its exit      *)
(* status and its files are honest.  IdentRun: the run inside one of them  *)
(* is over before the watchdog of the bus, and reports what it measured.   *)
(* Both for all values of the constants that meet their assumptions.       *)
(***************************************************************************)
EXTENDS Applications, IdentRun, SequenceTheorems, TLAPS

(***************************************************************************)
(* Proofs about Applications, for every set of servos and all programs     *)
(* whose scripts are Ordered, whatever their number and length.            *)
(*                                                                         *)
(* The invariant relates the place in the script to the objects alive:     *)
(* whoever may be moving the arm (Hot) has the armed guard on top of the   *)
(* stack, or stands in the step that builds it or undoes its own work.     *)
(***************************************************************************)
Runs == mode = "run"
Is(steps) == Runs /\ Step \in steps
Ended == mode = "over"

(* The guard is the last object while it has not run. *)
GuardOnTop == objects # <<>> /\ objects[Len(objects)] = "guard" /\ guard # "done"

Object == Paths \cup {"workspace", "port", "guard"}

AppTypeOK ==
    /\ SessionTypeOK
    /\ prog \in Programs /\ pc \in DOMAIN Script
    /\ ph \in {"begin", "calling", "start", "wait", "undo", "undoing", "quiesce", "rename"}
    /\ call \in {"none", "activate", "switch", "passive", "deactivate", "escalate"}
    /\ mode \in {"run", "unwind", "over"}
    /\ objects \in Seq(Object)
    /\ guard \in {"none", "armed", "running", "quiesce", "done"}
    /\ clean \in BOOLEAN /\ tried \in BOOLEAN
    /\ ending \in {"none", "success", "failed", "recorded"}
    /\ fs \in [Paths -> {"absent", "partial", "whole", "broken", "foreign"}]
    /\ exit \in {"none", "zero", "one", "killed"}

(* Which step a phase of a step belongs to. *)
PhasesPlaced ==
    /\ Runs /\ ph = "calling" => Step \in {"activate", "switch", "passive", "bridge"}
    /\ Runs /\ ph \in {"start", "wait", "undo", "undoing", "quiesce"} => Step = "bridge"
    /\ Runs /\ ph = "rename" => Step = "publish"

(* The guard is armed exactly between its step and the release, and is     *)
(* then the last object.                                                   *)
GuardPlaced ==
    /\ \A i \in DOMAIN objects : objects[i] = "guard" /\ guard # "done" => i = Len(objects)
    /\ guard \in {"armed", "running", "quiesce"} /\ ~Ended => GuardOnTop
    /\ Runs /\ Guarded(Script, pc) /\ Step \notin Ends => GuardOnTop /\ guard = "armed"
    /\ Runs /\ GuardOnTop => \/ Guarded(Script, pc) \/ Step = "release"
                             \/ Step = "leave" /\ "guard" \in Script[pc][2]
    /\ Runs /\ guard \in {"running", "quiesce", "done"} =>
         \E j \in 1..pc : Script[j][1] \in Ends
    /\ Runs /\ guard \in {"running", "quiesce"} => Step \in Ends

(* Which call is in progress. *)
CallPlaced ==
    /\ ~Ended => (busy <=> call # "none")
    /\ Runs /\ ph = "calling" => call \in {"activate", "switch", "passive"}
    /\ Runs /\ ph = "undoing" => call = "deactivate"
    /\ guard = "running" /\ ~Ended => call = "deactivate"

(* While the arm is stopped nothing can start it. *)
Stopping == (Runs /\ ph \in {"undoing", "quiesce"}) \/ (~Ended /\ guard \in {"running", "quiesce"})
Stopped == (Runs /\ ph = "quiesce") \/ (~Ended /\ guard = "quiesce")

Stops ==
    /\ Stopping => thread = "none"
    /\ Stopped => ~busy /\ ~active /\ tried

(* The arm may move, or a call is on its way. *)
Hot == active \/ thread = "running" \/ ~tried \/ busy

(* Whoever may be moving the arm has a release ahead of it. *)
Pending ==
    /\ Hot /\ ~Ended =>
         \/ GuardOnTop
         \/ Is({"guard"})
         \/ Is({"bridge"}) /\ ph # "begin"
         \/ Runs /\ ph = "calling"
    /\ Runs /\ ph = "calling" /\ ~GuardOnTop => ~active /\ thread # "running" /\ tried

EndsTried ==
    /\ exit = "killed" => Ended
    /\ exit = "none" \/ ~Runs
    /\ Ended /\ exit # "killed" => tried

(* An unclean stop is about to be silenced. *)
Unclean ==
    result = "unclean" /\ ~silent /\ ~Ended =>
        guard = "quiesce" \/ (Runs /\ ph = "quiesce")

(* A foreign file is never one of the staging directory, and never one     *)
(* that this program made and still has.                                   *)
Foreigners ==
    /\ \A x \in Paths : fs[x] = "foreign" => x \in Outputs /\ ~Staged(x)
    /\ \A x \in Paths : Runs /\ Owned(Script, x, pc) /\ ~Staged(x)
                           => fs[x] \notin {"absent", "foreign"}
    /\ Teaches /\ ~Staged("motion") =>
         /\ \A i, j \in DOMAIN objects :
              objects[i] = "motion" /\ objects[j] = "motion" => i = j
         /\ \A i \in DOMAIN objects :
              objects[i] = "motion" => fs["motion"] \notin {"absent", "foreign"}

HasStep(x) == \E k \in DOMAIN Script : Script[k][1] = x
(* What was verified stays so; what never switches anything on has nothing *)
(* on, and a passive teach run that was refused is a failed one.           *)
Verified ==
    /\ clean => guard = "done" /\ on = {} /\ ~busy
    /\ Limp => ~active /\ thread # "running" /\ guard = "none" /\ call \in {"none", "passive"}
    /\ Limp /\ ~HasStep("passive") => on = {} /\ ~busy
    /\ Limp /\ Runs /\ ~busy /\ ending # "failed" => on = {}

ZeroKept ==
    exit = "zero" =>
      /\ on = {} /\ ending = "success" /\ \A x \in Outputs : fs[x] = "whole"
      /\ ~busy /\ ~Runs /\ thread # "running" /\ guard \in {"none", "done"}

AppInv ==
    /\ AppTypeOK /\ PhasesPlaced /\ GuardPlaced /\ CallPlaced /\ Stops /\ Pending /\ EndsTried
    /\ Unclean /\ Foreigners /\ Verified /\ ZeroKept

-----------------------------------------------------------------------------
(* The script.                                                             *)

(* A stack without its last object.                                        *)
LEMMA FrontFacts ==
    ASSUME NEW T, NEW s \in Seq(T), s # <<>>
    PROVE  /\ Front(s) \in Seq(T) /\ Len(s) \in Nat \ {0}
           /\ Len(Front(s)) = Len(s) - 1
           /\ DOMAIN Front(s) = 1..(Len(s) - 1) /\ DOMAIN s = 1..Len(s)
           /\ \A i \in DOMAIN Front(s) : Front(s)[i] = s[i]
<1>1. Len(s) \in Nat \ {0} /\ DOMAIN s = 1..Len(s) /\ Front(s) = SubSeq(s, 1, Len(s) - 1)
  BY EmptySeq DEF Front
<1>2. \A i \in 1..(Len(s) - 1) : s[i] \in T
  BY <1>1
<1>3. /\ Front(s) \in Seq(T)
      /\ Len(Front(s)) = Len(s) - 1
      /\ \A i \in 1..(Len(s) - 1) : Front(s)[i] = s[i]
  <2>1. 1 \in Int /\ Len(s) - 1 \in Int
    BY <1>1
  <2>2. /\ SubSeq(s, 1, Len(s) - 1) \in Seq(T)
        /\ Len(SubSeq(s, 1, Len(s) - 1)) =
             IF 1 <= Len(s) - 1 THEN Len(s) - 1 - 1 + 1 ELSE 0
        /\ \A i \in 1..(Len(s) - 1 - 1 + 1) : SubSeq(s, 1, Len(s) - 1)[i] = s[1 + i - 1]
    BY <1>2, <2>1, SubSeqProperties
  <2> QED
    BY <1>1, <2>2
<1> QED
  BY <1>1, <1>3

(* What the assumption says of the script in hand.                         *)
LEMMA ScriptFacts ==
    ASSUME AppTypeOK
    PROVE  /\ Script \in Seq({Script[k] : k \in DOMAIN Script}) /\ Script # <<>>
           /\ DOMAIN Script = 1..Len(Script) /\ Len(Script) \in Nat
           /\ \A k \in DOMAIN Script : Script[k][1] = "verdict" <=> k = Len(Script)
           /\ ArmInOrder(Script) /\ FilesInOrder(Script, Teaches) /\ Fits(prog)
<1>1. Ordered(prog)
  BY ProgramsAssumption DEF AppTypeOK
<1>2. InForm(Script) /\ ArmInOrder(Script) /\ FilesInOrder(Script, Teaches) /\ Fits(prog)
  BY <1>1 DEF Ordered, Script, Teaches, app
<1> QED
  BY <1>2 DEF InForm

(* Every step but the verdict has a next one.                              *)
LEMMA HasNext ==
    ASSUME AppTypeOK, Step # "verdict"
    PROVE  pc + 1 \in DOMAIN Script /\ pc \in Nat \ {0}
BY ScriptFacts DEF AppTypeOK, Step

(* The guard is alive behind its step, and behind any step that is not an  *)
(* end.                                                                    *)
LEMMA GuardedNext ==
    ASSUME NEW s, NEW k \in Nat \ {0}
    PROVE  Guarded(s, k + 1) <=> s[k][1] \notin Ends /\ (s[k][1] = "guard" \/ Guarded(s, k))
<1>1. ASSUME Guarded(s, k + 1)
      PROVE  s[k][1] \notin Ends /\ (s[k][1] = "guard" \/ Guarded(s, k))
  <2>1. PICK j \in 1..k : s[j][1] = "guard" /\ \A i \in j..k : s[i][1] \notin Ends
    BY <1>1 DEF Guarded
  <2>2. CASE j = k
    BY <2>1, <2>2
  <2>3. CASE j # k
    <3>1. j \in 1..(k - 1) /\ \A i \in j..(k - 1) : i \in j..k
      BY <2>1, <2>3
    <3> QED
      BY <2>1, <3>1 DEF Guarded
  <2> QED
    BY <2>2, <2>3
<1>2. ASSUME s[k][1] \notin Ends, s[k][1] = "guard"
      PROVE  Guarded(s, k + 1)
  <2>1. k \in 1..(k + 1 - 1) /\ \A i \in k..(k + 1 - 1) : i = k
    OBVIOUS
  <2> QED
    BY <1>2, <2>1 DEF Guarded
<1>3. ASSUME s[k][1] \notin Ends, Guarded(s, k)
      PROVE  Guarded(s, k + 1)
  <2>1. PICK j \in 1..(k - 1) : s[j][1] = "guard" /\ \A i \in j..(k - 1) : s[i][1] \notin Ends
    BY <1>3 DEF Guarded
  <2>2. j \in 1..(k + 1 - 1) /\ \A i \in j..(k + 1 - 1) : i \in j..(k - 1) \/ i = k
    BY <2>1
  <2> QED
    BY <1>3, <2>1, <2>2 DEF Guarded
<1> QED
  BY <1>1, <1>2, <1>3

(* No step changes the program.                                            *)
LEMMA SameProgram ==
    ASSUME [AppNext]_appVars PROVE prog' = prog
BY DEF AppNext, appVars, Program, Environment, Check, Workspace, Reserve, Create, Overwrite,
   Work, ProbeRun, Open, Guard, Drive, Close, FinishLog, Commit, Summary, Publish, Verdict,
   CallBegin, CallEnd, Stop, Keepalive, Solve, Alive, Bridge, BridgeBegin, BridgeActivated,
   BridgeStart, BridgeWait, BridgeUndo, Release, Destroy, DestroyGuard, DestroyPort,
   DestroyOutput, Left, End, Escalate, Transacts, Foreign, Killed

(* So its script and its outputs stay the same.                            *)
LEMMA SameScript ==
    ASSUME prog' = prog
    PROVE  /\ Script' = Script /\ app' = app /\ option' = option
           /\ (Teaches' <=> Teaches) /\ (Limp' <=> Limp)
           /\ Outputs' = Outputs /\ \A x : Staged(x)' <=> Staged(x)
<1>1. Script' = Script /\ app' = app /\ option' = option
  BY DEF Script, app, option
<1>2. \A n : Made(n)' = Made(n)
  BY <1>1 DEF Made
<1> QED
  BY <1>1, <1>2 DEF Teaches, Limp, IsLimp, Outputs, Staged

-----------------------------------------------------------------------------
(* Where a step leads.                                                     *)

Goes == pc' = pc + 1 /\ ph' = "begin" /\ mode' = "run"
Skips ==
    /\ mode' = "run" /\ ph' = "begin" /\ pc' \in DOMAIN Script
    /\ Script[pc'][1] = "release" \/ Script[pc'] = RunEnd
Unwinds == mode' = "unwind" /\ pc' = pc /\ ph' = "begin"
Moves == Goes \/ Skips \/ Unwinds

(* A failing step leaves the script, or ends the run of x7_teach.          *)
LEMMA FailMoves ==
    ASSUME AppTypeOK, Runs, Fails
    PROVE  \/ Unwinds /\ ending' = ending
           \/ /\ Skips /\ InTeachRun /\ pc' \in pc..Len(Script) /\ ending' = "failed"
              /\ Script[pc'] = RunEnd /\ mode' = mode
<1>1. CASE InTeachRun
  <2>1. \E k \in pc..Len(Script) : Script[k] = RunEnd
    BY <1>1 DEF InTeachRun
  <2>2. Rejoin \in pc..Len(Script) /\ Script[Rejoin] = RunEnd
    BY <2>1 DEF Rejoin
  <2>3. pc' = Rejoin /\ ending' = "failed" /\ mode' = mode /\ ph' = "begin"
    BY <1>1 DEF Fails
  <2> QED
    BY <1>1, <2>2, <2>3, ScriptFacts DEF Skips, AppTypeOK, Runs
<1> QED
  BY <1>1 DEF Fails, Unwinds, Runs

-----------------------------------------------------------------------------
(* The steps that leave the arm alone.                                     *)

ArmUntouched == UNCHANGED <<sessionVars, prog, call, guard, clean, tried>>
Adds(x) == objects' = Append(objects, x) /\ x \in Object \ {"guard"}

(* They go on, fail, or look before the rename; an object is made only     *)
(* where no guard is alive.                                                *)
Plain ==
    /\ ArmUntouched /\ Runs /\ Step \notin Ends \cup {"guard", "bridge"} /\ ph \in {"begin", "rename"}
    /\ \/ Goes /\ pc + 1 \in DOMAIN Script
       \/ Skips \/ Unwinds
       \/ Step = "publish" /\ ph' = "rename" /\ pc' = pc /\ mode' = mode
    /\ objects' = objects \/ (~Guarded(Script, pc) /\ \E x \in Object : Adds(x))

PlainSteps ==
    \/ Check \/ Workspace \/ Reserve \/ Create \/ Overwrite \/ Work \/ ProbeRun \/ Open
    \/ Drive \/ Close \/ FinishLog \/ Commit \/ Summary \/ Publish \/ Verdict \/ Solve
    \/ Alive

(* What is made has a place in Paths, and no guard alive above it.         *)
LEMMA MakesOutside ==
    ASSUME AppTypeOK, Step \in Makes \cup {"workspace", "open"}
    PROVE  ~Guarded(Script, pc)
BY ScriptFacts DEF FilesInOrder, AppTypeOK, Step

(* What is made has a place in Paths.                                      *)
LEMMA MakesPath ==
    ASSUME AppTypeOK, Step \in Makes
    PROVE  Script[pc][2] \in Paths
<1>1. Ordered(prog)
  BY ProgramsAssumption DEF AppTypeOK
<1>2. InForm(Script)
  BY <1>1 DEF Ordered, Script
<1> QED
  BY <1>2 DEF InForm, AppTypeOK, Step

(* A drive that failed goes to the release, or on in a passive teach run.  *)
LEMMA FailedDrive ==
    ASSUME AppTypeOK, Step = "drive"
    PROVE  \/ AfterFailure = pc + 1 /\ app = "x7_teach passive"
           \/ AfterFailure \in DOMAIN Script /\ Script[AfterFailure][1] = "release"
<1>1. CASE app = "x7_teach passive"
  BY <1>1 DEF AfterFailure
<1>2. CASE app # "x7_teach passive"
  <2>1. \E k \in DOMAIN Script : Script[k][1] = "release"
    <3>1. pc \in DOMAIN Script /\ Script[pc][1] = "drive"
      BY DEF AppTypeOK, Step
    <3> QED
      BY <1>2, <3>1, ScriptFacts DEF Fits, Script, app
  <2>2. LET k == CHOOSE k \in DOMAIN Script : Script[k][1] = "release"
        IN  k \in DOMAIN Script /\ Script[k][1] = "release"
    BY <2>1
  <2> QED
    BY <1>2, <2>2 DEF AfterFailure
<1> QED
  BY <1>1, <1>2

(* Every step that leaves the arm alone is a plain one.                    *)
LEMMA PlainMoves ==
    ASSUME AppTypeOK, PlainSteps
    PROVE  Plain
<1> USE DEF ArmUntouched, At, Runs, Ends
<1>0. Step # "verdict" => pc + 1 \in DOMAIN Script
  BY HasNext
<1>1. ASSUME Next1, UNCHANGED mode, Runs PROVE Goes
  BY <1>1 DEF Next1, Goes
<1>2. ASSUME Runs, Fails PROVE Skips \/ Unwinds
  BY <1>2, FailMoves
<1>3. CASE Check
  BY <1>0, <1>1, <1>2, <1>3 DEF Check, Plain
<1>4. CASE Workspace
  BY <1>0, <1>1, <1>2, <1>4, MakesOutside DEF Workspace, Plain, Adds, Push, Object
<1>5. CASE Reserve
  BY <1>0, <1>1, <1>2, <1>5 DEF Reserve, Plain
<1>6. CASE Create
  <2>1. Step \in Makes /\ Script[pc][2] \in Object \ {"guard"}
    BY <1>6, MakesPath DEF Create, Makes, Object, Paths
  <2> QED
    BY <1>0, <1>1, <1>2, <1>6, <2>1, MakesOutside DEF Create, Plain, Adds, Push
<1>7. CASE Overwrite
  <2>1. Step \in Makes /\ Script[pc][2] \in Object \ {"guard"}
    BY <1>7, MakesPath DEF Overwrite, Makes, Object, Paths
  <2> QED
    BY <1>0, <1>1, <1>2, <1>7, <2>1, MakesOutside DEF Overwrite, Plain, Adds, Push
<1>8. CASE Work \/ ProbeRun
  BY <1>0, <1>1, <1>2, <1>8 DEF Work, ProbeRun, Plain, Next1, Goes
<1>9. CASE Open
  BY <1>0, <1>1, <1>2, <1>9, MakesOutside DEF Open, Plain, Adds, Push, Object
<1>10. CASE Drive
  <2>1. CASE Next1 /\ UNCHANGED mode
    BY <1>0, <1>1, <1>10, <2>1 DEF Drive, Plain
  <2>2. CASE ph' = "begin" /\ pc' = AfterFailure /\ UNCHANGED mode
    BY <1>0, <1>10, <2>2, FailedDrive DEF Drive, Plain, Goes, Skips
  <2>3. CASE Fails
    BY <1>2, <1>10, <2>3 DEF Drive, Plain
  <2> QED
    BY <1>10, <2>1, <2>2, <2>3 DEF Drive
<1>11. CASE Close \/ FinishLog
  BY <1>0, <1>1, <1>2, <1>11 DEF Close, FinishLog, Plain
<1>12. CASE Commit \/ Summary
  BY <1>0, <1>1, <1>12 DEF Commit, Summary, Plain, Next1, Goes
<1>13. CASE Publish
  BY <1>0, <1>1, <1>2, <1>13 DEF Publish, Plain
<1>14. CASE Verdict
  BY <1>14 DEF Verdict, Plain, Unwinds
<1>15. CASE Solve \/ Alive
  BY <1>0, <1>1, <1>2, <1>15 DEF Solve, Alive, Plain, Next1, Goes
<1> QED
  BY <1>3, <1>4, <1>5, <1>6, <1>7, <1>8, <1>9, <1>10, <1>11, <1>12, <1>13, <1>14, <1>15
  DEF PlainSteps

Safeguarded == PhasesPlaced /\ GuardPlaced /\ CallPlaced /\ Stops /\ Pending

(* A step of the script keeps what is said of its steps.                   *)
LEMMA SameStep ==
    ASSUME prog' = prog
    PROVE  /\ Step' = Script[pc'][1] /\ Script' = Script
           /\ \A k : Guarded(Script, k)' <=> Guarded(Script, k)'
BY SameScript DEF Step

(* The guard's place, when a step leads on, skips or fails.                *)
LEMMA GuardKept ==
    ASSUME AppTypeOK, GuardPlaced, prog' = prog, guard' = guard,
           GuardOnTop' <=> GuardOnTop,
           \A i \in DOMAIN objects' :
                objects'[i] = "guard" /\ guard' # "done" => i = Len(objects'),
           Runs, Step \notin Ends \cup {"guard"},
           (Goes /\ pc + 1 \in DOMAIN Script) \/ Skips \/ Unwinds
    PROVE  GuardPlaced'
<1>1. Script' = Script /\ Step' = Script[pc'][1]
  BY SameScript DEF Step
<1>2. guard \notin {"running", "quiesce"} /\ ~Ended
  BY DEF GuardPlaced, Ended, Runs
<1>3. pc \in Nat \ {0} /\ Step = Script[pc][1]
  BY ScriptFacts DEF AppTypeOK, Step
<1>4. CASE Goes /\ pc + 1 \in DOMAIN Script
  <2>1. Runs' /\ pc' = pc + 1
    BY <1>4 DEF Goes, Runs
  <2>2. Guarded(Script, pc + 1) <=> Guarded(Script, pc)
    BY <1>3, GuardedNext
  <2>3. Guarded(Script, pc)  => GuardOnTop /\ guard = "armed"
    BY DEF GuardPlaced
  <2>4. GuardOnTop => Guarded(Script, pc)
    BY DEF GuardPlaced, Ends
  <2>5. guard = "done" => \E j \in 1..pc' : Script[j][1] \in Ends
    <3>1. guard = "done" => \E j \in 1..pc : Script[j][1] \in Ends
      BY DEF GuardPlaced
    <3>2. \A j \in 1..pc : j \in 1..pc'
      BY <1>3, <2>1
    <3> QED
      BY <3>1, <3>2
  <2>6. guard = "armed" => GuardOnTop
    BY <1>2 DEF GuardPlaced
  <2> QED
    BY <1>1, <1>2, <2>1, <2>2, <2>3, <2>4, <2>5, <2>6 DEF GuardPlaced
<1>5. CASE Skips
  <2>1. Runs' /\ pc' \in DOMAIN Script
    BY <1>5 DEF Skips, Runs
  <2>2. Step' \in Ends /\ (Step' = "release" \/ "guard" \in Script[pc'][2])
        /\ (Step' # "release" => Step' = "leave")
    BY <1>1, <1>5 DEF Skips, RunEnd, Ends
  <2>3. pc' \in 1..pc'
    BY <2>1, ScriptFacts
  <2>4. guard = "armed" => GuardOnTop
    BY <1>2 DEF GuardPlaced
  <2> QED
    BY <1>1, <1>2, <2>1, <2>2, <2>3, <2>4 DEF GuardPlaced
<1>6. CASE Unwinds
  <2>1. ~Runs' /\ (guard = "armed" => GuardOnTop)
    BY <1>2, <1>6 DEF Unwinds, Runs, GuardPlaced
  <2> QED
    BY <1>1, <1>2, <2>1 DEF GuardPlaced
<1> QED
  BY <1>4, <1>5, <1>6

(* A plain step keeps the guard watched, or not.                           *)
LEMMA PlainGuard ==
    ASSUME AppTypeOK, GuardPlaced, Plain
    PROVE  /\ GuardOnTop' <=> GuardOnTop
           /\ \A i \in DOMAIN objects' :
                objects'[i] = "guard" /\ guard' # "done" => i = Len(objects')
<1>1. objects \in Seq(Object)
  BY DEF AppTypeOK
<1>2. CASE objects' = objects
  BY <1>2 DEF Plain, ArmUntouched, GuardOnTop, GuardPlaced
<1>3. CASE ~Guarded(Script, pc) /\ \E x \in Object : Adds(x)
  <2>1. PICK x \in Object : objects' = Append(objects, x) /\ x # "guard"
    BY <1>3 DEF Adds
  <2>2. ~GuardOnTop
    BY <1>3 DEF GuardPlaced, Plain, Runs, Ends
  <2>3. \A i \in DOMAIN objects : ~(objects[i] = "guard" /\ guard # "done")
    BY <1>1, <2>2 DEF GuardPlaced, GuardOnTop
  <2>4. /\ Len(objects') = Len(objects) + 1 /\ objects' \in Seq(Object)
        /\ objects'[Len(objects) + 1] = x
        /\ \A i \in DOMAIN objects : objects'[i] = objects[i]
    BY <1>1, <2>1
  <2> QED
    BY <1>1, <2>1, <2>2, <2>3, <2>4 DEF Plain, ArmUntouched, GuardOnTop
<1> QED
  BY <1>2, <1>3 DEF Plain

(* A plain step keeps the safeguards.                                      *)
LEMMA PlainSafeguarded ==
    ASSUME AppTypeOK, Safeguarded, Plain
    PROVE  Safeguarded'
<1>1. /\ GuardOnTop' <=> GuardOnTop
      /\ \A i \in DOMAIN objects' :
                objects'[i] = "guard" /\ guard' # "done" => i = Len(objects')
  BY PlainGuard DEF Safeguarded
<1>2. /\ guard' = guard /\ call' = call /\ thread' = thread /\ busy' = busy
      /\ active' = active /\ tried' = tried /\ prog' = prog
  BY DEF Plain, ArmUntouched, sessionVars
<1>3. /\ Runs /\ ~Ended /\ Step \notin Ends \cup {"guard", "bridge"}
      /\ ph \notin {"calling", "undoing", "quiesce"}
  BY DEF Plain, Runs, Ended
<1>4. guard \notin {"running", "quiesce"}
  BY <1>3 DEF Safeguarded, GuardPlaced
<1>5. Hot => GuardOnTop
  BY <1>3 DEF Safeguarded, Pending, Is
<1>6. ph' \in {"begin", "rename"} /\ ~Ended'
  BY <1>3 DEF Plain, Goes, Skips, Unwinds, Ended, Runs
<1>7. PhasesPlaced' /\ Stops' /\ CallPlaced'
  <2>1. ph' = "rename" => Step' = "publish"
    BY <1>2, SameScript DEF Plain, Goes, Skips, Unwinds, Step
  <2> QED
    BY <1>2, <1>3, <1>4, <1>6, <2>1
    DEF PhasesPlaced, Stops, Stopping, Stopped, CallPlaced, Safeguarded
<1>8. Pending'
  BY <1>1, <1>2, <1>5, <1>6 DEF Pending, Hot
<1>9. GuardPlaced'
  <2>1. CASE (Goes /\ pc + 1 \in DOMAIN Script) \/ Skips \/ Unwinds
    BY <1>1, <1>2, <1>3, <2>1, GuardKept DEF Safeguarded
  <2>2. CASE Step = "publish" /\ ph' = "rename" /\ pc' = pc /\ mode' = mode
    <3>1. Step' = Step /\ Script' = Script /\ Runs' /\ ~Ended
      BY <1>2, <1>3, <2>2, SameScript DEF Step, Runs
    <3> QED
      BY <1>1, <1>2, <1>3, <2>2, <3>1 DEF GuardPlaced, Safeguarded
  <2> QED
    BY <2>1, <2>2 DEF Plain
<1> QED
  BY <1>7, <1>8, <1>9 DEF Safeguarded

-----------------------------------------------------------------------------
(* Calls of CraneX7.                                                       *)

(* What an answer leaves: it is stopped unless it says that it is active.  *)
LEMMA AnswerLeaves ==
    ASSUME NEW c, NEW r, AppTypeOK, CallPlaced, ~Ended, c \in {"activate", "switch", "passive"},
           Answered(c, r)
    PROVE  /\ busy /\ ~busy' /\ call' = "none" /\ thread' = thread
           /\ r # "active" => (active' => active)
           /\ r \notin {"active", "threw"} => (tried => tried')
           /\ r = "threw" => c = "activate" /\ app = "x7_follow"
           /\ r = "active" => c \in {"activate", "switch"}
           /\ r \in {"released", "threw"} => ~active'
           /\ active' \in BOOLEAN /\ tried' \in BOOLEAN
<1>1. busy /\ c # "escalate"
  BY DEF Answered, CallPlaced
<1>2. r \in Answers(c) /\ Return(r) /\ call' = "none"
  BY DEF Answered
<1>3. thread' = thread
  BY <1>1 DEF Answered
<1>4. r \in {"active", "released", "threw", "refused", "limp"}
      /\ (r = "active" => c \in {"activate", "switch"})
      /\ (r = "threw" => c = "activate" /\ app = "x7_follow")
  BY <1>2 DEF Answers
<1>5. Promise(r)
  BY <1>2 DEF Return
<1>6. (r = "active" => active' = TRUE) /\ (r \in {"limp", "released", "threw"} => active' = FALSE)
      /\ (r = "refused" => active' = active)
  BY <1>5 DEF Promise
<1>7. tried' = IF r \in {"active", "threw"} THEN FALSE
               ELSE IF r \in {"released", "clean", "unclean"} THEN TRUE ELSE tried
  BY DEF Answered
<1> QED
  BY <1>1, <1>2, <1>3, <1>4, <1>6, <1>7 DEF Return, AppTypeOK, SessionTypeOK

(* What a stop or an escalation leaves.                                    *)
LEMMA StopLeaves ==
    ASSUME NEW c \in {"deactivate", "escalate"}, NEW r, AppTypeOK, CallPlaced, ~Ended,
           Answered(c, r)
    PROVE  /\ busy /\ call = c /\ ~busy' /\ call' = "none" /\ ~active' /\ tried'
           /\ thread' # "running" \/ (c = "deactivate" /\ thread' = thread)
           /\ thread = "none" => thread' = "none"
           /\ r \in {"clean", "unclean"} /\ Return(r)
<1>1. busy /\ call = c /\ r \in {"clean", "unclean"} /\ Return(r) /\ call' = "none"
  BY DEF Answered, CallPlaced, Answers
<1>2. active' = FALSE
  BY <1>1 DEF Return, Promise
<1>3. tried' = TRUE
  BY <1>1 DEF Answered
<1>4. thread' = IF c = "escalate" /\ thread = "running" THEN "exited" ELSE thread
  BY DEF Answered
<1> QED
  BY <1>1, <1>2, <1>3, <1>4 DEF Return

(* Outside its guard and bridge steps and outside a call, an arm that may  *)
(* move is watched.                                                        *)
LEMMA HotIsGuarded ==
    ASSUME Pending, Hot, ~Ended, ~Is({"guard"}), ~(Is({"bridge"}) /\ ph # "begin"),
           ~(Runs /\ ph = "calling")
    PROVE  GuardOnTop
BY DEF Pending

(* Where the guard is alive it is watched.                                 *)
LEMMA AliveIsOnTop ==
    ASSUME GuardPlaced, Runs, Guarded(Script, pc), Step \notin Ends
    PROVE  GuardOnTop
BY DEF GuardPlaced

(* What stays when no step of the script is taken.                         *)
LEMMA GuardStays ==
    ASSUME GuardPlaced, UNCHANGED <<prog, pc, mode, objects, guard>>
    PROVE  GuardPlaced' /\ (GuardOnTop' <=> GuardOnTop) /\ (Runs' <=> Runs) /\ (Ended' <=> Ended)
           /\ Step' = Step
<1>1. Script' = Script /\ Step' = Step
  BY SameScript DEF Step
<1> QED
  BY <1>1 DEF GuardPlaced, GuardOnTop, Runs, Ended

(* A call begins where a guard watches over it, or on an arm that is off.  *)
LEMMA CallSafeguarded ==
    ASSUME AppTypeOK, Safeguarded, CallBegin
    PROVE  Safeguarded'
<1>1. /\ Runs /\ ~Ended /\ ph = "begin" /\ ph' = "calling" /\ ~busy /\ busy'
      /\ call' = Step /\ thread' = thread /\ active' = active /\ tried' = tried
      /\ guard' = guard /\ UNCHANGED <<prog, pc, mode, objects, guard>>
  BY DEF CallBegin, Calls, Call, Runs, Ended
<1>2. Step \in {"activate", "switch", "passive"} /\ Step \notin Ends
  BY DEF CallBegin, Ends
<1>3. GuardPlaced' /\ (GuardOnTop' <=> GuardOnTop) /\ (Runs' <=> Runs) /\ (Ended' <=> Ended) /\ Step' = Step
  BY <1>1, GuardStays DEF Safeguarded
<1>4. guard \notin {"running", "quiesce"}
  BY <1>1, <1>2 DEF Safeguarded, GuardPlaced
<1>5. Hot => GuardOnTop
  BY <1>1, <1>2 DEF Safeguarded, Pending, Is
<1>6. PhasesPlaced'
  BY <1>1, <1>2, <1>3 DEF PhasesPlaced
<1>7. CallPlaced' /\ Stops'
  BY <1>1, <1>2, <1>3, <1>4 DEF CallPlaced, Stops, Stopping, Stopped
<1>8. Pending'
  BY <1>1, <1>3, <1>5 DEF Pending, Hot
<1> QED
  BY <1>3, <1>6, <1>7, <1>8 DEF Safeguarded

(* Its answer switches the arm on only under a guard, or just before.      *)
LEMMA AnswerSafeguarded ==
    ASSUME AppTypeOK, Safeguarded, CallEnd
    PROVE  Safeguarded'
<1>1. PICK r \in Answers(Step) :
         /\ Step = "switch" /\ ~active => r = "refused"
         /\ Answered(Step, r)
         /\ IF r \in {"active", "limp"} THEN Next1 /\ UNCHANGED <<mode, ending>> ELSE Fails
  BY DEF CallEnd
<1>2. /\ Runs /\ ~Ended /\ ph = "calling" /\ Step \in {"activate", "switch", "passive"}
      /\ prog' = prog /\ objects' = objects /\ guard' = guard /\ mode = "run"
      /\ Step \notin Ends \cup {"guard", "bridge"}
  BY DEF CallEnd, Runs, Ended, Ends
<1>3. /\ busy /\ ~busy' /\ call' = "none" /\ thread' = thread
      /\ r # "active" => (active' => active) /\ (tried => tried')
      /\ r = "active" => Step \in {"activate", "switch"}
  <2>1. r # "threw"
    <3>1. SUFFICES ASSUME Step = "activate", app = "x7_follow" PROVE FALSE
      BY <1>1, <1>2, AnswerLeaves DEF Safeguarded
    <3>2. pc \in DOMAIN Script /\ Script[pc][1] = "activate"
      BY <3>1 DEF AppTypeOK, Step
    <3> QED
      BY <3>1, <3>2, ScriptFacts DEF Fits, Script, app
  <2> QED
    BY <1>1, <1>2, <2>1, AnswerLeaves DEF Safeguarded
<1>4. guard \notin {"running", "quiesce"} /\ (GuardOnTop' <=> GuardOnTop)
  BY <1>2 DEF Safeguarded, GuardPlaced, GuardOnTop
<1>5. pc + 1 \in DOMAIN Script
  BY <1>2, HasNext
<1>6. Goes \/ Skips \/ Unwinds
  BY <1>1, <1>2, FailMoves DEF Next1, Goes
<1>7. ph' = "begin" /\ ~Ended'
  BY <1>6 DEF Goes, Skips, Unwinds, Ended
<1>8. GuardPlaced'
  BY <1>2, <1>4, <1>5, <1>6, GuardKept DEF Safeguarded, GuardPlaced
<1>9. PhasesPlaced' /\ CallPlaced' /\ Stops'
  BY <1>2, <1>3, <1>4, <1>7 DEF PhasesPlaced, CallPlaced, Stops, Stopping, Stopped
<1>10. Pending'
  <2>1. CASE r = "active"
    <3>1. CASE Step = "switch"
      <4>1. Guarded(Script, pc)
        BY <3>1, ScriptFacts DEF ArmInOrder, Step, AppTypeOK
      <4>2. GuardOnTop
        BY <1>2, <4>1, AliveIsOnTop DEF Safeguarded
      <4> QED
        BY <1>4, <1>7, <4>2 DEF Pending
    <3>2. CASE Step = "activate"
      <4>1. Script[pc + 1][1] = "guard"
        BY <3>2, ScriptFacts DEF ArmInOrder, Step, AppTypeOK
      <4>2. Goes
        BY <1>1, <1>2, <2>1 DEF Next1, Goes
      <4>3. Is({"guard"})'
        BY <1>2, <4>1, <4>2, SameScript DEF Is, Runs, Goes, Step
      <4> QED
        BY <1>7, <4>3 DEF Pending
    <3> QED
      BY <1>3, <2>1, <3>1, <3>2
  <2>2. CASE r # "active"
    BY <1>2, <1>3, <1>4, <1>7, <2>2 DEF Pending, Hot, Safeguarded
  <2> QED
    BY <2>1, <2>2
<1> QED
  BY <1>8, <1>9, <1>10 DEF Safeguarded

(* The thread is kept alive only under a guard.                            *)
LEMMA ThreadSafeguarded ==
    ASSUME AppTypeOK, Safeguarded, Stop \/ Keepalive
    PROVE  Safeguarded'
<1>1. /\ Runs /\ ~Ended /\ ph = "begin" /\ prog' = prog /\ objects' = objects
      /\ guard' = guard /\ call' = call /\ tried' = tried /\ busy' = busy /\ active' = active
      /\ Step \in {"stop", "keepalive"} /\ mode = "run"
  BY DEF Stop, Keepalive, At, Runs, Ended, ThreadJoined, ThreadStarts, sessionVars
<1>2. Step \notin Ends \cup {"guard", "bridge", "verdict"}
  BY <1>1 DEF Ends
<1>3. pc + 1 \in DOMAIN Script
  BY <1>2, HasNext
<1>4. Goes \/ Skips \/ Unwinds
  BY <1>1, FailMoves DEF Stop, Keepalive, Next1, Goes
<1>5. guard \notin {"running", "quiesce"} /\ (GuardOnTop' <=> GuardOnTop)
  BY <1>1, <1>2 DEF Safeguarded, GuardPlaced, GuardOnTop
<1>6. GuardPlaced'
  BY <1>1, <1>2, <1>3, <1>4, <1>5, GuardKept DEF Safeguarded, GuardPlaced
<1>7. ph' = "begin" /\ ~Ended'
  BY <1>4 DEF Goes, Skips, Unwinds, Ended
<1>8. PhasesPlaced' /\ CallPlaced' /\ Stops'
  BY <1>1, <1>5, <1>7 DEF PhasesPlaced, CallPlaced, Stops, Stopping, Stopped, Safeguarded
<1>9. Hot' => GuardOnTop
  <2>1. CASE Stop
    <3>1. Hot' => Hot
      BY <1>1, <2>1 DEF Stop, ThreadJoined, Hot
    <3> QED
      BY <1>1, <3>1, HotIsGuarded DEF Safeguarded, Is
  <2>2. CASE Keepalive
    <3>1. Guarded(Script, pc)
      BY <2>2, ScriptFacts DEF ArmInOrder, Step, AppTypeOK, Keepalive, At
    <3> QED
      BY <1>1, <1>2, <3>1, AliveIsOnTop DEF Safeguarded
  <2> QED
    BY <2>1, <2>2
<1>10. Pending'
  BY <1>5, <1>7, <1>9 DEF Pending
<1> QED
  BY <1>6, <1>8, <1>10 DEF Safeguarded

-----------------------------------------------------------------------------
(* RealArm::activate().                                                    *)

(* Where a bridge may stand without a guard, the next step builds it.      *)
LEMMA BridgeNext ==
    ASSUME AppTypeOK, Step = "bridge"
    PROVE  Guarded(Script, pc) \/ Script[pc + 1][1] = "guard"
BY ScriptFacts DEF ArmInOrder, Step, AppTypeOK

(* A bridge that goes on in its own step is its own safeguard.             *)
LEMMA BridgeStays ==
    ASSUME AppTypeOK, Safeguarded, Runs, Step = "bridge",
           UNCHANGED <<prog, pc, mode, objects, guard>>,
           ph' \in {"calling", "start", "wait", "undo", "undoing", "quiesce"},
           busy' <=> call' # "none",
           ph' = "calling" => /\ call' = "activate"
                              /\ ~GuardOnTop => ~active' /\ thread' # "running" /\ tried',
           ph' \in {"undoing", "quiesce"} => thread' = "none",
           ph' = "undoing" => call' = "deactivate",
           ph' = "quiesce" => ~busy' /\ ~active' /\ tried'
    PROVE  Safeguarded'
<1>1. GuardPlaced' /\ (GuardOnTop' <=> GuardOnTop) /\ (Runs' <=> Runs) /\ (Ended' <=> Ended) /\ Step' = Step
  BY GuardStays DEF Safeguarded
<1>2. guard \notin {"running", "quiesce"}
  BY DEF Safeguarded, GuardPlaced, Ends
<1>3. PhasesPlaced' /\ CallPlaced' /\ Stops'
  BY <1>1, <1>2 DEF PhasesPlaced, CallPlaced, Stops, Stopping, Stopped
<1>4. Pending'
  <2>1. Is({"bridge"})'
    BY <1>1 DEF Is
  <2> QED
    BY <1>1, <2>1 DEF Pending
<1> QED
  BY <1>1, <1>3, <1>4 DEF Safeguarded

(* A bridge that ends leaves the arm guarded, or off.                      *)
LEMMA BridgeMoves ==
    ASSUME AppTypeOK, Safeguarded, Runs, Step = "bridge", prog' = prog, objects' = objects,
           guard' = guard,
           busy' <=> call' # "none",
           \/ Goes
           \/ (Skips \/ Unwinds) /\ (GuardOnTop \/ ~Hot')
    PROVE  Safeguarded'
<1>1. pc + 1 \in DOMAIN Script /\ ~Ended /\ Step \notin Ends \cup {"guard"}
  BY HasNext DEF Runs, Ended, Ends
<1>2. guard \notin {"running", "quiesce"} /\ (GuardOnTop' <=> GuardOnTop)
  BY <1>1 DEF Safeguarded, GuardPlaced, GuardOnTop
<1>3. GuardPlaced'
  BY <1>1, <1>2, GuardKept DEF Safeguarded, GuardPlaced
<1>4. ph' = "begin" /\ ~Ended'
  BY DEF Goes, Skips, Unwinds, Ended
<1>5. PhasesPlaced' /\ CallPlaced' /\ Stops'
  BY <1>2, <1>4 DEF PhasesPlaced, CallPlaced, Stops, Stopping, Stopped
<1>6. CASE Goes
  <2>1. CASE Guarded(Script, pc)
    <3>1. GuardOnTop
      BY <1>1, <2>1, AliveIsOnTop DEF Safeguarded
    <3> QED
      BY <1>2, <1>3, <1>4, <1>5, <3>1 DEF Pending, Safeguarded
  <2>2. CASE Script[pc + 1][1] = "guard"
    <3>1. Step' = "guard" /\ Runs'
      BY <1>6, <2>2, SameScript DEF Step, Runs, Goes
    <3> QED
      BY <1>3, <1>4, <1>5, <3>1 DEF Pending, Is, Safeguarded
  <2> QED
    BY <1>3, <1>5, <2>1, <2>2, BridgeNext DEF Safeguarded
<1>7. CASE (Skips \/ Unwinds) /\ (GuardOnTop \/ ~Hot')
  BY <1>2, <1>3, <1>4, <1>5, <1>7 DEF Pending, Safeguarded
<1> QED
  BY <1>6, <1>7

(* Every step of RealArm::activate() keeps the safeguards.                 *)
LEMMA BridgeSafeguarded ==
    ASSUME AppTypeOK, Safeguarded, Bridge
    PROVE  Safeguarded'
<1>1. /\ Runs /\ ~Ended /\ Step = "bridge" /\ prog' = prog /\ objects' = objects
      /\ guard' = guard /\ mode = "run"
  BY DEF Bridge, BridgeBegin, BridgeActivated, BridgeStart, BridgeWait, BridgeUndo, At, Runs,
     Ended
<1>2. Hot /\ ph = "begin" => GuardOnTop
  BY <1>1 DEF Safeguarded, Pending, Is
<1>3. busy <=> call # "none"
  BY <1>1 DEF Safeguarded, CallPlaced
<1>4. ASSUME Fails PROVE Skips \/ Unwinds
  BY <1>1, <1>4, FailMoves
<1>5. CASE BridgeBegin
  <2>1. pc' = pc /\ mode' = mode /\ tried' = tried /\ ph = "begin"
    BY <1>5 DEF BridgeBegin, At
  <2>2. CASE active
    BY <1>1, <1>3, <1>5, <2>1, <2>2, BridgeStays DEF BridgeBegin, sessionVars
  <2>3. CASE ~active
    <3>1. /\ ph' = "calling" /\ call' = "activate" /\ busy' = TRUE /\ thread' = thread
          /\ active' = active
      BY <1>5, <2>3 DEF BridgeBegin, Calls, Call
    <3>2. ~GuardOnTop => ~active /\ thread # "running" /\ tried
      BY <1>2, <2>1 DEF Hot
    <3> QED
      BY <1>1, <2>1, <3>1, <3>2, BridgeStays
  <2> QED
    BY <2>2, <2>3
<1>6. CASE BridgeActivated
  <2>1. PICK r \in Answers("activate") :
          /\ Answered("activate", r)
          /\ CASE r = "active" -> ph' = "start" /\ UNCHANGED <<pc, mode, ending>>
               [] r = "threw" -> ph' = "undo" /\ UNCHANGED <<pc, mode, ending>>
               [] OTHER -> Fails
    BY <1>6 DEF BridgeActivated
  <2>2. /\ busy /\ ~busy' /\ call' = "none" /\ thread' = thread
        /\ r \notin {"active", "threw"} => (active' => active) /\ (tried => tried')
    BY <1>1, <2>1, AnswerLeaves DEF Safeguarded
  <2>3. ph = "calling"
    BY <1>6 DEF BridgeActivated
  <2>4. CASE r = "active"
    BY <1>1, <2>1, <2>2, <2>4, BridgeStays
  <2>5. CASE r = "threw"
    BY <1>1, <2>1, <2>2, <2>5, BridgeStays
  <2>6. CASE r # "active" /\ r # "threw"
    <3>1. Fails
      BY <2>1, <2>6
    <3>2. GuardOnTop \/ ~Hot'
      BY <1>1, <2>2, <2>3, <2>6 DEF Hot, Safeguarded, Pending
    <3> QED
      BY <1>1, <1>4, <2>2, <3>1, <3>2, BridgeMoves
  <2> QED
    BY <2>4, <2>5, <2>6
<1>7. CASE BridgeStart
  <2>1. /\ ph' \in {"wait", "undo"} /\ pc' = pc /\ mode' = mode
        /\ busy' = busy /\ call' = call
    BY <1>7 DEF BridgeStart, ThreadStarts, AfterNoThread, sessionVars
  <2> QED
    BY <1>1, <1>3, <2>1, BridgeStays
<1>8. CASE BridgeWait
  <2>1. busy' = busy /\ call' = call
    BY <1>8 DEF BridgeWait, sessionVars
  <2>2. CASE Next1 /\ UNCHANGED mode
    BY <1>1, <1>3, <2>1, <2>2, BridgeMoves DEF Next1, Goes
  <2>3. CASE AfterNoThread
    BY <1>1, <1>3, <2>1, <2>3, BridgeStays DEF AfterNoThread
  <2> QED
    BY <1>8, <2>2, <2>3 DEF BridgeWait
<1>9. CASE BridgeUndo
  <2>1. CASE ph = "undo"
    <3>1. /\ ph' = "undoing" /\ pc' = pc /\ mode' = mode /\ thread' = "none"
          /\ busy' = TRUE /\ call' = "deactivate"
      BY <1>9, <2>1 DEF BridgeUndo, Calls, Call
    <3> QED
      BY <1>1, <3>1, BridgeStays
  <2>2. CASE ph = "undoing"
    <3>1. PICK r \in Answers("deactivate") :
            /\ Answered("deactivate", r)
            /\ IF AfterStop(r) = "done"
                 THEN Fails
                 ELSE ph' = "quiesce" /\ UNCHANGED <<pc, mode, ending>>
      BY <1>9, <2>2 DEF BridgeUndo
    <3>2. thread = "none"
      BY <1>1, <2>2 DEF Safeguarded, Stops, Stopping
    <3>3. ~busy' /\ call' = "none" /\ ~active' /\ tried' /\ thread' = "none"
      BY <1>1, <3>1, <3>2, StopLeaves DEF Safeguarded
    <3>4. CASE Fails
      BY <1>1, <1>4, <3>3, <3>4, BridgeMoves DEF Hot
    <3>5. CASE ph' = "quiesce" /\ UNCHANGED <<pc, mode, ending>>
      BY <1>1, <3>3, <3>5, BridgeStays
    <3> QED
      BY <3>1, <3>4, <3>5
  <2>3. CASE ph = "quiesce"
    <3>1. ~busy /\ ~active /\ tried /\ thread = "none"
      BY <1>1, <2>3 DEF Safeguarded, Stops, Stopping, Stopped
    <3>2. Fails /\ UNCHANGED <<call, tried, busy, active, thread>>
      BY <1>9, <2>3 DEF BridgeUndo, Silenced
    <3> QED
      BY <1>1, <1>3, <1>4, <3>1, <3>2, BridgeMoves DEF Hot
  <2> QED
    BY <1>9, <2>1, <2>2, <2>3 DEF BridgeUndo
<1> QED
  BY <1>5, <1>6, <1>7, <1>8, <1>9 DEF Bridge

-----------------------------------------------------------------------------
(* The guard, the other objects and the end.                               *)

(* The guard is built over whatever is on.                                 *)
LEMMA GuardSafeguarded ==
    ASSUME AppTypeOK, Safeguarded, Guard
    PROVE  Safeguarded'
<1>1. /\ Runs /\ ~Ended /\ Step = "guard" /\ Step \notin Ends /\ ph = "begin"
      /\ objects' = Append(objects, "guard") /\ guard' = "armed" /\ Goes
      /\ UNCHANGED <<sessionVars, prog, call>>
  BY DEF Guard, At, Push, Next1, Goes, Runs, Ended, Ends
<1>2. pc + 1 \in DOMAIN Script /\ pc \in Nat \ {0}
  BY <1>1, HasNext
<1>3. guard # "done"
  <2>1. \A j \in 1..(pc - 1) : Script[j][1] \notin Ends
    BY <1>1, ScriptFacts DEF ArmInOrder, AppTypeOK, Step, ArmSteps
  <2>2. \A j \in 1..pc : Script[j][1] \notin Ends
    <3>1. \A j \in 1..pc : j = pc \/ j \in 1..(pc - 1)
      BY <1>2
    <3> QED
      BY <1>1, <2>1, <3>1 DEF Step
  <2> QED
    BY <1>1, <2>2 DEF Safeguarded, GuardPlaced
<1>4. ~Guarded(Script, pc)
  BY <1>1, ScriptFacts DEF FilesInOrder, AppTypeOK, Step
<1>5. ~GuardOnTop
  BY <1>1, <1>4 DEF Safeguarded, GuardPlaced, Ends
<1>6. \A i \in DOMAIN objects : objects[i] # "guard"
  BY <1>3, <1>5 DEF Safeguarded, GuardPlaced, GuardOnTop, AppTypeOK
<1>7. /\ Len(objects') = Len(objects) + 1 /\ objects' \in Seq(Object)
      /\ objects'[Len(objects')] = "guard" /\ objects' # <<>>
      /\ \A i \in DOMAIN objects' : i # Len(objects') => i \in DOMAIN objects /\ objects'[i] = objects[i]
  BY <1>1 DEF AppTypeOK, Object
<1>8. GuardOnTop'
  BY <1>1, <1>7 DEF GuardOnTop
<1>9. Runs' /\ ~Ended' /\ ph' = "begin" /\ pc' = pc + 1
  BY <1>1 DEF Goes, Runs, Ended
<1>10. Guarded(Script, pc + 1)
  BY <1>1, <1>2, GuardedNext DEF Step
<1>11. GuardPlaced'
  <2>1. Script' = Script
    BY <1>1, SameScript
  <2> QED
    BY <1>1, <1>6, <1>7, <1>8, <1>9, <1>10, <2>1 DEF GuardPlaced
<1>12. PhasesPlaced' /\ Stops'
  BY <1>1, <1>9 DEF PhasesPlaced, Stops, Stopping, Stopped
<1>13. CallPlaced'
  BY <1>1, <1>9 DEF CallPlaced, Safeguarded, sessionVars
<1>14. Pending'
  BY <1>8, <1>9 DEF Pending
<1> QED
  BY <1>11, <1>12, <1>13, <1>14 DEF Safeguarded

(* A step of the guard's run(), wherever it is called.                     *)
LEMMA RunSafeguarded ==
    ASSUME AppTypeOK, Safeguarded, GuardRuns, UNCHANGED <<prog, pc, ph, mode, objects>>, ~Ended,
           Runs => Step \in Ends /\ ph = "begin"
    PROVE  Safeguarded'
<1>1. Script' = Script /\ Step' = Step /\ (Runs' <=> Runs) /\ (Ended' <=> Ended)
  BY SameScript DEF Step, Runs, Ended
<1>2. guard \in {"armed", "running", "quiesce"} /\ GuardOnTop
  BY DEF GuardRuns, Safeguarded, GuardPlaced
<1>3. Runs => pc \in 1..pc /\ Script[pc][1] \in Ends
  BY ScriptFacts DEF AppTypeOK, Step
<1>4. guard' \in {"running", "quiesce", "done"}
  BY DEF GuardRuns, AfterStop
<1>5. GuardPlaced'
  <2>1. \A i \in DOMAIN objects : objects[i] = "guard" => i = Len(objects)
    BY <1>2 DEF Safeguarded, GuardPlaced
  <2>2. guard' # "done" => GuardOnTop'
    BY <1>2, <1>4 DEF GuardOnTop
  <2>3. GuardOnTop' => GuardOnTop
    BY <1>2
  <2> QED
    BY <1>1, <1>2, <1>3, <1>4, <2>1, <2>2 DEF GuardPlaced, Safeguarded
<1>6. PhasesPlaced'
  BY <1>1 DEF PhasesPlaced, Safeguarded
<1>7. Runs => ph' = "begin"
  OBVIOUS
<1>8. CASE guard = "armed"
  <2>1. /\ guard' = "running" /\ call' = "deactivate" /\ busy' = TRUE /\ thread' = "none"
    BY <1>8 DEF GuardRuns, Calls, Call
  <2>2. GuardOnTop'
    BY <1>2, <2>1 DEF GuardOnTop
  <2>3. CallPlaced' /\ Stops' /\ Pending'
    BY <1>1, <1>7, <2>1, <2>2 DEF CallPlaced, Stops, Stopping, Stopped, Pending
  <2> QED
    BY <1>5, <1>6, <2>3 DEF Safeguarded
<1>9. CASE guard = "running"
  <2>1. PICK r \in Answers("deactivate") :
          Answered("deactivate", r) /\ clean' = (r = "clean") /\ guard' = AfterStop(r)
    BY <1>9 DEF GuardRuns
  <2>2. thread = "none"
    BY <1>9 DEF Safeguarded, Stops, Stopping
  <2>3. ~busy' /\ call' = "none" /\ ~active' /\ tried' /\ thread' = "none"
    BY <2>1, <2>2, StopLeaves DEF Safeguarded
  <2>4. guard' # "running"
    BY <2>1 DEF AfterStop
  <2>5. CallPlaced' /\ Stops' /\ Pending'
    BY <1>1, <1>7, <2>3, <2>4 DEF CallPlaced, Stops, Stopping, Stopped, Pending, Hot
  <2> QED
    BY <1>5, <1>6, <2>5 DEF Safeguarded
<1>10. CASE guard = "quiesce"
  <2>1. /\ guard' = "done" /\ UNCHANGED <<call, tried, busy, active, thread>>
    BY <1>10 DEF GuardRuns, Silenced
  <2>2. thread = "none" /\ ~busy /\ ~active /\ tried
    BY <1>10 DEF Safeguarded, Stops, Stopping, Stopped
  <2>3. CallPlaced' /\ Stops' /\ Pending'
    BY <1>1, <1>7, <2>1, <2>2 DEF CallPlaced, Stops, Stopping, Stopped, Pending, Hot, Safeguarded
  <2> QED
    BY <1>5, <1>6, <2>3 DEF Safeguarded
<1> QED
  BY <1>2, <1>8, <1>9, <1>10

(* What an end leaves behind, when its guard is gone.                      *)
LEMMA EndSafeguarded ==
    ASSUME AppTypeOK, Safeguarded, Runs, ph = "begin", Step \in Ends, Goes, ~GuardOnTop,
           UNCHANGED <<prog, objects, guard, call, sessionVars, tried>>
    PROVE  Safeguarded' /\ ~Hot
<1>1. pc + 1 \in DOMAIN Script /\ pc \in Nat \ {0} /\ Script[pc][1] \in Ends
  BY HasNext DEF Ends, Step
<1>2. guard \in {"none", "done"} /\ ~Ended
  BY DEF Safeguarded, GuardPlaced, AppTypeOK, Runs, Ended
<1>3. ~Hot
  BY <1>2 DEF Safeguarded, Pending, Is, Ends
<1>4. ~Guarded(Script, pc + 1) /\ pc \in 1..(pc + 1)
  BY <1>1, GuardedNext
<1>5. Runs' /\ ~Ended' /\ ph' = "begin" /\ pc' = pc + 1 /\ Script' = Script
  BY SameScript DEF Goes, Runs, Ended
<1>6. ~GuardOnTop'
  BY DEF GuardOnTop
<1>7. GuardPlaced'
  BY <1>1, <1>2, <1>4, <1>5, <1>6 DEF GuardPlaced, Safeguarded
<1>8. PhasesPlaced' /\ CallPlaced' /\ Stops'
  BY <1>2, <1>5 DEF PhasesPlaced, CallPlaced, Stops, Stopping, Stopped, Safeguarded, sessionVars
<1>9. Pending'
  BY <1>3, <1>5 DEF Pending, Hot, sessionVars
<1> QED
  BY <1>3, <1>7, <1>8, <1>9 DEF Safeguarded

(* Where a scope is left its guard was left before, or is its last object. *)
LEMMA ScopeLeft ==
    ASSUME AppTypeOK, Safeguarded, At("leave"), ~Leaving
    PROVE  ~GuardOnTop
<1>1. SUFFICES ASSUME GuardOnTop PROVE FALSE
  OBVIOUS
<1>2. Runs /\ Step = "leave"
  BY DEF At, Runs
<1>3. "guard" \in Script[pc][2]
  <2>1. Guarded(Script, pc) \/ "guard" \in Script[pc][2]
    BY <1>1, <1>2 DEF Safeguarded, GuardPlaced
  <2> QED
    BY <1>2, <2>1, ScriptFacts DEF ArmInOrder, AppTypeOK, Step
<1>4. objects # <<>> /\ Last(objects) = "guard"
  BY <1>1 DEF GuardOnTop, Last
<1> QED
  BY <1>3, <1>4 DEF Leaving

(* An object other than an armed guard is destroyed.                       *)
LEMMA PopSafeguarded ==
    ASSUME AppTypeOK, Safeguarded, Leaving, objects # <<>>, ~GuardOnTop, objects' = Front(objects),
           UNCHANGED <<prog, pc, ph, mode, guard, call, busy, active, tried>>,
           thread' \in {thread, "none"}
    PROVE  Safeguarded'
<1>1. ~Ended /\ (Runs => Step = "leave" /\ ph = "begin")
  BY DEF Leaving, At, Ended, Runs
<1>2. guard \in {"none", "done"}
  BY <1>1 DEF Safeguarded, GuardPlaced, AppTypeOK
<1>3. /\ Len(objects') = Len(objects) - 1 /\ Len(objects) \in Nat \ {0}
      /\ DOMAIN objects' = 1..(Len(objects) - 1) /\ DOMAIN objects = 1..Len(objects)
      /\ \A i \in DOMAIN objects' : objects'[i] = objects[i]
  BY FrontFacts DEF AppTypeOK
<1>4. \A i \in DOMAIN objects' : ~(objects'[i] = "guard" /\ guard # "done")
  <2>1. ~(objects[Len(objects)] = "guard" /\ guard # "done")
    BY DEF GuardOnTop
  <2> QED
    BY <1>3, <2>1 DEF Safeguarded, GuardPlaced
<1>5. ~GuardOnTop'
  <2>1. objects' # <<>> => Len(objects') \in DOMAIN objects'
    BY <1>3
  <2> QED
    BY <1>4, <2>1 DEF GuardOnTop
<1>6. Script' = Script /\ Step' = Step /\ (Runs' <=> Runs) /\ (Ended' <=> Ended)
  BY SameScript DEF Step, Runs, Ended
<1>7. ~Hot
  BY <1>1 DEF Safeguarded, Pending, Is
<1>8. GuardPlaced'
  <2>1. Step = "leave" => Step \in Ends
    BY DEF Ends
  <2> QED
    BY <1>1, <1>2, <1>4, <1>5, <1>6, <2>1 DEF GuardPlaced, Safeguarded
<1>9. PhasesPlaced' /\ CallPlaced' /\ Stops'
  BY <1>1, <1>2, <1>6 DEF PhasesPlaced, CallPlaced, Stops, Stopping, Stopped, Safeguarded
<1>10. Pending'
  BY <1>1, <1>6, <1>7 DEF Pending, Hot
<1> QED
  BY <1>8, <1>9, <1>10 DEF Safeguarded

(* The release in the script.                                              *)
LEMMA ReleaseSafeguarded ==
    ASSUME AppTypeOK, Safeguarded, Release
    PROVE  Safeguarded'
<1>1. /\ Runs /\ ~Ended /\ Step = "release" /\ Step \in Ends /\ ph = "begin" /\ mode' = mode
      /\ UNCHANGED <<prog, objects>>
  BY DEF Release, At, Runs, Ended, Ends
<1>2. CASE GuardRuns /\ UNCHANGED <<pc, ph>>
  BY <1>1, <1>2, RunSafeguarded
<1>3. CASE guard = "done" /\ Next1 /\ UNCHANGED <<sessionVars, call, guard, clean, tried>>
  <2>1. Goes /\ ~GuardOnTop
    BY <1>1, <1>3 DEF Next1, Goes, Runs, GuardOnTop
  <2> QED
    BY <1>1, <1>3, <2>1, EndSafeguarded
<1> QED
  BY <1>2, <1>3 DEF Release

(* A scope is left with its guard gone.                                    *)
LEMMA LeftSafeguarded ==
    ASSUME AppTypeOK, Safeguarded, Left
    PROVE  Safeguarded'
<1>1. /\ Runs /\ Step = "leave" /\ Step \in Ends /\ ph = "begin" /\ Goes
      /\ UNCHANGED <<prog, objects, guard, call, sessionVars, tried>>
  BY DEF Left, At, Runs, Ends, Next1, Goes
<1>2. ~GuardOnTop
  BY ScopeLeft DEF Left
<1> QED
  BY <1>1, <1>2, EndSafeguarded

(* A program is unwound, or leaves a scope, where its objects go.          *)
LEMMA LeavingEnds ==
    ASSUME Leaving
    PROVE  ~Ended /\ (Runs => Step = "leave" /\ Step \in Ends /\ ph = "begin")
BY DEF Leaving, At, Ended, Runs, Ends

(* The destructor of the guard runs it.                                    *)
LEMMA DestroyGuardSafeguarded ==
    ASSUME AppTypeOK, Safeguarded, DestroyGuard
    PROVE  Safeguarded'
<1>1. /\ Leaving /\ objects # <<>> /\ objects[Len(objects)] = "guard"
      /\ UNCHANGED <<prog, pc, ph, mode>>
  BY DEF DestroyGuard, Top, Last
<1>2. CASE GuardRuns /\ UNCHANGED objects
  BY <1>1, <1>2, LeavingEnds, RunSafeguarded
<1>3. CASE guard = "done" /\ Pop /\ UNCHANGED <<sessionVars, call, guard, clean, tried>>
  <2>1. ~GuardOnTop /\ objects' = Front(objects) /\ UNCHANGED <<guard, call, busy, active, tried, thread>>
    BY <1>3 DEF GuardOnTop, Pop, sessionVars
  <2> QED
    BY <1>1, <2>1, PopSafeguarded
<1> QED
  BY <1>2, <1>3 DEF DestroyGuard

(* The destructor of CraneX7 meets an arm that is off.                     *)
LEMMA DestroyPortSafeguarded ==
    ASSUME AppTypeOK, Safeguarded, DestroyPort
    PROVE  Safeguarded'
<1>1. /\ Leaving /\ objects # <<>> /\ objects[Len(objects)] = "port"
      /\ UNCHANGED <<prog, pc, ph, call, mode, guard, clean, tried>>
  BY DEF DestroyPort, Top, Last
<1>2. ~GuardOnTop
  BY <1>1 DEF GuardOnTop
<1>3. CASE ThreadJoined /\ UNCHANGED objects
  <2>1. /\ (Ended' <=> Ended) /\ (Runs' <=> Runs) /\ Step' = Step
        /\ GuardPlaced' /\ (GuardOnTop' <=> GuardOnTop)
    BY <1>1, <1>3, GuardStays DEF Safeguarded
  <2>2. ~Ended /\ ~Hot
    BY <1>1, <1>2, LeavingEnds DEF Safeguarded, Pending, Is
  <2>3. UNCHANGED <<busy, active>> /\ thread' = "none"
    BY <1>3 DEF ThreadJoined
  <2>4. PhasesPlaced' /\ CallPlaced' /\ Stops'
    BY <1>1, <2>1, <2>3 DEF PhasesPlaced, CallPlaced, Stops, Stopping, Stopped, Safeguarded
  <2>5. Pending'
    BY <1>1, <2>1, <2>2, <2>3, LeavingEnds DEF Pending, Hot
  <2> QED
    BY <2>1, <2>4, <2>5 DEF Safeguarded
<1>4. CASE Silenced /\ Pop
  BY <1>1, <1>2, <1>4, PopSafeguarded DEF Silenced, Pop
<1> QED
  BY <1>3, <1>4 DEF DestroyPort

(* The destructors of the outputs leave the arm alone.                     *)
LEMMA DestroyOutputSafeguarded ==
    ASSUME AppTypeOK, Safeguarded, DestroyOutput
    PROVE  Safeguarded'
<1>1. /\ Leaving /\ objects # <<>> /\ objects[Len(objects)] # "guard"
      /\ objects' = Front(objects)
      /\ UNCHANGED <<sessionVars, prog, pc, ph, call, mode, guard, clean, tried>>
  BY DEF DestroyOutput, Top, Pop, Last
<1>2. ~GuardOnTop
  BY <1>1 DEF GuardOnTop
<1> QED
  BY <1>1, <1>2, PopSafeguarded DEF sessionVars

(* Over a finished program nothing more is said.                           *)
LEMMA OverSafeguarded ==
    ASSUME Safeguarded, mode' = "over", UNCHANGED <<prog, pc, objects, guard>>
    PROVE  Safeguarded'
<1>1. Ended' /\ ~Runs'
  BY DEF Ended, Runs
<1> QED
  BY <1>1 DEF Safeguarded, PhasesPlaced, GuardPlaced, CallPlaced, Stops, Stopping, Stopped, Pending

(* What goes on around a program that stays where it is.                   *)
LEMMA AroundSafeguarded ==
    ASSUME AppTypeOK, Safeguarded, ~Ended,
           UNCHANGED <<prog, pc, ph, mode, objects, guard>>,
           busy' <=> call' # "none",
           \/ UNCHANGED <<busy, call, active, thread, tried>>
           \/ ~busy /\ Hot /\ thread' \in {thread, "none"} /\ ~Stopping /\ call' = "escalate"
              /\ UNCHANGED <<active, tried>>
           \/ busy /\ call = "escalate" /\ ~busy' /\ ~active' /\ thread' # "running" /\ tried'
              /\ (thread = "none" => thread' = "none")
    PROVE  Safeguarded'
<1>1. GuardPlaced' /\ (GuardOnTop' <=> GuardOnTop) /\ (Runs' <=> Runs) /\ (Ended' <=> Ended) /\ Step' = Step
  BY GuardStays DEF Safeguarded
<1>2. PhasesPlaced'
  BY <1>1 DEF PhasesPlaced, Safeguarded
<1>3. CASE UNCHANGED <<busy, call, active, thread, tried>>
  <2>1. CallPlaced' /\ Stops'
    BY <1>1, <1>3 DEF CallPlaced, Stops, Stopping, Stopped, Safeguarded
  <2>2. Pending'
    BY <1>1, <1>3 DEF Pending, Hot, Is, Safeguarded
  <2> QED
    BY <1>1, <1>2, <2>1, <2>2 DEF Safeguarded
<1>4. CASE ~busy /\ Hot /\ ~Stopping /\ call' = "escalate" /\ UNCHANGED <<active, tried>>
           /\ thread' \in {thread, "none"}
  <2>1. call = "none" /\ ~(Runs /\ ph \in {"calling", "undoing"}) /\ guard # "running"
    BY <1>4 DEF Safeguarded, CallPlaced, Stopping
  <2>2. CallPlaced' /\ Stops'
    BY <1>1, <1>4, <2>1 DEF CallPlaced, Stops, Stopping, Stopped, Safeguarded
  <2>3. Pending'
    BY <1>1, <1>4, <2>1 DEF Pending, Is, Safeguarded
  <2> QED
    BY <1>1, <1>2, <2>2, <2>3 DEF Safeguarded
<1>5. CASE busy /\ call = "escalate" /\ ~busy' /\ ~active' /\ thread' # "running" /\ tried'
           /\ (thread = "none" => thread' = "none")
  <2>1. ~(Runs /\ ph \in {"calling", "undoing"}) /\ guard # "running"
    BY <1>5 DEF Safeguarded, CallPlaced
  <2>2. CallPlaced' /\ Stops'
    BY <1>1, <1>5, <2>1 DEF CallPlaced, Stops, Stopping, Stopped, Safeguarded
  <2>3. Pending'
    BY <1>1, <1>5, <2>1 DEF Pending, Hot, Is, Safeguarded
  <2> QED
    BY <1>1, <1>2, <2>2, <2>3 DEF Safeguarded
<1> QED
  BY <1>3, <1>4, <1>5

(* An escalation begins where the arm may move, and ends with it off.      *)
LEMMA EscalateSafeguarded ==
    ASSUME AppTypeOK, Safeguarded, Escalate
    PROVE  Safeguarded'
<1>1. ~Ended /\ UNCHANGED <<prog, pc, ph, mode, objects, guard>>
  BY DEF Escalate, Ended
<1>2. CASE /\ thread = "running" \/ (At("drive") /\ thread = "none" /\ active)
           /\ Calls("escalate", thread) /\ UNCHANGED tried
  <2>1. ~busy /\ busy' = TRUE /\ thread' = thread /\ active' = active /\ call' = "escalate" /\ Hot
    BY <1>2 DEF Calls, Call, Hot
  <2>2. ~Stopping
    <3>1. CASE thread = "running"
      BY <3>1 DEF Safeguarded, Stops
    <3>2. CASE At("drive") /\ active
      <4>1. Runs /\ ph = "begin" /\ Step = "drive" /\ Step \notin Ends
        BY <3>2 DEF At, Runs, Ends
      <4> QED
        BY <4>1 DEF Stopping, Safeguarded, GuardPlaced
    <3> QED
      BY <1>2, <3>1, <3>2
  <2> QED
    BY <1>1, <1>2, <2>1, <2>2, AroundSafeguarded
<1>3. CASE \E r \in Answers("escalate") : Answered("escalate", r)
  <2>1. /\ busy /\ call = "escalate" /\ ~busy' /\ call' = "none" /\ ~active' /\ tried'
        /\ thread' # "running" /\ (thread = "none" => thread' = "none")
    BY <1>1, <1>3, StopLeaves DEF Safeguarded
  <2> QED
    BY <1>1, <2>1, AroundSafeguarded
<1> QED
  BY <1>2, <1>3 DEF Escalate

(* Transactions and other processes change nothing of it.                  *)
LEMMA AroundStaysSafeguarded ==
    ASSUME AppTypeOK, Safeguarded, Transacts \/ Foreign
    PROVE  Safeguarded'
<1>1. ~Ended /\ UNCHANGED <<prog, pc, ph, mode, objects, guard, busy, call, active, thread, tried>>
  BY DEF Transacts, Foreign, Transaction, Ended, control, sessionVars
<1>2. busy' <=> call' # "none"
  BY <1>1 DEF Safeguarded, CallPlaced
<1> QED
  BY <1>1, <1>2, AroundSafeguarded

(* Safeguarded is kept by every step.                                      *)
LEMMA SafeguardedStep ==
    ASSUME AppTypeOK, Safeguarded, [AppNext]_appVars
    PROVE  Safeguarded'
<1>1. CASE PlainSteps
  BY <1>1, PlainMoves, PlainSafeguarded
<1>2. CASE Guard
  BY <1>2, GuardSafeguarded
<1>3. CASE CallBegin
  BY <1>3, CallSafeguarded
<1>4. CASE CallEnd
  BY <1>4, AnswerSafeguarded
<1>5. CASE Stop \/ Keepalive
  BY <1>5, ThreadSafeguarded
<1>6. CASE Bridge
  BY <1>6, BridgeSafeguarded
<1>7. CASE Release
  BY <1>7, ReleaseSafeguarded
<1>8. CASE Destroy
  <2>1. CASE End
    BY <2>1, OverSafeguarded DEF End
  <2> QED
    BY <1>8, <2>1, DestroyGuardSafeguarded, DestroyPortSafeguarded, DestroyOutputSafeguarded, LeftSafeguarded
    DEF Destroy
<1>9. CASE Escalate
  BY <1>9, EscalateSafeguarded
<1>10. CASE Transacts \/ Foreign
  BY <1>10, AroundStaysSafeguarded
<1>11. CASE Killed
  BY <1>11, OverSafeguarded DEF Killed
<1>12. CASE UNCHANGED appVars
  <2>1. UNCHANGED <<prog, pc, ph, mode, objects, guard, busy, call, active, thread, tried>>
    BY <1>12 DEF appVars, control, sessionVars
  <2>2. CASE Ended
    BY <2>1, <2>2, OverSafeguarded DEF Ended
  <2>3. CASE ~Ended
    BY <2>1, <2>3, AroundSafeguarded DEF Safeguarded, CallPlaced
  <2> QED
    BY <2>2, <2>3
<1> QED
  BY <1>1, <1>2, <1>3, <1>4, <1>5, <1>6, <1>7, <1>8, <1>9, <1>10, <1>11, <1>12
  DEF AppNext, Program, Environment, PlainSteps

-----------------------------------------------------------------------------
(* The types.                                                              *)

(* An answer is a return of the session.                                   *)
LEMMA AnswersAreReturns ==
    ASSUME NEW c \in {"activate", "switch", "passive", "deactivate", "escalate"},
           NEW r \in Answers(c), Answered(c, r)
    PROVE  SessionNext
<1>1. r \in {"active", "refused", "released", "clean", "unclean", "limp", "threw"}
  BY DEF Answers
<1> QED
  BY <1>1 DEF Answered, SessionNext, Returns

(* The guard takes steps of the session.                                   *)
LEMMA GuardSession ==
    ASSUME GuardRuns
    PROVE  [SessionNext]_sessionVars
<1>1. CASE Calls("deactivate", "none")
  BY <1>1 DEF Calls, SessionNext
<1>2. CASE \E r \in Answers("deactivate") : Answered("deactivate", r)
  BY <1>2, AnswersAreReturns
<1>3. CASE Silenced
  BY <1>3 DEF SessionNext
<1> QED
  BY <1>1, <1>2, <1>3 DEF GuardRuns

(* A step of a program is a step of the session, or none.                  *)
LEMMA SessionSteps ==
    ASSUME AppTypeOK, [AppNext]_appVars
    PROVE  [SessionNext]_sessionVars
<1>1. CASE PlainSteps \/ Guard
  <2>1. UNCHANGED sessionVars
    BY <1>1, PlainMoves DEF Plain, ArmUntouched, Guard
  <2> QED
    BY <2>1
<1>2. CASE CallBegin
  BY <1>2 DEF CallBegin, Calls, SessionNext
<1>3. CASE CallEnd
  BY <1>3, AnswersAreReturns DEF CallEnd
<1>4. CASE Stop \/ Keepalive
  BY <1>4 DEF Stop, Keepalive, SessionNext
<1>5. CASE BridgeBegin
  BY <1>5 DEF BridgeBegin, Calls, SessionNext
<1>6. CASE BridgeActivated
  BY <1>6, AnswersAreReturns DEF BridgeActivated
<1>7. CASE BridgeStart \/ BridgeWait
  BY <1>7 DEF BridgeStart, BridgeWait, SessionNext
<1>8. CASE BridgeUndo
  <2>1. CASE Calls("deactivate", "none")
    BY <2>1 DEF Calls, SessionNext
  <2>2. CASE \E r \in Answers("deactivate") : Answered("deactivate", r)
    BY <2>2, AnswersAreReturns
  <2>3. CASE Silenced
    BY <2>3 DEF SessionNext
  <2> QED
    BY <1>8, <2>1, <2>2, <2>3 DEF BridgeUndo
<1>9. CASE Release \/ DestroyGuard
  BY <1>9, GuardSession DEF Release, DestroyGuard
<1>10. CASE DestroyPort \/ DestroyOutput \/ Left \/ End
  BY <1>10 DEF DestroyPort, DestroyOutput, Left, End, SessionNext
<1>11. CASE Escalate
  BY <1>11, AnswersAreReturns DEF Escalate, Calls, SessionNext
<1>12. CASE Transacts \/ Foreign \/ Killed
  BY <1>12 DEF Transacts, Foreign, Killed, SessionNext
<1>13. CASE UNCHANGED appVars
  BY <1>13 DEF appVars
<1> QED
  BY <1>1, <1>2, <1>3, <1>4, <1>5, <1>6, <1>7, <1>8, <1>9, <1>10, <1>11, <1>12, <1>13
  DEF AppNext, Program, Environment, PlainSteps, Bridge, Destroy

(* A step of the session keeps its types.                                  *)
LEMMA SessionTyped ==
    ASSUME SessionTypeOK, [SessionNext]_sessionVars
    PROVE  SessionTypeOK'
<1>1. CASE Call \/ Transaction \/ ThreadStarts \/ ThreadJoined \/ Silenced
  BY <1>1 DEF SessionTypeOK, Call, Transaction, Switches, ThreadStarts, ThreadJoined, Silenced
<1>2. CASE Returns
  <2>1. PICK r \in {"active", "refused", "released", "clean", "unclean", "limp", "threw"} :
          Return(r)
    BY <1>2 DEF Returns
  <2>2. active' \in {TRUE, FALSE, active}
    BY <2>1 DEF Return, Promise
  <2> QED
    BY <2>1, <2>2 DEF SessionTypeOK, Return, Switches
<1>3. CASE UNCHANGED sessionVars
  BY <1>3 DEF SessionTypeOK, sessionVars
<1> QED
  BY <1>1, <1>2, <1>3 DEF SessionNext

Phase == {"begin", "calling", "start", "wait", "undo", "undoing", "quiesce", "rename"}
Place == pc' \in DOMAIN Script /\ ph' \in Phase /\ mode' \in {"run", "unwind", "over"}

(* Where a program is after a step.                                        *)
LEMMA PlaceTyped ==
    ASSUME AppTypeOK, [AppNext]_appVars
    PROVE  Place
<1> USE DEF Phase
<1>1. ASSUME Goes \/ Skips \/ Unwinds, Goes => Step # "verdict" PROVE Place
  BY <1>1, HasNext DEF Goes, Skips, Unwinds, Place, AppTypeOK
<1>2. ASSUME pc' = pc, ph' \in Phase, mode' \in {"run", "unwind", "over"} PROVE Place
  BY <1>2 DEF Place, AppTypeOK
<1>3. ASSUME UNCHANGED <<pc, ph, mode>> PROVE Place
  BY <1>3, <1>2 DEF AppTypeOK
<1>4. ASSUME Runs, Fails PROVE Skips \/ Unwinds
  BY <1>4, FailMoves
<1>5. ASSUME Runs, mode' = mode, Next1 PROVE Goes
  BY <1>5 DEF Next1, Goes, Runs
<1>6. CASE PlainSteps
  <2>1. Plain
    BY <1>6, PlainMoves
  <2>2. mode = "run"
    BY <2>1 DEF Plain, Runs
  <2>3. CASE Goes /\ pc + 1 \in DOMAIN Script
    BY <2>3 DEF Goes, Place
  <2>4. CASE Skips \/ Unwinds
    BY <2>4 DEF Skips, Unwinds, Place, AppTypeOK
  <2>5. CASE ph' = "rename" /\ pc' = pc /\ mode' = mode
    BY <2>2, <2>5, <1>2
  <2> QED
    BY <2>1, <2>3, <2>4, <2>5 DEF Plain
<1>7. CASE Guard
  BY <1>7, <1>1, <1>5 DEF Guard, At, Runs
<1>8. CASE CallBegin
  BY <1>8, <1>2 DEF CallBegin
<1>9. CASE CallEnd
  BY <1>9, <1>1, <1>4, <1>5 DEF CallEnd, Runs
<1>10. CASE Stop \/ Keepalive
  BY <1>10, <1>1, <1>4, <1>5 DEF Stop, Keepalive, At, Runs
<1>11. CASE Bridge
  <2>1. Runs /\ Step = "bridge" /\ mode = "run"
    BY <1>11 DEF Bridge, BridgeBegin, BridgeActivated, BridgeStart, BridgeWait, BridgeUndo,
       At, Runs
  <2>2. \/ Fails
        \/ Next1 /\ mode' = mode
        \/ pc' = pc /\ mode' = mode /\ ph' \in Phase
    BY <1>11 DEF Bridge, BridgeBegin, BridgeActivated, BridgeStart, BridgeWait, BridgeUndo,
       AfterNoThread
  <2> QED
    BY <2>1, <2>2, <1>1, <1>2, <1>4, <1>5
<1>12. CASE Release \/ Left
  BY <1>12, <1>1, <1>3, <1>5 DEF Release, Left, At, Runs
<1>13. CASE DestroyGuard \/ DestroyPort \/ DestroyOutput
  BY <1>13, <1>3 DEF DestroyGuard, DestroyPort, DestroyOutput
<1>14. CASE End \/ Killed
  BY <1>14, <1>2 DEF End, Killed, AppTypeOK
<1>15. CASE Escalate \/ Transacts \/ Foreign \/ UNCHANGED appVars
  BY <1>15, <1>3 DEF Escalate, Transacts, Foreign, appVars, control
<1> QED
  BY <1>6, <1>7, <1>8, <1>9, <1>10, <1>11, <1>12, <1>13, <1>14, <1>15
  DEF AppNext, Program, Environment, PlainSteps, Destroy

(* The guard, the call and the history.                                    *)
LEMMA AnswerTyped ==
    ASSUME AppTypeOK, NEW c, NEW r, Answered(c, r)
    PROVE  call' = "none" /\ tried' \in BOOLEAN
<1>1. tried' \in {TRUE, FALSE, tried}
  BY DEF Answered
<1> QED
  BY <1>1 DEF Answered, AppTypeOK

Calling ==
    /\ call' \in {"none", "activate", "switch", "passive", "deactivate", "escalate"}
    /\ tried' \in BOOLEAN

Guarding ==
    /\ guard' \in {"none", "armed", "running", "quiesce", "done"}
    /\ clean' \in BOOLEAN

(* A step of the guard keeps the types.                                    *)
LEMMA GuardTyped ==
    ASSUME AppTypeOK, GuardRuns
    PROVE  Calling /\ Guarding
<1>1. CASE guard \in {"armed", "quiesce"}
  BY <1>1 DEF GuardRuns, Calls, AppTypeOK, Calling, Guarding
<1>2. CASE guard = "running"
  <2>1. PICK r \in Answers("deactivate") :
          Answered("deactivate", r) /\ clean' = (r = "clean") /\ guard' = AfterStop(r)
    BY <1>2 DEF GuardRuns
  <2>2. call' = "none" /\ tried' \in BOOLEAN
    BY <2>1, AnswerTyped
  <2> QED
    BY <2>1, <2>2 DEF AfterStop, Calling, Guarding
<1> QED
  BY <1>1, <1>2 DEF GuardRuns

(* A step keeps the types of the call and of the guard.                    *)
LEMMA CallTyped ==
    ASSUME AppTypeOK, [AppNext]_appVars
    PROVE  Calling /\ Guarding
<1>1. ASSUME UNCHANGED <<call, tried>> PROVE Calling
  BY <1>1 DEF Calling, AppTypeOK
<1>2. ASSUME UNCHANGED <<guard, clean>> PROVE Guarding
  BY <1>2 DEF Guarding, AppTypeOK
<1>3. ASSUME NEW c \in {"activate", "switch", "passive", "deactivate", "escalate"},
             NEW thr, Calls(c, thr), tried' = tried
      PROVE  Calling
  BY <1>3 DEF Calling, Calls, AppTypeOK
<1>4. ASSUME NEW c, NEW r, Answered(c, r) PROVE Calling
  BY <1>4, AnswerTyped DEF Calling
<1>5. CASE PlainSteps
  BY <1>5, <1>1, <1>2, PlainMoves DEF Plain, ArmUntouched
<1>6. CASE Guard
  BY <1>6, <1>1 DEF Guard, Guarding, AppTypeOK
<1>7. CASE CallBegin
  BY <1>7, <1>2, <1>3 DEF CallBegin
<1>8. CASE CallEnd
  BY <1>8, <1>2, <1>4 DEF CallEnd
<1>9. CASE Stop \/ Keepalive \/ DestroyPort \/ DestroyOutput \/ Left \/ End
  BY <1>9, <1>1, <1>2 DEF Stop, Keepalive, DestroyPort, DestroyOutput, Left, End
<1>10. CASE Bridge
  <2>1. UNCHANGED <<guard, clean>>
    BY <1>10 DEF Bridge, BridgeBegin, BridgeActivated, BridgeStart, BridgeWait, BridgeUndo
  <2>2. Calling
    BY <1>10, <1>1, <1>3, <1>4
    DEF Bridge, BridgeBegin, BridgeActivated, BridgeStart, BridgeWait, BridgeUndo
  <2> QED
    BY <2>1, <2>2, <1>2
<1>11. CASE Release \/ DestroyGuard
  BY <1>11, <1>1, <1>2, GuardTyped DEF Release, DestroyGuard
<1>12. CASE Escalate
  BY <1>12, <1>2, <1>3, <1>4 DEF Escalate
<1>13. CASE Transacts \/ Foreign \/ Killed \/ UNCHANGED appVars
  BY <1>13, <1>1, <1>2 DEF Transacts, Foreign, Killed, appVars, control
<1> QED
  BY <1>5, <1>6, <1>7, <1>8, <1>9, <1>10, <1>11, <1>12, <1>13
  DEF AppNext, Program, Environment, PlainSteps, Destroy

(* The objects and the report.                                             *)
LEMMA ObjectsTyped ==
    ASSUME AppTypeOK, [AppNext]_appVars
    PROVE  objects' \in Seq(Object)
<1>1. objects \in Seq(Object)
  BY DEF AppTypeOK
<1>2. ASSUME objects # <<>>, Pop PROVE objects' \in Seq(Object)
  BY <1>1, <1>2, FrontFacts DEF Pop
<1>3. CASE PlainSteps
  BY <1>1, <1>3, PlainMoves DEF Plain, Adds
<1>4. CASE Guard
  BY <1>1, <1>4 DEF Guard, Push, Object
<1>5. CASE CallBegin \/ CallEnd \/ Stop \/ Keepalive \/ Bridge \/ Release \/ Left \/ End
  BY <1>1, <1>5 DEF CallBegin, CallEnd, Stop, Keepalive, Bridge, BridgeBegin,
     BridgeActivated, BridgeStart, BridgeWait, BridgeUndo, Release, Left, End
<1>6. CASE DestroyGuard \/ DestroyPort \/ DestroyOutput
  BY <1>1, <1>2, <1>6 DEF DestroyGuard, DestroyPort, DestroyOutput, Top
<1>7. CASE Escalate \/ Transacts \/ Foreign \/ Killed \/ UNCHANGED appVars
  BY <1>1, <1>7 DEF Escalate, Transacts, Foreign, Killed, appVars, control
<1> QED
  BY <1>3, <1>4, <1>5, <1>6, <1>7
  DEF AppNext, Program, Environment, PlainSteps, Destroy

(* A step keeps the types of the report.                                   *)
LEMMA ReportTyped ==
    ASSUME AppTypeOK, [AppNext]_appVars
    PROVE  /\ ending' \in {"none", "success", "failed", "recorded"}
           /\ exit' \in {"none", "zero", "one", "killed"}
<1>1. ending \in {"none", "success", "failed", "recorded"}
      /\ exit \in {"none", "zero", "one", "killed"}
  BY DEF AppTypeOK
<1>2. ASSUME Fails PROVE ending' \in {ending, "failed"}
  BY <1>2 DEF Fails
<1>3. CASE Check \/ Workspace \/ Reserve \/ Create \/ Overwrite \/ Work \/ ProbeRun \/ Open
           \/ Drive
  BY <1>1, <1>2, <1>3 DEF Check, Workspace, Reserve, Create, Overwrite, Work, ProbeRun, Open,
     Drive
<1>4. CASE Close \/ FinishLog \/ Commit \/ Summary \/ Publish \/ Verdict \/ Solve \/ Alive
  BY <1>1, <1>2, <1>4 DEF Close, FinishLog, Commit, Summary, Publish, Verdict, Solve, Alive
<1>5. CASE Guard \/ CallBegin \/ CallEnd \/ Stop \/ Keepalive \/ Bridge \/ Release
  BY <1>1, <1>2, <1>5 DEF Guard, CallBegin, CallEnd, Stop, Keepalive, Bridge, BridgeBegin,
     BridgeActivated, BridgeStart, BridgeWait, BridgeUndo, AfterNoThread, Release, report
<1>6. CASE Destroy
  BY <1>1, <1>6 DEF Destroy, DestroyGuard, DestroyPort, DestroyOutput, Left, End, report
<1>7. CASE Escalate \/ Transacts \/ Foreign \/ Killed \/ UNCHANGED appVars
  BY <1>1, <1>7 DEF Escalate, Transacts, Foreign, Killed, appVars, report
<1> QED
  BY <1>3, <1>4, <1>5, <1>6, <1>7 DEF AppNext, Program, Environment

-----------------------------------------------------------------------------
(* The outputs.                                                            *)

Finished == {"whole", "broken"}
Turns(x, v) == fs' = [fs EXCEPT ![x] = v]

(* A file is made where none is, or over what is there.                    *)
Making ==
    /\ Runs /\ Step \in Makes
    /\ \E v \in {"partial", "whole", "broken"} :
         /\ Turns(Script[pc][2], v)
         /\ v = "broken" => ~Goes
    /\ Step = "create" => fs[Script[pc][2]] = "absent"

(* A file that was made is finished, or written after the fact.            *)
Finishing ==
    /\ Runs /\ Step \notin Makes \cup Ends
    /\ \E x \in Paths, v \in Finished :
         /\ Turns(x, v)
         /\ \/ Step \in {"close", "finish", "commit"} /\ Owned(Script, x, pc)
            \/ Step \in {"summary", "publish"} /\ fs[x] = "absent"

(* An object is destroyed: a log is closed, a motion that was not committed *)
(* is removed, and so is what was staged for a bundle.                     *)
Closing ==
    /\ Leaving /\ ~GuardOnTop /\ objects # <<>> /\ Pop
    /\ \/ \E x \in Paths, v \in Finished : fs[x] = "partial" /\ Turns(x, v)
       \/ Teaches /\ Top("motion") /\ fs["motion"] # "whole" /\ Turns("motion", "absent")
       \/ fs' = [x \in Paths |->
                   IF Staged(x) /\ fs["bundle"] # "whole" THEN "absent" ELSE fs[x]]

Intruding == \E x \in Outputs \cap Paths :
                fs[x] = "absent" /\ ~Staged(x) /\ Turns(x, "foreign")

(* What a step finishes it may finish.                                     *)
LEMMA MayFinish ==
    ASSUME AppTypeOK
    PROVE  /\ Step = "close" => Script[pc][2] \in Paths /\ Owned(Script, Script[pc][2], pc)
           /\ Step = "finish" => Owned(Script, "log", pc)
           /\ Step = "commit" => Owned(Script, "motion", pc)
<1>1. Ordered(prog)
  BY ProgramsAssumption DEF AppTypeOK
<1>2. InForm(Script)
  BY <1>1 DEF Ordered, Script
<1> QED
  BY <1>2, ScriptFacts DEF InForm, FilesInOrder, AppTypeOK, Step

(* What the destructor of an output does to the files.                     *)
LEMMA ClosingFacts ==
    ASSUME AppTypeOK, DestroyOutput
    PROVE  fs' = fs \/ Closing
<1>1. PICK x \in {"log", "timing", "summary", "motion", "disturbance", "workspace"} :
         /\ Top(x)
         /\ CASE x \in {"log", "timing", "summary", "disturbance"} ->
                   IF fs[x] = "partial" THEN Closed(x) ELSE UNCHANGED fs
              [] x = "motion" /\ Teaches ->
                   fs' = [fs EXCEPT ![x] = IF @ = "whole" THEN @ ELSE "absent"]
              [] x = "motion" /\ ~Teaches ->
                   IF fs[x] = "partial" THEN Closed(x) ELSE UNCHANGED fs
              [] x = "workspace" ->
                   fs' = [p \in Paths |->
                            IF Staged(p) /\ fs["bundle"] # "whole" THEN "absent" ELSE fs[p]]
  BY DEF DestroyOutput
<1>2. Leaving /\ ~GuardOnTop /\ objects # <<>> /\ Pop
  BY <1>1 DEF Top, GuardOnTop, Last, DestroyOutput
<1>3. ASSUME x \in Paths, IF fs[x] = "partial" THEN Closed(x) ELSE UNCHANGED fs
      PROVE  fs' = fs \/ Closing
  BY <1>2, <1>3 DEF Closed, Closing, Turns, Finished
<1>4. CASE x \in {"log", "timing", "summary", "disturbance"}
  BY <1>1, <1>3, <1>4 DEF Paths
<1>5. CASE x = "motion" /\ Teaches
  <2>1. fs' = [fs EXCEPT !["motion"] = IF fs["motion"] = "whole" THEN fs["motion"] ELSE "absent"]
    BY <1>1, <1>5
  <2>2. CASE fs["motion"] = "whole"
    BY <2>1, <2>2 DEF AppTypeOK
  <2>3. CASE fs["motion"] # "whole"
    BY <1>1, <1>2, <1>5, <2>1, <2>3 DEF Closing, Turns
  <2> QED
    BY <2>2, <2>3
<1>6. CASE x = "motion" /\ ~Teaches
  BY <1>1, <1>3, <1>6 DEF Paths
<1>7. CASE x = "workspace"
  BY <1>1, <1>2, <1>7 DEF Closing
<1> QED
  BY <1>1, <1>4, <1>5, <1>6, <1>7

(* Outputs are paths.                                                      *)
LEMMA OutputsArePaths ==
    ASSUME AppTypeOK
    PROVE  Outputs \subseteq Paths
<1>1. Ordered(prog)
  BY ProgramsAssumption DEF AppTypeOK
<1>2. InForm(Script)
  BY <1>1 DEF Ordered, Script
<1>3. Made({"create", "overwrite", "write"}) \subseteq Paths
  BY <1>2 DEF Made, InForm, Makes
<1> QED
  BY <1>3 DEF Outputs, Paths

(* How the files change.                                                   *)
LEMMA FileMoves ==
    ASSUME AppTypeOK, [AppNext]_appVars
    PROVE  fs' = fs \/ Making \/ Finishing \/ Closing \/ Intruding
<1>1. CASE \/ Check \/ Workspace \/ Reserve \/ Work \/ ProbeRun \/ Open \/ Drive \/ Verdict
           \/ Solve \/ Alive \/ Guard \/ CallBegin \/ CallEnd \/ Stop \/ Keepalive \/ Bridge
           \/ Release
  BY <1>1 DEF Check, Workspace, Reserve, Work, ProbeRun, Open, Drive, Verdict, Solve, Alive,
     Guard, CallBegin, CallEnd, Stop, Keepalive, Bridge, BridgeBegin, BridgeActivated,
     BridgeStart, BridgeWait, BridgeUndo, Release, report
<1>2. CASE Create
  BY <1>2 DEF Create, At, Making, Makes, Runs, Turns, Vacant
<1>3. CASE Overwrite
  <2>1. Runs /\ Step \in Makes /\ Step # "create"
    BY <1>3 DEF Overwrite, At, Runs, Makes
  <2>2. CASE fs' = [fs EXCEPT ![Script[pc][2]] = "broken"] /\ Fails
    <3>1. ~Teaches
      BY <1>3, ScriptFacts DEF Overwrite, At, FilesInOrder, AppTypeOK, Step
    <3>2. ~Goes
      BY <2>1, <2>2, <3>1, FailMoves DEF Goes, Unwinds, InTeachRun
    <3> QED
      BY <2>1, <2>2, <3>2 DEF Making, Turns
  <2> QED
    BY <1>3, <2>1, <2>2 DEF Overwrite, Making, Turns
<1>4. CASE Close
  BY <1>4, MayFinish DEF Close, At, Closed, Finishing, Finished, Runs, Turns, Makes, Ends
<1>5. CASE FinishLog
  BY <1>5, MayFinish DEF FinishLog, At, Closed, Finishing, Finished, Runs, Turns, Makes, Ends,
     Paths
<1>6. CASE Commit
  BY <1>6, MayFinish DEF Commit, At, Finishing, Finished, Runs, Turns, Makes, Ends, Paths
<1>7. CASE Summary \/ Publish
  BY <1>7 DEF Summary, Publish, Vacant, At, Finishing, Finished, Runs, Turns, Makes, Ends,
     Paths
<1>8. CASE DestroyOutput
  BY <1>8, ClosingFacts
<1>9. CASE DestroyGuard \/ DestroyPort \/ Left \/ End \/ Escalate \/ Transacts \/ Killed
           \/ UNCHANGED appVars
  BY <1>9 DEF DestroyGuard, DestroyPort, Left, End, Escalate, Transacts, Killed, appVars,
     report
<1>10. CASE Foreign
  BY <1>10, OutputsArePaths DEF Foreign, Intruding, Turns
<1> QED
  BY <1>1, <1>2, <1>3, <1>4, <1>5, <1>6, <1>7, <1>8, <1>9, <1>10
  DEF AppNext, Program, Environment, Destroy

(* A step keeps the types of the files.                                    *)
LEMMA FilesTyped ==
    ASSUME AppTypeOK, [AppNext]_appVars
    PROVE  fs' \in [Paths -> {"absent", "partial", "whole", "broken", "foreign"}]
<1>1. fs \in [Paths -> {"absent", "partial", "whole", "broken", "foreign"}]
  BY DEF AppTypeOK
<1>2. ASSUME NEW x \in Paths, NEW v \in {"absent", "partial", "whole", "broken", "foreign"},
             Turns(x, v)
      PROVE  fs' \in [Paths -> {"absent", "partial", "whole", "broken", "foreign"}]
  BY <1>1, <1>2 DEF Turns
<1>3. CASE Making
  <2>1. Script[pc][2] \in Paths
    BY <1>3, MakesPath DEF Making
  <2> QED
    BY <1>2, <1>3, <2>1 DEF Making
<1>4. CASE Finishing
  BY <1>2, <1>4 DEF Finishing, Finished
<1>5. CASE Closing
  <2>1. "motion" \in Paths
    BY DEF Paths
  <2>2. CASE \E x \in Paths, v \in Finished : Turns(x, v)
    BY <1>2, <2>2 DEF Finished
  <2>3. CASE Turns("motion", "absent")
    BY <1>2, <2>1, <2>3
  <2>4. CASE fs' = [x \in Paths |->
                   IF Staged(x) /\ fs["bundle"] # "whole" THEN "absent" ELSE fs[x]]
    BY <1>1, <2>4
  <2> QED
    BY <1>5, <2>2, <2>3, <2>4 DEF Closing
<1>6. CASE Intruding
  BY <1>2, <1>6 DEF Intruding
<1> QED
  BY <1>1, <1>3, <1>4, <1>5, <1>6, FileMoves

(* A step keeps every type.                                                *)
LEMMA TypesKept ==
    ASSUME AppTypeOK, [AppNext]_appVars
    PROVE  AppTypeOK'
<1>1. prog' = prog /\ Script' = Script
  BY SameProgram, SameScript
<1>2. SessionTypeOK'
  BY SessionSteps, SessionTyped DEF AppTypeOK
<1>3. Place /\ Calling /\ Guarding /\ objects' \in Seq(Object)
  BY PlaceTyped, CallTyped, ObjectsTyped
<1>4. /\ ending' \in {"none", "success", "failed", "recorded"}
      /\ exit' \in {"none", "zero", "one", "killed"}
      /\ fs' \in [Paths -> {"absent", "partial", "whole", "broken", "foreign"}]
  BY ReportTyped, FilesTyped
<1>5. prog \in Programs
  BY DEF AppTypeOK
<1> QED
  BY <1>1, <1>2, <1>3, <1>4, <1>5 DEF AppTypeOK, Place, Phase, Calling, Guarding

(* A program starts with every type.                                       *)
LEMMA TypesInit ==
    ASSUME AppInit
    PROVE  AppTypeOK
<1>1. Ordered(prog)
  BY ProgramsAssumption DEF AppInit
<1>2. Script \in Seq({Script[k] : k \in DOMAIN Script}) /\ Script # <<>>
  BY <1>1 DEF Ordered, InForm, Script
<1>3. 1 \in DOMAIN Script
  BY <1>2, EmptySeq
<1>4. SessionTypeOK
  BY DEF AppInit, SessionInit, SessionTypeOK
<1>5. fs \in [Paths -> {"absent", "partial", "whole", "broken", "foreign"}]
  BY DEF AppInit
<1>6. objects \in Seq(Object)
  BY DEF AppInit
<1> QED
  BY <1>3, <1>4, <1>5, <1>6 DEF AppInit, AppTypeOK

-----------------------------------------------------------------------------
(* Whose a file is.                                                        *)

(* A step that fails, or skips, passes over nothing that makes a file.     *)
LEMMA SkipsNothing ==
    ASSUME AppTypeOK, Runs, InTeachRun
    PROVE  \A j \in pc..Len(Script) : Script[j][1] \notin Makes
<1>1. Teaches /\ \E k \in 1..(pc - 1) : Script[k][1] = "open"
  BY DEF InTeachRun
<1>2. PICK k \in 1..(pc - 1) : Script[k][1] = "open"
  BY <1>1
<1>3. SUFFICES ASSUME NEW j \in pc..Len(Script), Script[j][1] \in Makes PROVE FALSE
  OBVIOUS
<1>4. k \in 1..(j - 1) /\ j \in DOMAIN Script
  BY <1>2, ScriptFacts DEF AppTypeOK
<1> QED
  BY <1>1, <1>2, <1>3, <1>4, ScriptFacts DEF FilesInOrder

(* A drive that failed passes over nothing that makes a file either.       *)
LEMMA DriveSkipsNothing ==
    ASSUME AppTypeOK, Step = "drive", NEW n \in DOMAIN Script, Script[n][1] = "release"
    PROVE  n \in pc..Len(Script) /\ \A j \in pc..n : Script[j][1] \notin Makes
<1>1. DOMAIN Script = 1..Len(Script) /\ pc \in DOMAIN Script /\ Script[pc][1] = "drive"
  BY ScriptFacts DEF AppTypeOK, Step
<1>2. \A j \in 1..(pc - 1) : Script[j][1] \notin Ends
  BY <1>1, ScriptFacts DEF ArmInOrder, ArmSteps
<1>3. n >= pc
  BY <1>1, <1>2, ScriptFacts DEF Ends
<1>4. \A j \in DOMAIN Script : Script[j][1] \in Makes => \A i \in 1..(j - 1) : Script[i][1] # "drive"
  BY ScriptFacts DEF FilesInOrder
<1>5. ASSUME NEW j \in pc..n, Script[j][1] \in Makes PROVE FALSE
  <2>1. j \in DOMAIN Script /\ j # pc
    BY <1>1, <1>5, ScriptFacts DEF Makes
  <2>2. pc \in 1..(j - 1)
    BY <1>1, <2>1
  <2> QED
    BY <1>1, <1>4, <1>5, <2>1, <2>2
<1> QED
  BY <1>1, <1>3, <1>5, ScriptFacts

(* Onwards m is passed over without a file made.                           *)
Onwards(m) ==
    m \in pc..Len(Script) /\ \A j \in pc..m : j # m => Script[j][1] \notin Makes

(* What a failing step passes over.                                        *)
LEMMA FailOnwards ==
    ASSUME AppTypeOK, Runs, Fails, mode' = "run"
    PROVE  Onwards(pc')
<1>1. InTeachRun /\ pc' \in pc..Len(Script)
  BY FailMoves DEF Unwinds
<1>2. \A j \in pc..Len(Script) : Script[j][1] \notin Makes
  BY <1>1, SkipsNothing
<1>3. pc \in Nat /\ Len(Script) \in Nat /\ pc..pc' \subseteq pc..Len(Script)
  BY <1>1, ScriptFacts DEF AppTypeOK
<1> QED
  BY <1>1, <1>2, <1>3 DEF Onwards

(* How a run that goes on has come to its step.                            *)
LEMMA ComesFrom ==
    ASSUME AppTypeOK, [AppNext]_appVars, Runs'
    PROVE  Runs /\ (Goes \/ Onwards(pc'))
<1> USE DEF Runs
<1>1. ASSUME Runs, Next1 PROVE Goes
  BY <1>1 DEF Goes, Next1
<1>2. ASSUME pc' = pc PROVE Onwards(pc')
  BY <1>2, ScriptFacts DEF Onwards, AppTypeOK
<1>3. ASSUME Runs, Fails PROVE Onwards(pc')
  BY <1>3, FailOnwards
<1>4. CASE \/ Check \/ Workspace \/ Reserve \/ Create \/ Overwrite \/ Work \/ ProbeRun
           \/ Open \/ Close \/ FinishLog \/ Commit \/ Summary \/ Publish \/ Verdict \/ Solve
           \/ Alive \/ Guard
  BY <1>1, <1>2, <1>3, <1>4
  DEF Check, Workspace, Reserve, Create, Overwrite, Work, ProbeRun, Open, Close, FinishLog,
      Commit, Summary, Publish, Verdict, Solve, Alive, Guard, At
<1>5. CASE Drive
  <2>1. Runs /\ Step = "drive"
    BY <1>5 DEF Drive, At
  <2>2. CASE pc' = AfterFailure /\ ph' = "begin"
    <3>1. CASE AfterFailure = pc + 1
      BY <2>1, <2>2, <3>1 DEF Goes
    <3>2. CASE AfterFailure \in DOMAIN Script /\ Script[AfterFailure][1] = "release"
      <4>1. AfterFailure \in pc..Len(Script)
            /\ \A j \in pc..AfterFailure : Script[j][1] \notin Makes
        BY <2>1, <3>2, DriveSkipsNothing
      <4> QED
        BY <2>1, <2>2, <4>1, ScriptFacts DEF Onwards, AppTypeOK
    <3> QED
      BY <2>1, <3>1, <3>2, FailedDrive
  <2> QED
    BY <1>1, <1>3, <1>5, <2>1, <2>2 DEF Drive
<1>6. CASE CallBegin \/ CallEnd \/ Stop \/ Keepalive
  BY <1>1, <1>2, <1>3, <1>6 DEF CallBegin, CallEnd, Stop, Keepalive, At
<1>7. CASE Bridge
  BY <1>1, <1>2, <1>3, <1>7 DEF Bridge, BridgeBegin, BridgeActivated, BridgeStart,
     BridgeWait, BridgeUndo, AfterNoThread, At
<1>8. CASE Release \/ Destroy
  BY <1>1, <1>2, <1>8 DEF Release, Destroy, DestroyGuard, DestroyPort, DestroyOutput, Left,
     End, At
<1>9. CASE Escalate \/ Transacts \/ Foreign \/ Killed \/ UNCHANGED appVars
  BY <1>2, <1>9 DEF Escalate, Transacts, Foreign, Killed, appVars, control
<1> QED
  BY <1>4, <1>5, <1>6, <1>7, <1>8, <1>9 DEF AppNext, Program, Environment

(* A file that is owned now was owned before, or is made by this step.     *)
LEMMA OwnedBefore ==
    ASSUME AppTypeOK, NEW x, NEW m, m = pc + 1 \/ Onwards(m), Owned(Script, x, m)
    PROVE  Owned(Script, x, pc) \/ (~Onwards(m) /\ Step \in Makes /\ Script[pc][2] = x)
<1>1. pc \in Nat /\ m \in Nat /\ m >= pc
  BY ScriptFacts DEF AppTypeOK, Onwards
<1>2. PICK j \in 1..(m - 1) :
        /\ Script[j][1] \in Makes /\ Script[j][2] = x
        /\ \A i \in j..m : Script[i][1] = "leave" => x \notin Script[i][2]
  BY DEF Owned
<1>3. CASE j < pc
  <2>1. j \in 1..(pc - 1) /\ \A i \in j..pc : i \in j..m
    BY <1>1, <1>2, <1>3
  <2> QED
    BY <1>2, <2>1 DEF Owned
<1>4. CASE j >= pc
  <2>1. j \in pc..m /\ j # m /\ j \in Nat
    BY <1>1, <1>2, <1>4
  <2>2. ~Onwards(m)
    BY <1>2, <2>1 DEF Onwards
  <2>3. j = pc /\ m = pc + 1
    BY <1>1, <2>1, <2>2
  <2> QED
    BY <1>2, <2>2, <2>3 DEF Step
<1> QED
  BY <1>1, <1>2, <1>3, <1>4

(* How one file turns.                                                     *)
LEMMA OneTurns ==
    ASSUME AppTypeOK, NEW y, NEW v, Turns(y, v), NEW x \in Paths
    PROVE  fs'[x] = IF x = y THEN v ELSE fs[x]
BY DEF Turns, AppTypeOK

(* A run that goes on from a step that makes a file has made it.           *)
LEMMA MakesMade ==
    ASSUME AppTypeOK, [AppNext]_appVars, Runs, Step \in Makes, Goes
    PROVE  Making
<1> USE DEF Runs, Makes
<1>1. pc' # pc
  BY DEF Goes, AppTypeOK
<1>2. ASSUME Fails PROVE FALSE
  <2>1. InTeachRun /\ pc \in pc..Len(Script)
    BY <1>2, FailMoves, ScriptFacts DEF Unwinds, Goes, AppTypeOK
  <2> QED
    BY <2>1, SkipsNothing DEF Step
<1>3. CASE Create
  BY <1>2, <1>3 DEF Create, At, Vacant, Making, Turns
<1>4. CASE Overwrite
  BY <1>2, <1>4 DEF Overwrite, At, Making, Turns
<1>5. CASE \/ Check \/ Workspace \/ Reserve \/ Work \/ ProbeRun \/ Open \/ Close
           \/ FinishLog \/ Commit \/ Summary \/ Publish \/ Verdict \/ Solve \/ Alive
           \/ Guard \/ Drive
  BY <1>5
  DEF Check, Workspace, Reserve, Work, ProbeRun, Open, Close, FinishLog, Commit, Summary,
      Publish, Verdict, Solve, Alive, Guard, Drive, At
<1>6. CASE CallBegin \/ CallEnd \/ Stop \/ Keepalive \/ Bridge
  BY <1>6 DEF CallBegin, CallEnd, Stop, Keepalive, Bridge, BridgeBegin, BridgeActivated,
     BridgeStart, BridgeWait, BridgeUndo, At
<1>7. CASE Release \/ Destroy
  BY <1>1, <1>7 DEF Release, Destroy, DestroyGuard, DestroyPort, DestroyOutput, Left, End, At
<1>8. CASE Escalate \/ Transacts \/ Foreign \/ Killed \/ UNCHANGED appVars
  BY <1>1, <1>8 DEF Escalate, Transacts, Foreign, Killed, appVars, control
<1> QED
  BY <1>3, <1>4, <1>5, <1>6, <1>7, <1>8 DEF AppNext, Program, Environment

(* A foreign file stays what and where it is.                              *)
ForeignersPlaced == \A x \in Paths : fs[x] = "foreign" => x \in Outputs /\ ~Staged(x)
OwnedIsOwn ==
    \A x \in Paths : Runs /\ Owned(Script, x, pc) /\ ~Staged(x)
                           => fs[x] \notin {"absent", "foreign"}
MotionIsOwn ==
    Teaches /\ ~Staged("motion") =>
         /\ \A i, j \in DOMAIN objects :
              objects[i] = "motion" /\ objects[j] = "motion" => i = j
         /\ \A i \in DOMAIN objects :
              objects[i] = "motion" => fs["motion"] \notin {"absent", "foreign"}

(* Only another process makes a foreign file, at a path it can reach.      *)
LEMMA PlacedStep ==
    ASSUME AppTypeOK, ForeignersPlaced, [AppNext]_appVars
    PROVE  ForeignersPlaced'
<1>1. Outputs' = Outputs /\ \A x : Staged(x)' <=> Staged(x)
  BY SameProgram, SameScript
<1>2. SUFFICES ASSUME NEW x \in Paths, fs'[x] = "foreign" PROVE x \in Outputs /\ ~Staged(x)
  BY <1>1 DEF ForeignersPlaced
<1>3. CASE fs[x] = "foreign"
  BY <1>3 DEF ForeignersPlaced
<1>4. CASE fs[x] # "foreign"
  <2>1. CASE Making \/ Finishing
    BY <1>2, <1>4, <2>1, OneTurns DEF Making, Finishing, Finished
  <2>2. CASE Closing
    BY <1>2, <1>4, <2>2, OneTurns DEF Closing, Finished
  <2>3. CASE Intruding
    BY <1>2, <1>4, <2>3, OneTurns DEF Intruding
  <2> QED
    BY <1>2, <1>4, <2>1, <2>2, <2>3, FileMoves
<1> QED
  BY <1>3, <1>4

(* What was made and not left behind stays the program's own.              *)
LEMMA OwnStep ==
    ASSUME AppTypeOK, OwnedIsOwn, [AppNext]_appVars
    PROVE  OwnedIsOwn'
<1>1. Script' = Script /\ \A x : Staged(x)' <=> Staged(x)
  BY SameProgram, SameScript
<1>2. SUFFICES ASSUME NEW x \in Paths, Runs', Owned(Script, x, pc'), ~Staged(x)
               PROVE  fs'[x] \notin {"absent", "foreign"}
  BY <1>1 DEF OwnedIsOwn, Owned
<1>3. Runs /\ (Goes \/ Onwards(pc'))
  BY <1>2, ComesFrom
<1>4. CASE Goes /\ Step \in Makes /\ Script[pc][2] = x
  <2>1. Making
    BY <1>3, <1>4, MakesMade
  <2> QED
    BY <1>4, <2>1, OneTurns DEF Making
<1>5. CASE Owned(Script, x, pc)
  <2>1. fs[x] \notin {"absent", "foreign"}
    BY <1>2, <1>3, <1>5 DEF OwnedIsOwn
  <2>2. CASE Making \/ Finishing \/ Intruding
    BY <2>1, <2>2, OneTurns DEF Making, Finishing, Finished, Intruding
  <2>3. CASE Closing
    <3>1. Step = "leave"
      BY <1>3, <2>3 DEF Closing, Leaving, At, Runs
    <3>2. CASE Top("motion") /\ Turns("motion", "absent")
      <4>1. "motion" \in Script[pc][2] /\ pc \in Nat
        BY <1>3, <3>2, ScriptFacts DEF Top, Leaving, Runs, AppTypeOK
      <4>2. x # "motion"
        BY <1>5, <3>1, <4>1 DEF Owned, Step
      <4> QED
        BY <2>1, <3>2, <4>2, OneTurns
    <3> QED
      BY <1>2, <2>1, <2>3, <3>2, OneTurns DEF Closing, Finished
  <2> QED
    BY <2>1, <2>2, <2>3, FileMoves
<1> QED
  BY <1>2, <1>3, <1>4, <1>5, OwnedBefore DEF Goes

(* How the objects change: a motion of a teach run is added where no file  *)
(* of its name is.                                                         *)
Pushing ==
    \E x \in Object :
        /\ objects' = Append(objects, x)
        /\ x = "motion" /\ Teaches => fs["motion"] = "absent" /\ Turns("motion", "partial")

(* Objects are pushed and popped one by one.                               *)
LEMMA ObjectMoves ==
    ASSUME AppTypeOK, [AppNext]_appVars
    PROVE  objects' = objects \/ Pushing \/ (objects # <<>> /\ Pop)
<1>1. CASE \/ Check \/ Reserve \/ Work \/ ProbeRun \/ Drive \/ Close \/ FinishLog \/ Commit
           \/ Summary \/ Publish \/ Verdict \/ Solve \/ Alive
  BY <1>1 DEF Check, Reserve, Work, ProbeRun, Drive, Close, FinishLog, Commit, Summary,
     Publish, Verdict, Solve, Alive
<1>2. CASE Workspace \/ Open \/ Guard
  BY <1>2 DEF Workspace, Open, Guard, Push, Pushing, Object, Paths
<1>3. CASE Create
  <2>1. Step \in Makes /\ Script[pc][2] \in Object
    BY <1>3, MakesPath DEF Create, At, Makes, Object
  <2> QED
    BY <1>3, <2>1 DEF Create, Push, Pushing, Vacant, Turns
<1>4. CASE Overwrite
  <2>1. ~Teaches
    BY <1>4, ScriptFacts DEF Overwrite, At, FilesInOrder, AppTypeOK, Step
  <2>2. Step \in Makes /\ Script[pc][2] \in Object
    BY <1>4, MakesPath DEF Overwrite, At, Makes, Object
  <2> QED
    BY <1>4, <2>1, <2>2 DEF Overwrite, Push, Pushing
<1>5. CASE CallBegin \/ CallEnd \/ Stop \/ Keepalive \/ Bridge \/ Release \/ Left \/ End
  BY <1>5 DEF CallBegin, CallEnd, Stop, Keepalive, Bridge, BridgeBegin,
     BridgeActivated, BridgeStart, BridgeWait, BridgeUndo, Release, Left, End
<1>6. CASE DestroyGuard \/ DestroyPort \/ DestroyOutput
  BY <1>6 DEF DestroyGuard, DestroyPort, DestroyOutput, Top
<1>7. CASE Escalate \/ Transacts \/ Foreign \/ Killed \/ UNCHANGED appVars
  BY <1>7 DEF Escalate, Transacts, Foreign, Killed, appVars, control
<1> QED
  BY <1>1, <1>2, <1>3, <1>4, <1>5, <1>6, <1>7 DEF AppNext, Program, Environment, Destroy

(* A motion is added where none is, and taken out where it is the last.    *)
LEMMA MotionStep ==
    ASSUME AppTypeOK, MotionIsOwn, [AppNext]_appVars
    PROVE  MotionIsOwn'
<1>1. (Teaches' <=> Teaches) /\ \A x : Staged(x)' <=> Staged(x)
  BY SameProgram, SameScript
<1>2. SUFFICES ASSUME Teaches, ~Staged("motion")
               PROVE  /\ \A i, j \in DOMAIN objects' :
                           objects'[i] = "motion" /\ objects'[j] = "motion" => i = j
                      /\ \A i \in DOMAIN objects' :
                           objects'[i] = "motion" => fs'["motion"] \notin {"absent", "foreign"}
  BY <1>1 DEF MotionIsOwn
<1>3. /\ \A i, j \in DOMAIN objects :
           objects[i] = "motion" /\ objects[j] = "motion" => i = j
      /\ \A i \in DOMAIN objects :
           objects[i] = "motion" => fs["motion"] \notin {"absent", "foreign"}
  BY <1>2 DEF MotionIsOwn
<1>4. objects \in Seq(Object) /\ "motion" \in Paths
  BY DEF AppTypeOK, Paths
<1>5. fs["motion"] \notin {"absent", "foreign"} =>
         \/ fs'["motion"] \notin {"absent", "foreign"}
         \/ Top("motion") /\ Pop
  <2>1. CASE Making \/ Finishing \/ Intruding
    BY <1>4, <2>1, OneTurns DEF Making, Finishing, Finished, Intruding
  <2>2. CASE Closing
    BY <1>2, <1>4, <2>2, OneTurns DEF Closing, Finished
  <2> QED
    BY <2>1, <2>2, FileMoves
<1>6. CASE objects # <<>> /\ Pop
  <2>1. /\ Len(objects) \in Nat \ {0} /\ DOMAIN objects = 1..Len(objects)
        /\ DOMAIN objects' = 1..(Len(objects) - 1)
        /\ \A i \in DOMAIN objects' : objects'[i] = objects[i]
    BY <1>4, <1>6, FrontFacts DEF Pop
  <2>2. \A i \in DOMAIN objects' : i \in DOMAIN objects /\ i # Len(objects)
    BY <2>1
  <2>3. ASSUME Top("motion") PROVE \A i \in DOMAIN objects' : objects'[i] # "motion"
    <3>1. objects[Len(objects)] = "motion" /\ Len(objects) \in DOMAIN objects
      BY <2>1, <2>3 DEF Top, Last
    <3> QED
      BY <1>3, <2>1, <2>2, <3>1
  <2> QED
    BY <1>3, <1>5, <2>1, <2>2, <2>3
<1>7. CASE objects' = objects
  <2>1. ~(Top("motion") /\ Pop)
    <3>1. SUFFICES ASSUME objects # <<>>, Pop PROVE FALSE
      BY DEF Top
    <3>2. Len(objects') = Len(objects) - 1 /\ Len(objects) \in Nat
      BY <1>4, <3>1, FrontFacts DEF Pop
    <3> QED
      BY <1>7, <3>2
  <2> QED
    BY <1>3, <1>5, <1>7, <2>1
<1>8. CASE Pushing
  <2>1. PICK x \in Object :
          /\ objects' = Append(objects, x)
          /\ x = "motion" /\ Teaches => fs["motion"] = "absent" /\ Turns("motion", "partial")
    BY <1>8 DEF Pushing
  <2>2. /\ Len(objects) \in Nat /\ DOMAIN objects = 1..Len(objects)
        /\ Len(objects') = Len(objects) + 1
        /\ DOMAIN objects' = 1..(Len(objects) + 1)
        /\ objects'[Len(objects) + 1] = x
        /\ \A i \in DOMAIN objects : objects'[i] = objects[i]
    BY <1>4, <2>1
  <2>3. \A i \in DOMAIN objects' : i = Len(objects) + 1 \/ i \in DOMAIN objects
    BY <2>2
  <2>4. CASE x = "motion"
    <3>1. fs["motion"] = "absent" /\ fs'["motion"] = "partial"
      BY <1>2, <1>4, <2>1, <2>4, OneTurns
    <3>2. \A i \in DOMAIN objects : objects[i] # "motion"
      BY <1>3, <3>1
    <3> QED
      BY <2>2, <2>3, <3>1, <3>2
  <2>5. CASE x # "motion"
    <3>1. ~(Top("motion") /\ Pop)
      <4>1. SUFFICES ASSUME objects # <<>>, Pop PROVE FALSE
        BY DEF Top
      <4>2. Len(objects') = Len(objects) - 1
        BY <1>4, <4>1, FrontFacts DEF Pop
      <4> QED
        BY <2>2, <4>2
    <3> QED
      BY <1>3, <1>5, <2>2, <2>3, <2>5, <3>1
  <2> QED
    BY <2>4, <2>5
<1> QED
  BY <1>6, <1>7, <1>8, ObjectMoves

-----------------------------------------------------------------------------
(* What was verified.                                                      *)

(* Over is over.                                                           *)
LEMMA OverStays ==
    ASSUME Ended, [AppNext]_appVars
    PROVE  UNCHANGED appVars
<1> USE DEF Ended
<1>1. ~Leaving
  BY DEF Leaving, At
<1>2. ~(PlainSteps \/ Guard \/ CallBegin \/ CallEnd \/ Stop \/ Keepalive \/ Release)
  BY DEF PlainSteps, Check, Workspace, Reserve, Create, Overwrite, Work, ProbeRun, Open, Drive,
     Close, FinishLog, Commit, Summary, Publish, Verdict, Solve, Alive, Guard, CallBegin,
     CallEnd, Stop, Keepalive, Release, At
<1>3. ~(Bridge \/ Destroy \/ Environment)
  BY <1>1 DEF Bridge, BridgeBegin, BridgeActivated, BridgeStart, BridgeWait, BridgeUndo,
     Destroy, DestroyGuard, DestroyPort, DestroyOutput, Left, End, Top, Environment, Escalate,
     Transacts, Foreign, Killed, At
<1> QED
  BY <1>2, <1>3 DEF AppNext, Program, PlainSteps

(* The arm is not touched behind the release.                              *)
LEMMA NoArmAfterEnd ==
    ASSUME AppTypeOK, Safeguarded, Runs, Step \in ArmSteps
    PROVE  guard \in {"none", "armed"}
<1>1. pc \in DOMAIN Script /\ Step = Script[pc][1] /\ pc \in Nat
  BY ScriptFacts DEF AppTypeOK, Step
<1>2. \A j \in 1..(pc - 1) : Script[j][1] \notin Ends
  BY <1>1, ScriptFacts DEF ArmInOrder
<1>3. \A j \in 1..pc : Script[j][1] \notin Ends
  BY <1>1, <1>2 DEF Ends, ArmSteps
<1>4. guard \notin {"running", "quiesce", "done"}
  BY <1>3 DEF Safeguarded, GuardPlaced
<1> QED
  BY <1>4 DEF AppTypeOK

(* Where nobody is about to call, nothing changes on the arm.              *)
Unattended == ~busy /\ thread # "running" /\ guard \in {"none", "done"}

(* Such a step calls nobody.                                               *)
LEMMA NothingCalls ==
    ASSUME AppTypeOK, [AppNext]_appVars, Unattended, ~(Runs /\ Step \in ArmSteps)
    PROVE  /\ UNCHANGED <<busy, on, active, guard, clean, tried>>
           /\ thread' \in {thread, "none"}
<1> USE DEF Unattended, Runs, ArmSteps
<1>1. CASE PlainSteps
  BY <1>1, PlainMoves DEF Plain, ArmUntouched, sessionVars
<1>2. ~(Guard \/ CallBegin \/ CallEnd \/ Keepalive \/ Bridge)
  BY DEF Guard, CallBegin, CallEnd, Keepalive, Bridge, BridgeBegin, BridgeActivated,
     BridgeStart, BridgeWait, BridgeUndo, At
<1>3. ~GuardRuns
  BY DEF GuardRuns
<1>4. CASE Stop
  BY <1>4 DEF Stop, ThreadJoined
<1>5. CASE Release \/ DestroyGuard
  BY <1>3, <1>5 DEF Release, DestroyGuard, sessionVars
<1>6. CASE DestroyPort
  BY <1>6 DEF DestroyPort, ThreadJoined, Silenced
<1>7. CASE DestroyOutput \/ Left \/ End \/ Foreign
  BY <1>7 DEF DestroyOutput, Left, End, Foreign, control, sessionVars
<1>8. ~Escalate
  <2>1. ~At("drive")
    BY DEF At
  <2>2. \A r \in Answers("escalate") : ~Answered("escalate", r)
    BY DEF Answers, Answered, Return
  <2> QED
    BY <2>1, <2>2 DEF Escalate
<1>9. ~Transacts
  BY DEF Transacts, Transaction
<1>10. CASE Killed
  BY <1>10 DEF Killed, Silenced
<1>11. CASE UNCHANGED appVars
  BY <1>11 DEF appVars, control, sessionVars
<1> QED
  BY <1>1, <1>2, <1>4, <1>5, <1>6, <1>7, <1>8, <1>9, <1>10, <1>11
  DEF AppNext, Program, Environment, PlainSteps, Destroy

CleanIsOff == clean => guard = "done" /\ on = {} /\ ~busy

(* Behind a verified release nothing may move the arm any more.            *)
LEMMA CleanIsCold ==
    ASSUME AppTypeOK, Safeguarded, CleanIsOff, clean, ~Ended
    PROVE  ~Hot /\ ~(Runs /\ Step \in ArmSteps)
<1>1. guard = "done" /\ ~GuardOnTop
  BY DEF CleanIsOff, GuardOnTop
<1>2. ~(Runs /\ Step \in ArmSteps)
  BY <1>1, NoArmAfterEnd
<1>3. ~Is({"guard"}) /\ ~Is({"bridge"}) /\ ~(Runs /\ ph = "calling")
  BY <1>2 DEF Is, ArmSteps, Safeguarded, PhasesPlaced
<1> QED
  BY <1>1, <1>2, <1>3 DEF Safeguarded, Pending

(* Only the guard says that it is clean.                                   *)
LEMMA CleanIsTold ==
    ASSUME AppTypeOK, [AppNext]_appVars, ~clean, clean'
    PROVE  guard' = "done" /\ on' = {} /\ ~busy'
<1>1. GuardRuns
  BY DEF AppNext, appVars, control, Program, Environment, Check, Workspace, Reserve, Create,
     Overwrite, Work, ProbeRun, Open, Guard, Drive, Close, FinishLog, Commit, Summary, Publish,
     Verdict, CallBegin, CallEnd, Stop, Keepalive, Solve, Alive, Bridge, BridgeBegin,
     BridgeActivated, BridgeStart, BridgeWait, BridgeUndo, Release, Destroy, DestroyGuard,
     DestroyPort, DestroyOutput, Left, End, Escalate, Transacts, Foreign, Killed
<1>2. PICK r \in Answers("deactivate") :
        Answered("deactivate", r) /\ clean' = (r = "clean") /\ guard' = AfterStop(r)
  BY <1>1 DEF GuardRuns
<1>3. r = "clean" /\ Return("clean")
  BY <1>2 DEF Answered
<1> QED
  BY <1>2, <1>3 DEF AfterStop, Return, Promise

(* A verified release stays one.                                           *)
LEMMA CleanStep ==
    ASSUME AppTypeOK, Safeguarded, CleanIsOff, [AppNext]_appVars
    PROVE  CleanIsOff'
<1>1. CASE clean /\ ~Ended
  <2>1. ~Hot /\ ~(Runs /\ Step \in ArmSteps)
    BY <1>1, CleanIsCold
  <2>2. Unattended
    BY <1>1, <2>1 DEF Unattended, Hot, CleanIsOff
  <2> QED
    BY <1>1, <2>1, <2>2, NothingCalls DEF CleanIsOff
<1>2. CASE Ended
  BY <1>2, OverStays DEF CleanIsOff, appVars, control, sessionVars
<1>3. CASE ~clean
  BY <1>3, CleanIsTold DEF CleanIsOff
<1> QED
  BY <1>1, <1>2, <1>3

-----------------------------------------------------------------------------
(* The programs that switch nothing on.                                    *)

LimpIsCold ==
    Limp => ~active /\ thread # "running" /\ guard = "none" /\ call \in {"none", "passive"}
LimpIsOff == Limp /\ ~HasStep("passive") => on = {} /\ ~busy
PassiveIsOff == Limp /\ Runs /\ ~busy /\ ending # "failed" => on = {}

(* The steps of such a program that touch the arm.                         *)
LEMMA LimpSteps ==
    ASSUME AppTypeOK, Limp
    PROVE  /\ Step \in ArmSteps => Step \in {"passive", "drive"}
           /\ Step = "passive" => HasStep("passive")
           /\ HasStep("passive") => Step \notin {"work", "probe"}
<1>1. /\ ~ \E x \in ArmSteps \ {"passive", "drive"} : HasStep(x)
      /\ HasStep("passive") => ~HasStep("work") /\ ~HasStep("probe")
  BY ScriptFacts DEF Fits, Limp, HasStep, Script
<1>2. HasStep(Step)
  BY DEF HasStep, Step, AppTypeOK
<1> QED
  BY <1>1, <1>2

(* What a program that switches nothing on may call.                       *)
LEMMA LimpMoves ==
    ASSUME AppTypeOK, Safeguarded, LimpIsCold, Limp, [AppNext]_appVars
    PROVE  \/ /\ UNCHANGED <<busy, on, active, call, guard>>
              /\ thread' \in {thread, "none"}
           \/ /\ CallBegin /\ Step = "passive"
           \/ /\ CallEnd /\ Step = "passive"
           \/ /\ Transacts
<1> USE DEF LimpIsCold, ArmSteps
<1>1. CASE PlainSteps
  BY <1>1, PlainMoves DEF Plain, ArmUntouched, sessionVars
<1>2. ~(Guard \/ Keepalive \/ Bridge) /\ (CallBegin \/ CallEnd => Step = "passive")
  BY LimpSteps DEF Guard, CallBegin, CallEnd, Keepalive, Bridge, BridgeBegin, BridgeActivated,
     BridgeStart, BridgeWait, BridgeUndo, At
<1>3. ~GuardRuns
  BY DEF GuardRuns
<1>4. CASE Stop
  BY <1>4 DEF Stop, ThreadJoined
<1>5. CASE Release \/ DestroyGuard
  BY <1>3, <1>5 DEF Release, DestroyGuard, sessionVars
<1>6. CASE DestroyPort
  BY <1>6 DEF DestroyPort, ThreadJoined, Silenced
<1>7. CASE DestroyOutput \/ Left \/ End \/ Foreign
  BY <1>7 DEF DestroyOutput, Left, End, Foreign, control, sessionVars
<1>8. ~Escalate
  BY DEF Escalate, Answered
<1>9. CASE Killed
  BY <1>9 DEF Killed, Silenced
<1>10. CASE UNCHANGED appVars
  BY <1>10 DEF appVars, control, sessionVars
<1> QED
  BY <1>1, <1>2, <1>4, <1>5, <1>6, <1>7, <1>8, <1>9, <1>10
  DEF AppNext, Program, Environment, PlainSteps, Destroy

(* What the passive feedback answers.                                      *)
LEMMA PassiveAnswer ==
    ASSUME AppTypeOK, Safeguarded, CallEnd, Step = "passive"
    PROVE  \/ /\ on' = {} /\ ~active' /\ call' = "none" /\ UNCHANGED <<thread, guard>>
           \/ /\ Fails /\ active' = active /\ call' = "none" /\ UNCHANGED <<thread, guard>>
<1>1. PICK r \in Answers("passive") :
        /\ Answered("passive", r)
        /\ IF r \in {"active", "limp"} THEN Next1 /\ UNCHANGED <<mode, ending>> ELSE Fails
  BY DEF CallEnd
<1>2. ~Ended /\ guard' = guard
  BY DEF CallEnd, Ended
<1>3. thread' = thread /\ call' = "none"
  BY <1>1, <1>2, AnswerLeaves DEF Safeguarded
<1>4. r \in {"limp", "refused"} /\ Promise(r)
  BY <1>1 DEF Answers, Answered, Return
<1> QED
  BY <1>1, <1>2, <1>3, <1>4 DEF Promise

(* Such a program has nothing on, or is observing.                         *)
LEMMA LimpStep ==
    ASSUME AppTypeOK, Safeguarded, LimpIsCold, LimpIsOff, [AppNext]_appVars
    PROVE  LimpIsCold' /\ LimpIsOff'
<1>1. (Limp' <=> Limp) /\ (HasStep("passive")' <=> HasStep("passive"))
  BY SameProgram, SameScript DEF HasStep
<1>2. SUFFICES ASSUME Limp PROVE LimpIsCold' /\ LimpIsOff'
  BY <1>1 DEF LimpIsCold, LimpIsOff
<1>3. CASE UNCHANGED <<busy, on, active, call, guard>> /\ thread' \in {thread, "none"}
  BY <1>1, <1>3 DEF LimpIsCold, LimpIsOff
<1>4. CASE CallBegin /\ Step = "passive"
  <2>1. HasStep("passive")
    BY <1>2, <1>4, LimpSteps
  <2> QED
    BY <1>1, <1>2, <1>4, <2>1 DEF CallBegin, Calls, Call, LimpIsCold, LimpIsOff
<1>5. CASE CallEnd /\ Step = "passive"
  <2>1. HasStep("passive")
    BY <1>2, <1>5, LimpSteps
  <2> QED
    BY <1>1, <1>2, <1>5, <2>1, PassiveAnswer DEF LimpIsCold, LimpIsOff
<1>6. CASE Transacts
  BY <1>1, <1>2, <1>6 DEF Transacts, Transaction, control, LimpIsCold, LimpIsOff
<1> QED
  BY <1>2, <1>3, <1>4, <1>5, <1>6, LimpMoves

(* A run that failed has failed, unless it works on it.                    *)
LEMMA FailedStays ==
    ASSUME AppTypeOK, [AppNext]_appVars, ending = "failed"
    PROVE  ending' = "failed" \/ Step \in {"work", "probe"}
<1>1. ASSUME Fails PROVE ending' = "failed"
  BY <1>1 DEF Fails
<1>2. CASE Work \/ ProbeRun
  BY <1>2 DEF Work, ProbeRun, At
<1>3. CASE \/ Check \/ Workspace \/ Reserve \/ Create \/ Overwrite \/ Open \/ Drive \/ Close
           \/ FinishLog \/ Commit \/ Summary \/ Publish \/ Verdict \/ Solve \/ Alive
  BY <1>1, <1>3 DEF Check, Workspace, Reserve, Create, Overwrite, Open, Drive, Close,
     FinishLog, Commit, Summary, Publish, Verdict, Solve, Alive
<1>4. CASE Guard \/ CallBegin \/ CallEnd \/ Stop \/ Keepalive \/ Bridge \/ Release
  BY <1>1, <1>4 DEF Guard, CallBegin, CallEnd, Stop, Keepalive, Bridge, BridgeBegin,
     BridgeActivated, BridgeStart, BridgeWait, BridgeUndo, AfterNoThread, Release, report
<1>5. CASE Destroy
  BY <1>5 DEF Destroy, DestroyGuard, DestroyPort, DestroyOutput, Left, End, report
<1>6. CASE Escalate \/ Transacts \/ Foreign \/ Killed \/ UNCHANGED appVars
  BY <1>6 DEF Escalate, Transacts, Foreign, Killed, appVars, report
<1> QED
  BY <1>2, <1>3, <1>4, <1>5, <1>6 DEF AppNext, Program, Environment

(* A passive run that goes on unfailed has everything off.                 *)
LEMMA PassiveStep ==
    ASSUME AppTypeOK, Safeguarded, LimpIsCold, LimpIsOff, PassiveIsOff, [AppNext]_appVars
    PROVE  PassiveIsOff'
<1>1. Limp' <=> Limp
  BY SameProgram, SameScript
<1>2. SUFFICES ASSUME Limp, Runs', ~busy', ending' # "failed" PROVE on' = {}
  BY <1>1 DEF PassiveIsOff
<1>3. Runs
  BY <1>2, ComesFrom
<1>4. CASE UNCHANGED <<busy, on>>
  <2>1. CASE ending # "failed"
    BY <1>2, <1>3, <1>4, <2>1 DEF PassiveIsOff
  <2>2. CASE ending = "failed"
    <3>1. ~HasStep("passive")
      BY <1>2, <2>2, FailedStays, LimpSteps
    <3> QED
      BY <1>2, <1>4, <3>1 DEF LimpIsOff
  <2> QED
    BY <2>1, <2>2
<1>5. CASE CallEnd /\ Step = "passive"
  <2>1. ~Fails
    <3>1. SUFFICES ASSUME Fails PROVE FALSE
      OBVIOUS
    <3>2. mode' = "unwind" \/ ending' = "failed"
      BY <3>1 DEF Fails
    <3> QED
      BY <1>2, <3>2 DEF Runs
  <2> QED
    BY <1>5, <2>1, PassiveAnswer
<1>6. ~CallBegin /\ ~Transacts
  BY <1>2 DEF CallBegin, Calls, Call, Transacts, Transaction
<1> QED
  BY <1>2, <1>4, <1>5, <1>6, LimpMoves

(* What was verified stays so.                                             *)
LEMMA VerifiedStep ==
    ASSUME AppTypeOK, Safeguarded, Verified, [AppNext]_appVars
    PROVE  Verified'
<1>1. CleanIsOff /\ LimpIsCold /\ LimpIsOff /\ PassiveIsOff
  BY DEF Verified, CleanIsOff, LimpIsCold, LimpIsOff, PassiveIsOff
<1>2. CleanIsOff' /\ LimpIsCold' /\ LimpIsOff' /\ PassiveIsOff'
  BY <1>1, CleanStep, LimpStep, PassiveStep
<1> QED
  BY <1>2 DEF Verified, CleanIsOff, LimpIsCold, LimpIsOff, PassiveIsOff

-----------------------------------------------------------------------------
(* Exit status 0.                                                          *)

(* What is whole stays whole.                                              *)
LEMMA WholeStays ==
    ASSUME AppTypeOK, [AppNext]_appVars, ~Runs, \A x \in Outputs : fs[x] = "whole"
    PROVE  \A x \in Outputs : fs'[x] = "whole"
<1>1. SUFFICES ASSUME NEW x \in Outputs PROVE fs'[x] = "whole"
  OBVIOUS
<1>2. x \in Paths /\ fs[x] = "whole"
  BY OutputsArePaths
<1>3. ~Making /\ ~Finishing
  BY DEF Making, Finishing
<1>4. CASE Closing
  <2>1. option = "bundle" => fs["bundle"] = "whole"
    BY DEF Outputs
  <2> QED
    BY <1>2, <1>4, <2>1, OneTurns DEF Closing, Staged
<1>5. CASE Intruding
  BY <1>2, <1>5, OneTurns DEF Intruding
<1> QED
  BY <1>2, <1>3, <1>4, <1>5, FileMoves

(* The verdict is the only step that says it.                              *)
LEMMA ZeroIsTold ==
    ASSUME [AppNext]_appVars, exit # "zero", exit' = "zero"
    PROVE  Verdict
BY DEF AppNext, appVars, report, Program, Environment, Check, Workspace, Reserve, Create,
   Overwrite, Work, ProbeRun, Open, Guard, Drive, Close, FinishLog, Commit, Summary, Publish,
   CallBegin, CallEnd, Stop, Keepalive, Solve, Alive, Bridge, BridgeBegin, BridgeActivated,
   BridgeStart, BridgeWait, BridgeUndo, Release, Destroy, DestroyGuard, DestroyPort,
   DestroyOutput, Left, End, Escalate, Transacts, Foreign, Killed

(* Off the script the result stays what it is.                             *)
LEMMA ResultStays ==
    ASSUME [AppNext]_appVars, ~Runs
    PROVE  ending' = ending /\ ~Runs'
BY DEF AppNext, appVars, control, report, Program, Environment, Check, Workspace, Reserve, Create,
   Overwrite, Work, ProbeRun, Open, Guard, Drive, Close, FinishLog, Commit, Summary, Publish,
   Verdict, CallBegin, CallEnd, Stop, Keepalive, Solve, Alive, Bridge, BridgeBegin, BridgeActivated,
   BridgeStart, BridgeWait, BridgeUndo, Release, Destroy, DestroyGuard, DestroyPort,
   DestroyOutput, Left, End, Escalate, Transacts, Foreign, Killed, At, Runs

(* Exit status 0 stays true once it is told.                               *)
LEMMA ZeroStep ==
    ASSUME AppTypeOK, Safeguarded, Verified, ZeroKept, [AppNext]_appVars
    PROVE  ZeroKept'
<1>1. Outputs' = Outputs
  BY SameProgram, SameScript
<1>2. CASE exit = "zero"
  <2>1. /\ on = {} /\ ending = "success" /\ ~Runs
        /\ \A x \in Outputs : fs[x] = "whole"
        /\ Unattended
    BY <1>2 DEF ZeroKept, Unattended
  <2>2. UNCHANGED <<busy, on, guard>> /\ thread' # "running"
    BY <2>1, NothingCalls DEF Unattended
  <2>3. \A x \in Outputs : fs'[x] = "whole"
    BY <2>1, WholeStays
  <2>4. ending' = "success" /\ ~Runs'
    BY <2>1, ResultStays
  <2> QED
    BY <1>1, <2>1, <2>2, <2>3, <2>4 DEF ZeroKept, Unattended
<1>3. CASE exit # "zero"
  <2>1. SUFFICES ASSUME exit' = "zero" PROVE ZeroKept'
    BY DEF ZeroKept
  <2>2. Verdict
    BY <1>3, <2>1, ZeroIsTold
  <2>3. /\ Runs /\ ~Ended /\ Step = "verdict" /\ ph = "begin" /\ Successful
        /\ UNCHANGED <<sessionVars, guard, ending, fs>> /\ mode' = "unwind"
    BY <2>1, <2>2 DEF Verdict, At, Runs, Ended
  <2>4. ~GuardOnTop
    <3>1. ~Guarded(Script, pc)
      BY <2>3, ScriptFacts DEF FilesInOrder, AppTypeOK, Step
    <3> QED
      BY <2>3, <3>1 DEF Safeguarded, GuardPlaced
  <2>5. ~Hot
    BY <2>3, <2>4 DEF Safeguarded, Pending, Is
  <2>6. guard \in {"none", "done"}
    BY <2>3, <2>4 DEF Safeguarded, GuardPlaced, AppTypeOK
  <2>7. ending = "success" /\ \A x \in Outputs : fs[x] = "whole"
    BY <2>3 DEF Successful
  <2>8. on = {}
    <3>1. CASE clean
      BY <3>1 DEF Verified
    <3>2. CASE Limp
      BY <2>3, <2>5, <2>7, <3>2 DEF Verified, Hot
    <3> QED
      BY <2>3, <3>1, <3>2 DEF Successful, Released
  <2> QED
    BY <1>1, <2>3, <2>5, <2>6, <2>7, <2>8 DEF ZeroKept, Hot, sessionVars, Runs
<1> QED
  BY <1>2, <1>3

-----------------------------------------------------------------------------
(* The end, and an unclean stop.                                           *)

(* A program ends only where nobody can be moving the arm.                 *)
LEMMA LastStep ==
    ASSUME AppTypeOK, Safeguarded, EndsTried, [AppNext]_appVars
    PROVE  EndsTried'
<1>1. CASE Verdict
  BY <1>1 DEF Verdict, EndsTried, At, Runs, Ended
<1>2. CASE End
  <2>1. ~Runs /\ ~Ended /\ ~GuardOnTop
    BY <1>2 DEF End, Runs, Ended, GuardOnTop
  <2>2. ~Hot
    BY <2>1 DEF Safeguarded, Pending, Is
  <2> QED
    BY <1>2, <2>1, <2>2 DEF End, EndsTried, Runs, Ended, Hot, AppTypeOK
<1>3. CASE Killed
  BY <1>3 DEF Killed, EndsTried, Runs, Ended
<1>4. CASE Ended
  BY <1>4, OverStays DEF EndsTried, Runs, Ended, appVars, control, report
<1>5. CASE ~Ended /\ ~Verdict /\ ~End /\ ~Killed
  <2>1. exit' = exit /\ mode' # "over"
    BY <1>5 DEF AppNext, appVars, control, report, Program, Environment, Check, Workspace,
       Reserve, Create, Overwrite, Work, ProbeRun, Open, Guard, Drive, Close, FinishLog, Commit,
       Summary, Publish, CallBegin, CallEnd, Stop, Keepalive, Solve, Alive, Bridge, BridgeBegin,
       BridgeActivated, BridgeStart, BridgeWait, BridgeUndo, AfterNoThread, Release, Destroy,
       DestroyGuard, DestroyPort, DestroyOutput, Left, Escalate, Transacts, Foreign, Fails,
       Next1, At, Ended
  <2>2. Runs' => Runs
    BY ResultStays
  <2> QED
    BY <1>5, <2>1, <2>2 DEF EndsTried, Ended
<1> QED
  BY <1>1, <1>2, <1>3, <1>4, <1>5

(* An unclean stop is told by the guard and by the bridge, which silence   *)
(* the bus behind it, and by an escalation, which has done so.             *)
Silences == guard = "quiesce" \/ (Runs /\ ph = "quiesce")

(* Who may answer so.                                                      *)
LEMMA UncleanIsTold ==
    ASSUME NEW c \in {"activate", "switch", "passive", "deactivate", "escalate"},
           NEW r \in Answers(c), Answered(c, r), result' = "unclean"
    PROVE  r = "unclean" /\ (c = "deactivate" \/ silent')
<1>1. r = "unclean"
  BY DEF Answered, Return
<1>2. c \in {"deactivate", "escalate"}
  BY <1>1 DEF Answers
<1> QED
  BY <1>1, <1>2 DEF Answered

(* The guard silences the bus behind an unclean stop.                      *)
LEMMA GuardUnclean ==
    ASSUME Unclean, ~Ended, GuardRuns, UNCHANGED <<ph, mode>>
    PROVE  Unclean'
<1>1. CASE guard = "armed"
  BY <1>1 DEF GuardRuns, Calls, Call, Unclean
<1>2. CASE guard = "running"
  <2>1. PICK r \in Answers("deactivate") :
          Answered("deactivate", r) /\ clean' = (r = "clean") /\ guard' = AfterStop(r)
    BY <1>2 DEF GuardRuns
  <2>2. result' = "unclean" => r = "unclean"
    BY <2>1, UncleanIsTold
  <2> QED
    BY <2>1, <2>2 DEF Unclean, AfterStop
<1>3. CASE guard = "quiesce"
  BY <1>3 DEF GuardRuns, Silenced, Unclean
<1> QED
  BY <1>1, <1>2, <1>3 DEF GuardRuns

(* An unclean stop is silenced, whoever made it.                           *)
LEMMA UncleanStep ==
    ASSUME AppTypeOK, Safeguarded, Unclean, [AppNext]_appVars
    PROVE  Unclean'
<1>1. CASE PlainSteps
  <2>1. Plain
    BY <1>1, PlainMoves
  <2> QED
    BY <2>1 DEF Plain, ArmUntouched, sessionVars, Unclean, Runs, Ended
<1>2. CASE Guard
  <2>1. Runs /\ Step = "guard" /\ ph = "begin"
    BY <1>2 DEF Guard, At, Runs
  <2>2. guard # "quiesce"
    BY <2>1, NoArmAfterEnd DEF ArmSteps
  <2> QED
    BY <1>2, <2>1, <2>2 DEF Guard, sessionVars, Unclean, Runs, Ended
<1>3. CASE CallBegin
  BY <1>3 DEF CallBegin, Calls, Call, Unclean
<1>4. CASE CallEnd
  BY <1>4, UncleanIsTold DEF CallEnd, Unclean
<1>5. CASE Stop \/ Keepalive
  <2>1. Runs /\ Step \notin Ends /\ ph = "begin" /\ UNCHANGED <<result, silent, guard>>
    BY <1>5 DEF Stop, Keepalive, At, Runs, ThreadJoined, ThreadStarts, sessionVars, Ends
  <2> QED
    BY <2>1 DEF Unclean, Safeguarded, GuardPlaced, Runs, Ended
<1>6. CASE BridgeBegin \/ BridgeStart \/ BridgeWait
  <2>1. Runs /\ ph # "quiesce" /\ guard' = guard
    BY <1>6 DEF BridgeBegin, BridgeStart, BridgeWait, At, Runs
  <2>2. result' = "none" \/ UNCHANGED <<result, silent>>
    BY <1>6 DEF BridgeBegin, BridgeStart, BridgeWait, Calls, Call, ThreadStarts, sessionVars
  <2> QED
    BY <2>1, <2>2 DEF Unclean, Runs, Ended
<1>7. CASE BridgeActivated
  BY <1>7, UncleanIsTold DEF BridgeActivated, Unclean
<1>8. CASE BridgeUndo
  <2>1. CASE ph = "undo"
    BY <1>8, <2>1 DEF BridgeUndo, Calls, Call, Unclean
  <2>2. CASE ph = "undoing"
    <3>1. PICK r \in Answers("deactivate") :
            /\ Answered("deactivate", r)
            /\ IF AfterStop(r) = "done"
                 THEN Fails
                 ELSE ph' = "quiesce" /\ UNCHANGED <<pc, mode, ending>>
      BY <1>8, <2>2 DEF BridgeUndo
    <3>2. result' = "unclean" => r = "unclean"
      BY <3>1, UncleanIsTold
    <3> QED
      BY <1>8, <3>1, <3>2 DEF BridgeUndo, Unclean, AfterStop, Runs
  <2>3. CASE ph = "quiesce"
    BY <1>8, <2>3 DEF BridgeUndo, Silenced, Unclean
  <2> QED
    BY <1>8, <2>1, <2>2, <2>3 DEF BridgeUndo
<1>9. CASE Release
  <2>1. CASE GuardRuns /\ UNCHANGED ph
    BY <1>9, <2>1, GuardUnclean DEF Release, At, Ended
  <2>2. CASE guard = "done" /\ UNCHANGED <<sessionVars, guard>>
    BY <1>9, <2>2 DEF Release, At, sessionVars, Unclean, Runs, Ended
  <2> QED
    BY <1>9, <2>1, <2>2 DEF Release
<1>10. CASE DestroyGuard
  <2>1. CASE GuardRuns
    BY <1>10, <2>1, GuardUnclean, LeavingEnds DEF DestroyGuard, Top
  <2>2. CASE guard = "done" /\ UNCHANGED <<sessionVars, guard>>
    BY <1>10, <2>2 DEF DestroyGuard, sessionVars, Unclean, Runs, Ended
  <2> QED
    BY <1>10, <2>1, <2>2 DEF DestroyGuard
<1>11. CASE DestroyPort \/ DestroyOutput
  BY <1>11 DEF DestroyPort, DestroyOutput, ThreadJoined, Silenced, sessionVars, Unclean, Runs,
     Ended
<1>12. CASE Left \/ End
  BY <1>12 DEF Left, End, At, sessionVars, Unclean, Runs, Ended
<1>13. CASE Escalate
  <2>1. CASE Calls("escalate", thread)
    BY <2>1 DEF Calls, Call, Unclean
  <2>2. CASE \E r \in Answers("escalate") : Answered("escalate", r)
    BY <2>2, UncleanIsTold DEF Unclean
  <2> QED
    BY <1>13, <2>1, <2>2 DEF Escalate
<1>14. CASE Transacts \/ Foreign \/ UNCHANGED appVars
  BY <1>14 DEF Transacts, Transaction, Foreign, appVars, control, sessionVars, Unclean, Runs,
     Ended
<1>15. CASE Killed
  BY <1>15 DEF Killed, Silenced, Unclean
<1> QED
  BY <1>1, <1>2, <1>3, <1>4, <1>5, <1>6, <1>7, <1>8, <1>9, <1>10, <1>11, <1>12, <1>13, <1>14,
     <1>15 DEF AppNext, Program, Environment, PlainSteps, Bridge, Destroy

-----------------------------------------------------------------------------
(* The invariant.                                                          *)

(* The invariant holds of a program that starts.                           *)
LEMMA AppInitially ==
    ASSUME AppInit
    PROVE  AppInv
<1>1. AppTypeOK
  BY TypesInit
<1>2. /\ Runs /\ ~Ended /\ ph = "begin" /\ pc = 1 /\ objects = <<>> /\ guard = "none"
      /\ call = "none" /\ tried /\ ~clean /\ exit = "none" /\ ~Hot /\ result = "none" /\ ~busy
      /\ on = {} /\ ~active /\ thread = "none"
  BY DEF AppInit, SessionInit, Runs, Ended, Hot
<1>3. DOMAIN objects = {} /\ ~GuardOnTop
  BY <1>2 DEF GuardOnTop
<1>4. ~Guarded(Script, pc) /\ \A x : ~Owned(Script, x, pc)
  BY <1>2 DEF Guarded, Owned
<1>5. PhasesPlaced /\ GuardPlaced /\ CallPlaced /\ Stops /\ Pending
  BY <1>2, <1>3, <1>4
  DEF PhasesPlaced, GuardPlaced, CallPlaced, Stops, Stopping, Stopped, Pending
<1>6. EndsTried /\ Unclean /\ Verified /\ ZeroKept
  BY <1>2 DEF EndsTried, Unclean, Verified, ZeroKept
<1>7. Foreigners
  BY <1>3, <1>4 DEF Foreigners, AppInit
<1> QED
  BY <1>1, <1>5, <1>6, <1>7 DEF AppInv

(* Every step keeps the invariant.                                         *)
LEMMA AppInductive ==
    ASSUME AppInv, [AppNext]_appVars
    PROVE  AppInv'
<1>1. AppTypeOK /\ Safeguarded /\ EndsTried /\ Unclean /\ Verified /\ ZeroKept
      /\ ForeignersPlaced /\ OwnedIsOwn /\ MotionIsOwn
  BY DEF AppInv, Safeguarded, Foreigners, ForeignersPlaced, OwnedIsOwn, MotionIsOwn
<1>2. AppTypeOK' /\ Safeguarded' /\ EndsTried' /\ Unclean' /\ Verified' /\ ZeroKept'
  BY <1>1, TypesKept, SafeguardedStep, LastStep, UncleanStep, VerifiedStep, ZeroStep
<1>3. ForeignersPlaced' /\ OwnedIsOwn' /\ MotionIsOwn'
  BY <1>1, PlacedStep, OwnStep, MotionStep
<1> QED
  BY <1>2, <1>3 DEF AppInv, Safeguarded, Foreigners, ForeignersPlaced, OwnedIsOwn, MotionIsOwn

(* So it holds throughout.                                                 *)
LEMMA AppInvariant == AppSpec => []AppInv
<1>1. AppInit => AppInv
  BY AppInitially
<1>2. AppInv /\ [AppNext]_appVars => AppInv'
  BY AppInductive
<1> QED
  BY <1>1, <1>2, PTL DEF AppSpec

-----------------------------------------------------------------------------
(* The properties.                                                         *)

(* Every variable keeps its type, and the program stays in its script.     *)
THEOREM AppTypeCorrect == AppSpec => []AppTypeOK
<1>1. AppInv => AppTypeOK
  BY DEF AppInv
<1> QED
  BY <1>1, AppInvariant, PTL

(* Whatever fails or throws, a program that ends by itself has tried to    *)
(* release every servo after the last time it switched one on.             *)
THEOREM NeverLeftOnHolds == AppSpec => []NeverLeftOn
<1>1. AppInv => NeverLeftOn
  BY DEF AppInv, EndsTried, NeverLeftOn, Ended
<1> QED
  BY <1>1, AppInvariant, PTL

(* Exit status 0 is told only over a limp arm and complete outputs.        *)
THEOREM ExitZeroIsHonest == AppSpec => []ExitZeroHonest
<1>1. AppInv => ExitZeroHonest
  BY DEF AppInv, ZeroKept, ExitZeroHonest
<1> QED
  BY <1>1, AppInvariant, PTL

(* What a call that begins may rest on: the step is one that calls, the    *)
(* guard is armed, or the loop that feeds the arm has given up.            *)
LEMMA WhoCalls ==
    ASSUME AppTypeOK, Safeguarded, [AppNext]_appVars, ~busy, busy'
    PROVE  /\ ~Ended
           /\ \/ Runs /\ Step \in ArmSteps /\ ph \in {"begin", "undo"}
              \/ guard = "armed" /\ (Runs => Step \in Ends /\ ph = "begin")
              \/ thread = "running"
<1>1. ~Ended
  BY OverStays DEF appVars, sessionVars
<1>2. ASSUME NEW c, NEW r, Answered(c, r) PROVE ~busy'
  BY <1>2 DEF Answered, Return
<1>3. CASE CallBegin \/ Keepalive \/ BridgeBegin
  BY <1>1, <1>3 DEF CallBegin, Keepalive, BridgeBegin, ThreadStarts, sessionVars, At, Runs,
     ArmSteps
<1>4. CASE BridgeUndo
  <2>1. ph = "undo" /\ Runs /\ Step = "bridge"
    BY <1>2, <1>4 DEF BridgeUndo, Silenced, Runs
  <2> QED
    BY <1>1, <2>1 DEF ArmSteps
<1>5. CASE Release \/ DestroyGuard
  <2>1. GuardRuns /\ guard = "armed"
    BY <1>2, <1>5 DEF Release, DestroyGuard, GuardRuns, Silenced, sessionVars
  <2> QED
    BY <1>1, <1>5, <2>1, LeavingEnds DEF Release, DestroyGuard, Top, At, Ends
<1>6. CASE Escalate
  BY <1>1, <1>2, <1>6 DEF Escalate, At, Runs, ArmSteps
<1>7. ~(PlainSteps \/ Guard \/ CallEnd \/ Stop \/ BridgeActivated \/ BridgeStart \/ BridgeWait)
  <2>1. ~PlainSteps
    BY PlainMoves DEF Plain, ArmUntouched, sessionVars
  <2> QED
    BY <1>2, <2>1 DEF Guard, CallEnd, Stop, BridgeActivated, BridgeStart, BridgeWait,
       ThreadJoined, ThreadStarts, sessionVars
<1>8. ~(DestroyPort \/ DestroyOutput \/ Left \/ End \/ Transacts \/ Foreign \/ Killed)
  BY DEF DestroyPort, DestroyOutput, Left, End, Transacts, Transaction, Foreign, Killed,
     ThreadJoined, Silenced, sessionVars
<1> QED
  BY <1>3, <1>4, <1>5, <1>6, <1>7, <1>8
  DEF AppNext, appVars, sessionVars, Program, Environment, PlainSteps, Bridge, Destroy

(* Behind an unclean stop the bus is silent before the program calls again. *)
THEOREM UncleanIsSilencedHolds == AppSpec => UncleanIsSilenced
<1>1. ASSUME AppInv, [AppNext]_appVars
      PROVE  [result = "unclean" /\ on # {} /\ ~busy /\ busy' => silent]_appVars
  <2>1. SUFFICES ASSUME result = "unclean", ~busy, busy', ~silent PROVE FALSE
    OBVIOUS
  <2>2. AppTypeOK /\ Safeguarded
    BY <1>1 DEF AppInv, Safeguarded
  <2>3. /\ ~Ended
        /\ \/ Runs /\ Step \in ArmSteps /\ ph \in {"begin", "undo"}
           \/ guard = "armed" /\ (Runs => Step \in Ends /\ ph = "begin")
           \/ thread = "running"
    BY <1>1, <2>1, <2>2, WhoCalls
  <2>4. guard = "quiesce" \/ (Runs /\ ph = "quiesce")
    BY <1>1, <2>1, <2>3 DEF AppInv, Unclean
  <2>5. thread = "none"
    BY <2>2, <2>3, <2>4 DEF Safeguarded, Stops, Stopping
  <2>6. Runs /\ Step \in ArmSteps => guard # "quiesce"
    BY <2>2, NoArmAfterEnd
  <2> QED
    BY <2>3, <2>4, <2>5, <2>6
<1> QED
  BY <1>1, AppInvariant, PTL DEF AppSpec, UncleanIsSilenced

(* Nothing is finished or published while the arm is on, or while the      *)
(* background thread feeds it.                                             *)
THEOREM FilesAfterReleaseHolds == AppSpec => FilesAfterRelease
<1>1. ASSUME AppInv, [AppNext]_appVars
      PROVE  [\A p \in Paths :
                fs[p] \in {"absent", "partial"} /\ fs'[p] \in {"whole", "broken"}
                  => ~active /\ thread # "running"]_appVars
  <2>1. SUFFICES ASSUME NEW p \in Paths, fs[p] \in {"absent", "partial"},
                        fs'[p] \in {"whole", "broken"}
                 PROVE  ~active /\ thread # "running"
    OBVIOUS
  <2>2. AppTypeOK /\ Safeguarded
    BY <1>1 DEF AppInv, Safeguarded
  <2>3. ~Intruding
    BY <2>1, <2>2, OneTurns DEF Intruding
  <2>4. CASE Making \/ Finishing
    <3>1. Runs
      BY <2>4 DEF Making, Finishing
    <3>2. Step \in Makes \cup {"close", "finish", "commit", "summary", "publish"}
      BY <2>4 DEF Making, Finishing
    <3>3. ~Guarded(Script, pc) /\ Step \notin Ends
      BY <2>2, <3>2, ScriptFacts DEF FilesInOrder, AppTypeOK, Step, Makes, Ends
    <3>4. ~GuardOnTop
      BY <2>2, <3>1, <3>3 DEF Safeguarded, GuardPlaced, Ends
    <3>5. Step \notin {"guard", "bridge"} /\ ph # "calling" /\ ~Ended
      BY <2>2, <3>1, <3>2 DEF Safeguarded, PhasesPlaced, Makes, Runs, Ended
    <3> QED
      BY <2>2, <3>4, <3>5 DEF Safeguarded, Pending, Is, Hot
  <2>5. CASE Closing
    <3>1. ~GuardOnTop /\ Leaving
      BY <2>5 DEF Closing
    <3> QED
      BY <2>2, <3>1, LeavingEnds DEF Safeguarded, Pending, Is, Hot
  <2> QED
    BY <1>1, <2>1, <2>2, <2>3, <2>4, <2>5, FileMoves
<1> QED
  BY <1>1, AppInvariant, PTL DEF AppSpec, FilesAfterRelease

(* Another process's file is neither overwritten nor deleted.              *)
THEOREM OutputsAreOwnHolds == AppSpec => OutputsAreOwn
<1>1. ASSUME AppInv, [AppNext]_appVars
      PROVE  [\A p \in Paths \ Made({"overwrite", "write"}) :
                fs[p] = "foreign" => fs'[p] = "foreign"]_appVars
  <2>1. SUFFICES ASSUME NEW p \in Paths, p \notin Made({"overwrite", "write"}),
                        fs[p] = "foreign"
                 PROVE  fs'[p] = "foreign"
    OBVIOUS
  <2>2. AppTypeOK /\ ForeignersPlaced /\ OwnedIsOwn /\ MotionIsOwn
    BY <1>1 DEF AppInv, Foreigners, ForeignersPlaced, OwnedIsOwn, MotionIsOwn
  <2>3. ~Staged(p)
    BY <2>1, <2>2 DEF ForeignersPlaced
  <2>4. CASE Making
    <3>1. Script[pc][2] # p
      <4>1. CASE Step = "create"
        BY <2>1, <2>4, <4>1 DEF Making
      <4>2. CASE Step \in {"overwrite", "write"}
        <5>1. Script[pc][2] \in Made({"overwrite", "write"})
          BY <2>2, <4>2 DEF Made, Step, AppTypeOK
        <5> QED
          BY <2>1, <5>1
      <4> QED
        BY <2>4, <4>1, <4>2 DEF Making, Makes
    <3> QED
      BY <2>1, <2>2, <2>4, <3>1, OneTurns DEF Making
  <2>5. CASE Finishing
    BY <2>1, <2>2, <2>3, <2>5, OneTurns DEF Finishing, OwnedIsOwn
  <2>6. CASE Closing
    <3>1. CASE Teaches /\ Top("motion") /\ Turns("motion", "absent")
      <4>1. p # "motion"
        <5>1. SUFFICES ASSUME p = "motion" PROVE FALSE
          OBVIOUS
        <5>2. objects[Len(objects)] = "motion" /\ Len(objects) \in DOMAIN objects
          BY <2>2, <3>1, FrontFacts DEF Top, Last, AppTypeOK
        <5> QED
          BY <2>1, <2>2, <2>3, <3>1, <5>1, <5>2 DEF MotionIsOwn
      <4> QED
        BY <2>1, <2>2, <3>1, <4>1, OneTurns
    <3> QED
      BY <2>1, <2>2, <2>3, <2>6, <3>1, OneTurns DEF Closing
  <2>7. CASE Intruding
    BY <2>1, <2>2, <2>7, OneTurns DEF Intruding
  <2> QED
    BY <1>1, <2>1, <2>2, <2>4, <2>5, <2>6, <2>7, FileMoves
<1> QED
  BY <1>1, AppInvariant, PTL DEF AppSpec, OutputsAreOwn

(***************************************************************************)
(* Proofs about IdentRun, for every schedule, every ladder of deadlines    *)
(* that meets IdentAssumption and every course of events.                  *)
(***************************************************************************)
(* The invariant.  Each phase has a latest moment to begin and a longest   *)
(* stay; a sample that ends the stay is one later than the last that does  *)
(* not, which is where `update` and `observe` differ.                      *)

Early == {"Capture", "HoldDiag", "LeadIn"}
Ongoing == Early \cup {"RampIn", "Hold", "Measure"}
Probing == {"RampIn", "Hold", "Measure", "RampOut", "KillRamp"}

(* An immediate ramp-out would end `room` samples after the graceful stop  *)
(* at the latest.                                                          *)
Latest(at, room) == offset + at + Ramp + FinalHold <= TStop + room

Stays(length) ==
    /\ now <= since + length
    /\ stage = "observe" /\ outcome # "HardFault" => now < since + length

Timed ==
    /\ since <= now
    /\ phase \in Early => now <= 1 \/ Latest(now, 1)
    /\ phase \in Ongoing \ Early => Latest(now, 1)
    /\ phase \in Ongoing /\ stage = "observe" /\ outcome # "HardFault" =>
         now = 0 \/ Latest(now, 0)
    /\ phase = "RampOut" => Latest(since, 0) /\ Stays(Ramp)
    /\ phase = "KillRamp" => /\ Latest(since, IF after = "final" THEN 1 ELSE 0)
                             /\ Stays(Kill)
    /\ phase = "ReSettle" => Latest(since, Kill) /\ Stays(ReSettle)
    /\ phase = "FinalHold" => offset + since + FinalHold <= TQuiesce /\ Stays(FinalHold)
    /\ phase = "Done" => offset + now <= TQuiesce

(* Which outcome, dwell and probe go with which phase. *)
Control ==
    /\ stage = "update" => outcome # "HardFault" /\ phase # "Done"
    /\ phase \in Ongoing \cup {"RampOut", "ReSettle"} => outcome \in {"Running", "HardFault"}
    /\ outcome = "Completed" => phase = "Done"
    /\ phase = "KillRamp" =>
         outcome \in {IF after = "final" THEN "DeadlineStop" ELSE "Running", "HardFault"}
    /\ now = 0 => phase \in Early
    /\ probe => phase \in Probing
    /\ phase \in Early => dwell = 0
    /\ phase \in Probing \cup {"ReSettle"} => dwell \in Dwells
    /\ phase = "HoldDiag" => kind = "hold"

(* A dwell the schedule has left behind, and one it has not reached. *)
Past(k) ==
    \/ book[k].skipped
    \/ /\ book[k].started
       /\ book[k].completed \/ (book[k].softs = 1 /\ ~book[k].retried)

Untouched(k) == book[k].softs = 0 /\ ~book[k].retried

(* The current dwell: a retry follows its one soft event. *)
Current(k) ==
    /\ phase \in Probing \cup {"ReSettle"} => book[k].started
    /\ phase \in {"RampIn", "Hold", "Measure"} =>
         book[k].softs <= 1 /\ (book[k].softs = 1 <=> book[k].retried)
    /\ phase = "RampOut" => book[k].completed
    /\ phase = "ReSettle" => book[k].softs = 1 /\ ~book[k].retried
    /\ phase = "KillRamp" =>
         /\ after = "abort" <=> book[k].softs >= 2
         /\ after = "resettle" => book[k].softs = 1 /\ ~book[k].retried
    /\ book[k].softs >= 2 => phase \in {"KillRamp", "Done"}

Booked ==
    /\ \A k \in Dwells : k < dwell => Past(k)
    /\ \A k \in Dwells : k = dwell => Current(k)
    /\ \A k \in Dwells : k > dwell => Untouched(k)
    /\ \A k \in Dwells : k # dwell => book[k].softs <= 1
    /\ phase = "FinalHold" /\ outcome = "Running" => \A k \in Dwells : Past(k)
    /\ outcome = "Completed" => kind = "hold" \/ \A k \in Dwells : Past(k)
    /\ outcome = "DeadlineStop" => \A k \in Dwells : book[k].started \/ book[k].skipped

IInv == TypeOK /\ Timed /\ Control /\ Booked

-----------------------------------------------------------------------------
(* The operators of the schedule.                                          *)

(* What the assumption on the constants says of each.                      *)
LEMMA Constants ==
    /\ N \in Nat /\ TStop \in Nat /\ TQuiesce \in Nat /\ Offsets \subseteq 0..TStop
    /\ Ramp \in Nat /\ Ramp > 0 /\ Kill \in Nat /\ Kill > 0 /\ Kill < Ramp + FinalHold
    /\ ReSettle \in Nat /\ ReSettle > 0 /\ FinalHold \in Nat /\ FinalHold > 0
    /\ TStop + FinalHold + 1 <= TQuiesce /\ TStop + Kill + ReSettle <= TQuiesce + Ramp
    /\ LeadIn \in Nat /\ HoldMax \in Nat /\ Window \in Nat /\ JointReady \in Nat /\ Quiet \in Nat
    /\ CaptureRamps \subseteq Nat
  BY IdentAssumption, SMT

(* An admitted dwell leaves room for an immediate ramp-out before the      *)
(* graceful stop, however many are still to come.                          *)
LEMMA AdmittedHasRoom ==
    ASSUME NEW k \in Dwells, offset \in Nat, now \in Nat, AdmitsDwell(k)
    PROVE  Latest(now, 0)
  <1> DEFINE left == N + 1 - (k + 1)
  <1>1. left \in Nat /\ dwellWorst \in Nat /\ dwellWorst >= Ramp
    BY Constants DEF Dwells, dwellWorst
  <1>2. \A m, w \in Nat : m * w \in Nat
    OBVIOUS
  <1>3. left * dwellWorst \in Nat
    BY <1>1, <1>2 
  <1>4. offset + now + (dwellWorst + (FinalHold + left * dwellWorst)) <= TStop
    BY DEF AdmitsDwell, admits, worstFrom
  <1> HIDE DEF left
  <1> QED
    BY <1>1, <1>3, <1>4, Constants DEF Latest

(* Skipping a dwell marks it and changes nothing else.                     *)
LEMMA SkippedFacts ==
    ASSUME NEW b \in [Dwells -> Result], NEW ks
    PROVE  /\ Skipped(b, ks) \in [Dwells -> Result]
           /\ \A k \in Dwells :
                /\ Skipped(b, ks)[k].softs = b[k].softs
                /\ Skipped(b, ks)[k].retried = b[k].retried
                /\ Skipped(b, ks)[k].completed = b[k].completed
                /\ Skipped(b, ks)[k].started = b[k].started
                /\ b[k].skipped => Skipped(b, ks)[k].skipped
                /\ k \in ks => Skipped(b, ks)[k].skipped
  <1> DEFINE s == Skipped(b, ks)
  <1>1. \A k \in Dwells : s[k] = IF k \in ks THEN [b[k] EXCEPT !.skipped = TRUE] ELSE b[k]
    BY DEF Skipped
  <1>2. \A k \in Dwells : b[k] \in Result
    OBVIOUS
  <1>3. \A k \in Dwells : [b[k] EXCEPT !.skipped = TRUE] \in Result
    BY <1>2 DEF Result
  <1>4. s \in [Dwells -> Result]
    BY <1>2, <1>3 DEF Skipped
  <1> QED
    BY <1>1, <1>2, <1>4 DEF Result

(* What beginning at dwell d does: the dwells it passes over are skipped,  *)
(* and the schedule is over, or is stopped with the rest accounted for, or *)
(* goes on with a dwell that has room.                                     *)
LEMMA StartFacts ==
    ASSUME NEW b \in [Dwells -> Result], NEW d \in 1..(N + 1), offset \in Nat, now \in Nat,
           mult \in {1, Mult}, outcome = "Running", startDwell(b, d)
    PROVE  /\ dwell' \in d..(N + 1) /\ since' = now /\ mult' \in {1, Mult}
           /\ book' \in [Dwells -> Result]
           /\ \A k \in Dwells :
                /\ book'[k].softs = b[k].softs
                /\ book'[k].retried = b[k].retried
                /\ book'[k].completed = b[k].completed
                /\ b[k].skipped => book'[k].skipped
                /\ b[k].started => book'[k].started
                /\ k >= d /\ k < dwell' => book'[k].skipped
           /\ \/ phase' = "FinalHold" /\ outcome' = "Running" /\ dwell' = N + 1
              \/ /\ phase' = "FinalHold" /\ outcome' = "DeadlineStop"
                 /\ \A k \in Dwells : k >= dwell' => book'[k].started \/ book'[k].skipped
              \/ /\ phase' = "RampIn" /\ outcome' = "Running" /\ dwell' \in Dwells
                 /\ book'[dwell'].started /\ Latest(now, 0)
  <1>1. PICK j \in d..(N + 1) :
          /\ dwell' = j
          /\ LET c == Skipped(b, d..(j - 1))
             IN  \/ /\ j > N
                    /\ Enter("FinalHold") /\ book' = c /\ UNCHANGED <<outcome, mult>>
                 \/ /\ j <= N /\ ~AdmitsDwell(j)
                    /\ Enter("FinalHold") /\ UNCHANGED mult
                    /\ book' = Skipped(c, {j} \cup Rest(c, j)) /\ fail("DeadlineStop")
                 \/ /\ j <= N /\ AdmitsDwell(j)
                    /\ restartDwell(c, j) /\ UNCHANGED outcome
                    /\ mult' \in {1, Mult}
    BY Zenon DEF startDwell
  <1> DEFINE c == Skipped(b, d..(j - 1))
  <1>2. /\ c \in [Dwells -> Result]
        /\ \A k \in Dwells :
             /\ c[k].softs = b[k].softs /\ c[k].retried = b[k].retried
             /\ c[k].completed = b[k].completed /\ c[k].started = b[k].started
             /\ b[k].skipped => c[k].skipped
             /\ k >= d /\ k < j => c[k].skipped
    <2>1. \A k \in Dwells : k >= d /\ k < j => k \in d..(j - 1)
      BY Constants DEF Dwells
    <2> QED
      BY <2>1, SkippedFacts
  <1> HIDE DEF c
  <1>3. CASE j > N /\ Enter("FinalHold") /\ book' = c /\ UNCHANGED <<outcome, mult>>
    BY <1>1, <1>2, <1>3, Constants DEF Enter
  <1>4. CASE /\ j <= N /\ Enter("FinalHold") /\ UNCHANGED mult
             /\ book' = Skipped(c, {j} \cup Rest(c, j)) /\ fail("DeadlineStop")
    <2>1. /\ book' \in [Dwells -> Result]
          /\ \A k \in Dwells :
               /\ book'[k].softs = c[k].softs /\ book'[k].retried = c[k].retried
               /\ book'[k].completed = c[k].completed /\ book'[k].started = c[k].started
               /\ c[k].skipped => book'[k].skipped
               /\ k \in {j} \cup Rest(c, j) => book'[k].skipped
      BY <1>2, <1>4, SkippedFacts
    <2>2. ASSUME NEW k \in Dwells, k >= j
          PROVE  book'[k].started \/ book'[k].skipped
      <3>1. CASE c[k].started
        BY <2>1, <3>1
      <3>2. CASE ~c[k].started
        <4>1. k \in {j} \cup Rest(c, j)
          BY <2>2, <3>2, Constants DEF Rest, Dwells
        <4> QED
          BY <2>1, <4>1
      <3> QED
        BY <3>1, <3>2
    <2>3. phase' = "FinalHold" /\ since' = now /\ outcome' = "DeadlineStop" /\ mult' = mult
      BY <1>4 DEF Enter, fail
    <2> QED
      BY <1>1, <1>2, <2>1, <2>2, <2>3
  <1>5. CASE /\ j <= N /\ AdmitsDwell(j) /\ restartDwell(c, j) /\ UNCHANGED outcome
             /\ mult' \in {1, Mult}
    <2>1. j \in Dwells
      BY <1>5, Constants DEF Dwells
    <2>2. /\ book' = [c EXCEPT ![j].started = TRUE]
          /\ phase' = "RampIn" /\ since' = now
      BY <1>5 DEF restartDwell, Enter
    <2>3. /\ book' \in [Dwells -> Result] /\ book'[j].started
          /\ \A k \in Dwells :
               /\ book'[k].softs = c[k].softs /\ book'[k].retried = c[k].retried
               /\ book'[k].completed = c[k].completed
               /\ c[k].started => book'[k].started
               /\ c[k].skipped => book'[k].skipped
      <3>1. \A k \in Dwells : c[k] \in Result
        BY <1>2
      <3>2. [c[j] EXCEPT !.started = TRUE] \in Result
        BY <2>1, <3>1 DEF Result
      <3>3. \A k \in Dwells :
              book'[k] = IF k = j THEN [c[j] EXCEPT !.started = TRUE] ELSE c[k]
        BY <1>2, <2>1, <2>2
      <3>4. book' \in [Dwells -> Result]
        BY <1>2, <2>1, <2>2, <3>2
      <3> QED
        BY <2>1, <3>1, <3>3, <3>4 DEF Result
    <2>4. Latest(now, 0)
      BY <1>5, <2>1, AdmittedHasRoom
    <2> QED
      BY <1>1, <1>2, <1>5, <2>1, <2>2, <2>3, <2>4
  <1> QED
    BY <1>1, <1>3, <1>4, <1>5 DEF c

-----------------------------------------------------------------------------
(* The steps.                                                              *)

Advancing ==
    /\ stage = "update" /\ now > 0 /\ outcome # "HardFault"
    /\ stage' = "observe" /\ UNCHANGED <<options, now>>

(* The cases of a step.                                                    *)
LEMMA NextCases ==
    ASSUME Next
    PROVE  \/ FirstUpdate
           \/ SuperviseFails
           \/ Advancing /\ DeadlineStop
           \/ Advancing /\ SoftEvent
           \/ Advancing /\ ~Backstop /\ Capture
           \/ Advancing /\ ~Backstop /\ HoldDiag
           \/ Advancing /\ ~Backstop /\ LeadInPhase
           \/ Advancing /\ ~Backstop /\ RampIn
           \/ Advancing /\ ~Backstop /\ Hold
           \/ Advancing /\ ~Backstop /\ Measure
           \/ Advancing /\ ~Backstop /\ RampOut
           \/ Advancing /\ ~Backstop /\ KillRamp
           \/ Advancing /\ ~Backstop /\ ReSettlePhase
           \/ Advancing /\ ~Backstop /\ FinalHoldPhase
           \/ ObserveFails
           \/ Observe
           \/ RunEnds
  BY Zenon DEF Next, advance, Advancing

(* Every phase begins early enough and ends in its time.                   *)
LEMMA TimedStep ==
    ASSUME IInv, Next
    PROVE  Timed'
  <1> USE Constants DEF IInv, TypeOK, options, captureVars
  <1>1. CASE FirstUpdate
    BY <1>1
      DEF Timed, Control, Latest, Stays, Ongoing, Early, FirstUpdate, beginCapture,
          fail
  <1>2. CASE SuperviseFails
    BY <1>2 DEF Timed, Control, Latest, Stays, Ongoing, Early, SuperviseFails, fail
  <1>3. CASE Advancing /\ DeadlineStop
    BY <1>3
      DEF Timed, Control, Latest, Stays, Ongoing, Early, Advancing, DeadlineStop,
          Backstop, enterKill, Enter, fail
  <1>4. CASE Advancing /\ SoftEvent
    BY <1>4
      DEF Timed, Control, Latest, Stays, Ongoing, Early, Advancing, SoftEvent, Watched,
          Backstop, Enter, Aborts
  <1>5. CASE Advancing /\ ~Backstop /\ Capture
    BY <1>5
      DEF Timed, Control, Latest, Stays, Ongoing, Early, Advancing, Capture, Enter,
          fail, Backstop
  <1>6. CASE Advancing /\ ~Backstop /\ HoldDiag
    BY <1>6
      DEF Timed, Control, Latest, Stays, Ongoing, Early, Advancing, HoldDiag, fail,
          InPhase, Backstop
  <1>7. CASE Advancing /\ ~Backstop /\ LeadInPhase
    <2>1. CASE InPhase < LeadIn
      BY <1>7, <2>1
        DEF Timed, Control, Latest, Stays, Ongoing, Early, Advancing, LeadInPhase,
            InPhase, Backstop
    <2>2. CASE InPhase >= LeadIn
      <3>1. 1 \in 1..(N + 1) /\ startDwell(book, 1) /\ outcome = "Running"
        BY <1>7, <2>2, IdentAssumption
          DEF Advancing, LeadInPhase, InPhase, Backstop, nextDwell, Control, Ongoing,
              Early, Probing, Dwells
      <3>2. /\ since' = now
            /\ \/ phase' = "FinalHold"
               \/ phase' = "RampIn" /\ Latest(now, 0)
        BY <3>1, StartFacts
      <3> QED
        BY <1>7, <2>2, <3>1, <3>2
          DEF Timed, Control, Latest, Stays, Ongoing, Early, Advancing, LeadInPhase,
              InPhase, Backstop
    <2> QED
      BY <2>1, <2>2, IdentAssumption DEF InPhase
  <1>8. CASE Advancing /\ ~Backstop /\ RampIn
    BY <1>8
      DEF Timed, Control, Latest, Stays, Ongoing, Early, Advancing, RampIn, InPhase,
          Enter, Backstop
  <1>9. CASE Advancing /\ ~Backstop /\ Hold
    BY <1>9
      DEF Timed, Control, Latest, Stays, Ongoing, Early, Advancing, Hold, MayConverge,
          startMeasure, InPhase, Enter, Backstop
  <1>10. CASE Advancing /\ ~Backstop /\ Measure
    BY <1>10
      DEF Timed, Control, Latest, Stays, Ongoing, Early, Advancing, Measure,
          finishMeasure, InPhase, Enter, Backstop
  <1>11. CASE Advancing /\ ~Backstop /\ RampOut
    <2>1. CASE InPhase < Ramp
      BY <1>11, <2>1
        DEF Timed, Control, Latest, Stays, Ongoing, Early, Advancing, RampOut, InPhase
    <2>2. CASE InPhase >= Ramp
      <3>1. dwell + 1 \in 1..(N + 1) /\ startDwell(book, dwell + 1) /\ outcome = "Running"
        BY <1>11, <2>2, IdentAssumption
          DEF Advancing, RampOut, InPhase, nextDwell, Control, Ongoing, Early, Probing,
              Dwells
      <3>2. /\ since' = now
            /\ \/ phase' = "FinalHold"
               \/ phase' = "RampIn" /\ Latest(now, 0)
        BY <3>1, StartFacts
      <3> QED
        BY <1>11, <2>2, <3>1, <3>2
          DEF Timed, Control, Latest, Stays, Ongoing, Early, Advancing, RampOut,
              InPhase
    <2> QED
      BY <2>1, <2>2, IdentAssumption DEF InPhase
  <1>12. CASE Advancing /\ ~Backstop /\ KillRamp
    <2>1. CASE InPhase < Kill
      BY <1>12, <2>1
        DEF Timed, Control, Latest, Stays, Ongoing, Early, Advancing, KillRamp, InPhase,
            Enter, fail
    <2>2. CASE InPhase >= Kill
      <3>1. now = since + Kill
        BY <1>12, <2>2
          DEF Timed, Control, Latest, Stays, Ongoing, Early, Advancing, KillRamp,
              InPhase, Enter, fail
      <3>2. /\ Latest(since, 1)
            /\ after # "final" => Latest(since, 0)
        BY <1>12
          DEF Timed, Control, Latest, Stays, Ongoing, Early, Advancing, KillRamp,
              InPhase, Enter, fail
      <3>3. CASE after = "final"
        BY <1>12, <2>2, <3>1, <3>2, <3>3
          DEF Timed, Control, Latest, Stays, Ongoing, Early, Advancing, KillRamp,
              InPhase, Enter, fail
      <3>4. CASE after = "abort"
        BY <1>12, <2>2, <3>1, <3>2, <3>4
          DEF Timed, Control, Latest, Stays, Ongoing, Early, Advancing, KillRamp,
              InPhase, Enter, fail
      <3>5. CASE after = "resettle"
        BY <1>12, <2>2, <3>1, <3>2, <3>5
          DEF Timed, Control, Latest, Stays, Ongoing, Early, Advancing, KillRamp,
              InPhase, Enter, fail
      <3> QED
        BY <3>3, <3>4, <3>5
    <2> QED
      BY <2>1, <2>2 DEF InPhase
  <1>13. CASE Advancing /\ ~Backstop /\ ReSettlePhase
    <2>1. CASE InPhase < ReSettle
      BY <1>13, <2>1
        DEF Timed, Control, Latest, Stays, Ongoing, Early, Advancing, ReSettlePhase,
            InPhase
    <2>2. CASE InPhase >= ReSettle /\ AdmitsDwell(dwell) /\ Enter("RampIn")
      <3>1. Latest(now, 0)
        BY <1>13, <2>2, AdmittedHasRoom DEF Advancing, ReSettlePhase, InPhase, Control
      <3> QED
        BY <1>13, <2>2, <3>1
          DEF Timed, Control, Latest, Stays, Ongoing, Early, Advancing, ReSettlePhase,
              InPhase, Enter
    <2>3. CASE InPhase >= ReSettle /\ startDwell(book, dwell + 1)
      <3>1. dwell + 1 \in 1..(N + 1) /\ startDwell(book, dwell + 1) /\ outcome = "Running"
        <4>1. dwell \in Dwells /\ outcome = "Running"
          BY <1>13
            DEF Advancing, ReSettlePhase, InPhase, Control, Ongoing, Early, Probing
        <4> QED
          BY <2>3, <4>1 DEF Dwells
      <3>2. /\ since' = now
            /\ \/ phase' = "FinalHold"
               \/ phase' = "RampIn" /\ Latest(now, 0)
        BY <3>1, StartFacts
      <3> QED
        BY <1>13, <2>3, <3>1, <3>2
          DEF Timed, Control, Latest, Stays, Ongoing, Early, Advancing, ReSettlePhase,
              InPhase
    <2> QED
      BY <1>13, <2>1, <2>2, <2>3
        DEF Advancing, ReSettlePhase, InPhase, restartDwell, nextDwell
  <1>14. CASE Advancing /\ ~Backstop /\ FinalHoldPhase
    BY <1>14
      DEF Timed, Control, Latest, Stays, Ongoing, Early, Advancing, FinalHoldPhase,
          FinalOutcome, InPhase
  <1>15. CASE ObserveFails
    BY <1>15
      DEF Timed, Control, Latest, Stays, Ongoing, Early, ObserveFails, Unmoved, fail
  <1>16. CASE Observe
    BY <1>16 DEF Timed, Control, Latest, Stays, Ongoing, Early, Observe, Unmoved
  <1>17. CASE RunEnds
    BY <1>17 DEF Timed, Control, Latest, Stays, Ongoing, Early, RunEnds, Unmoved
  <1> QED
    BY NextCases, <1>1, <1>2, <1>3, <1>4, <1>5, <1>6, <1>7, <1>8, <1>9, <1>10, <1>11,
       <1>12, <1>13, <1>14, <1>15, <1>16, <1>17

(* The phase, the outcome, the dwell and the probe stay in step.           *)
LEMMA ControlStep ==
    ASSUME IInv, Next
    PROVE  Control'
  <1> USE Constants DEF IInv, TypeOK, options, captureVars
  <1>1. CASE FirstUpdate
    BY <1>1 DEF Control, Ongoing, Early, Probing, FirstUpdate, beginCapture, fail
  <1>2. CASE SuperviseFails
    BY <1>2 DEF Control, Ongoing, Early, Probing, SuperviseFails, fail
  <1>3. CASE Advancing /\ DeadlineStop
    BY <1>3
      DEF Control, Ongoing, Early, Probing, Advancing, DeadlineStop, Backstop,
          enterKill, Enter, fail
  <1>4. CASE Advancing /\ SoftEvent
    BY <1>4
      DEF Control, Ongoing, Early, Probing, Advancing, SoftEvent, Watched, Backstop,
          Enter, Aborts
  <1>5. CASE Advancing /\ ~Backstop /\ Capture
    BY <1>5
      DEF Control, Ongoing, Early, Probing, Advancing, Capture, Enter, fail, Backstop
  <1>6. CASE Advancing /\ ~Backstop /\ HoldDiag
    BY <1>6
      DEF Control, Ongoing, Early, Probing, Advancing, HoldDiag, fail, InPhase,
          Backstop
  <1>7. CASE Advancing /\ ~Backstop /\ LeadInPhase
    <2>1. CASE UNCHANGED <<phase, outcome, dwell>>
      BY <1>7, <2>1
        DEF Control, Ongoing, Early, Probing, Advancing, LeadInPhase, InPhase, Backstop
    <2>2. CASE startDwell(book, 1)
      <3>1. 1 \in 1..(N + 1) /\ outcome = "Running" /\ dwell \in Nat
        BY <1>7
          DEF Control, Ongoing, Early, Probing, Advancing, LeadInPhase, InPhase,
              Backstop, Dwells
      <3>2. \/ phase' = "FinalHold" /\ outcome' \in {"Running", "DeadlineStop"}
            \/ phase' = "RampIn" /\ outcome' = "Running" /\ dwell' \in Dwells
        BY <2>2, <3>1, StartFacts
      <3> QED
        BY <1>7, <3>2
          DEF Control, Ongoing, Early, Probing, Advancing, LeadInPhase, InPhase,
              Backstop
    <2> QED
      BY <1>7, <2>1, <2>2 DEF Advancing, LeadInPhase, InPhase, Backstop, nextDwell
  <1>8. CASE Advancing /\ ~Backstop /\ RampIn
    BY <1>8
      DEF Control, Ongoing, Early, Probing, Advancing, RampIn, InPhase, Enter, Backstop
  <1>9. CASE Advancing /\ ~Backstop /\ Hold
    BY <1>9
      DEF Control, Ongoing, Early, Probing, Advancing, Hold, MayConverge, startMeasure,
          InPhase, Enter, Backstop
  <1>10. CASE Advancing /\ ~Backstop /\ Measure
    BY <1>10
      DEF Control, Ongoing, Early, Probing, Advancing, Measure, finishMeasure, InPhase,
          Enter, Backstop
  <1>11. CASE Advancing /\ ~Backstop /\ RampOut
    <2>1. CASE UNCHANGED <<phase, outcome, dwell>>
      BY <1>11, <2>1 DEF Control, Ongoing, Early, Probing, Advancing, RampOut, InPhase
    <2>2. CASE startDwell(book, dwell + 1)
      <3>1. dwell + 1 \in 1..(N + 1) /\ outcome = "Running" /\ dwell \in Nat
        BY <1>11
          DEF Control, Ongoing, Early, Probing, Advancing, RampOut, InPhase, Dwells
      <3>2. \/ phase' = "FinalHold" /\ outcome' \in {"Running", "DeadlineStop"}
            \/ phase' = "RampIn" /\ outcome' = "Running" /\ dwell' \in Dwells
        BY <2>2, <3>1, StartFacts
      <3> QED
        BY <1>11, <3>2 DEF Control, Ongoing, Early, Probing, Advancing, RampOut, InPhase
    <2> QED
      BY <1>11, <2>1, <2>2 DEF Advancing, RampOut, InPhase, nextDwell
  <1>12. CASE Advancing /\ ~Backstop /\ KillRamp
    BY <1>12
      DEF Control, Ongoing, Early, Probing, Advancing, KillRamp, InPhase, Enter, fail
  <1>13. CASE Advancing /\ ~Backstop /\ ReSettlePhase
    <2>1. CASE UNCHANGED <<phase, outcome, dwell>>
      BY <1>13, <2>1
        DEF Control, Ongoing, Early, Probing, Advancing, ReSettlePhase, InPhase
    <2>2. CASE startDwell(book, dwell + 1)
      <3>0. dwell \in Dwells /\ outcome = "Running"
        BY <1>13 DEF Control, Ongoing, Early, Probing, Advancing, ReSettlePhase, InPhase
      <3>1. dwell + 1 \in 1..(N + 1) /\ outcome = "Running" /\ dwell \in Nat
        BY <3>0 DEF Dwells
      <3>2. \/ phase' = "FinalHold" /\ outcome' \in {"Running", "DeadlineStop"}
            \/ phase' = "RampIn" /\ outcome' = "Running" /\ dwell' \in Dwells
        BY <2>2, <3>1, StartFacts
      <3> QED
        BY <1>13, <3>2
          DEF Control, Ongoing, Early, Probing, Advancing, ReSettlePhase, InPhase
    <2>3. CASE Enter("RampIn") /\ UNCHANGED <<outcome, dwell>>
      BY <1>13, <2>3
        DEF Control, Ongoing, Early, Probing, Advancing, ReSettlePhase, InPhase, Enter
    <2> QED
      BY <1>13, <2>1, <2>2, <2>3
        DEF Advancing, ReSettlePhase, InPhase, restartDwell, nextDwell
  <1>14. CASE Advancing /\ ~Backstop /\ FinalHoldPhase
    BY <1>14
      DEF Control, Ongoing, Early, Probing, Advancing, FinalHoldPhase, FinalOutcome,
          InPhase
  <1>15. CASE ObserveFails
    BY <1>15 DEF Control, Ongoing, Early, Probing, ObserveFails, Unmoved, fail
  <1>16. CASE Observe
    BY <1>16 DEF Control, Ongoing, Early, Probing, Observe, Unmoved
  <1>17. CASE RunEnds
    BY <1>17 DEF Control, Ongoing, Early, Probing, RunEnds, Unmoved
  <1> QED
    BY NextCases, <1>1, <1>2, <1>3, <1>4, <1>5, <1>6, <1>7, <1>8, <1>9, <1>10, <1>11,
       <1>12, <1>13, <1>14, <1>15, <1>16, <1>17

(* The types are kept.                                                     *)
LEMMA TypeStep ==
    ASSUME IInv, Next
    PROVE  TypeOK'
  <1> USE Constants DEF IInv, TypeOK, options, captureVars, Phases, Outcomes
  <1>1. CASE FirstUpdate
    BY <1>1 DEF FirstUpdate, beginCapture, fail
  <1>2. CASE SuperviseFails
    BY <1>2 DEF SuperviseFails, fail
  <1>3. CASE Advancing /\ DeadlineStop
    <2>1. book' \in [Dwells -> Result]
      BY <1>3, SkippedFacts DEF DeadlineStop
    <2>2. /\ phase' \in {"FinalHold", "KillRamp"} /\ since' = now /\ probe' \in BOOLEAN
          /\ after' \in {"final", after} /\ outcome' \in Outcomes
      BY <1>3 DEF Advancing, DeadlineStop, Backstop, enterKill, Enter, fail
    <2> QED
      BY <1>3, <2>1, <2>2 DEF Advancing, DeadlineStop
  <1>4. CASE Advancing /\ SoftEvent
    <2>1. dwell \in Dwells
      BY <1>4
        DEF Advancing, SoftEvent, Watched, Backstop, Enter, Aborts, Control, Probing
    <2>2. book[dwell].softs \in 0..1 /\ book[dwell] \in Result
      BY <1>4, <2>1 DEF SoftEvent, Watched, Booked, Current, Result
    <2>3. [book[dwell] EXCEPT !.softs = @ + 1] \in Result
      BY <2>2 DEF Result
    <2>4. book' \in [Dwells -> Result]
      BY <1>4, <2>3 DEF SoftEvent
    <2>5. /\ phase' = "KillRamp" /\ since' = now /\ probe' \in BOOLEAN
          /\ after' \in {"abort", "resettle"}
      BY <1>4 DEF SoftEvent, Enter
    <2> QED
      BY <1>4, <2>4, <2>5 DEF Advancing, SoftEvent
  <1>5. CASE Advancing /\ ~Backstop /\ Capture
    <2>1. steady' \in [Joints -> 0..JointReady]
      <3>1. CASE UNCHANGED steady
        BY <3>1
      <3>2. ASSUME NEW ready \in Settled,
                   steady' = [j \in Joints |->
                     IF j \in ready \/ steady[j] = JointReady
                       THEN Least(steady[j] + 1, JointReady) ELSE 0]
            PROVE  steady' \in [Joints -> 0..JointReady]
        <4>1. \A j \in Joints : steady[j] \in 0..JointReady
          OBVIOUS
        <4> QED
          BY <3>2, <4>1 DEF Least
      <3> QED
        BY <1>5, <3>1, <3>2 DEF Capture
    <2>2. quiet' \in 0..Quiet
      <3>1. Least(quiet + 1, Quiet) \in 0..Quiet
        BY DEF Least
      <3> QED
        BY <1>5, <3>1 DEF Capture
    <2>3. /\ phase' \in {phase, "HoldDiag", "LeadIn"} /\ since' \in {since, now}
          /\ outcome' \in {outcome, "HardFault"}
      BY <1>5 DEF Capture, Enter, fail
    <2>4. UNCHANGED <<dwell, book, mult, after, capEnd, options, now>> /\ probe' = FALSE
      BY <1>5 DEF Capture, Advancing
    <2> QED
      BY <1>5, <2>1, <2>2, <2>3, <2>4 DEF Advancing
  <1>6. CASE Advancing /\ ~Backstop /\ HoldDiag
    BY <1>6 DEF Advancing, HoldDiag, fail, InPhase, Backstop
  <1>7. CASE Advancing /\ ~Backstop /\ LeadInPhase
    <2>1. CASE UNCHANGED <<phase, since, outcome, dwell, book, mult>>
      BY <1>7, <2>1 DEF Advancing, LeadInPhase, InPhase, Backstop
    <2>2. CASE startDwell(book, 1)
      <3>1. outcome = "Running" /\ (phase # "LeadIn" => dwell \in Dwells)
        BY <1>7
          DEF Control, Ongoing, Early, Probing, Advancing, LeadInPhase, InPhase,
              Backstop
      <3>2. 1 \in 1..(N + 1)
        <4>1. phase = "LeadIn"
          BY <1>7 DEF LeadInPhase
        <4> QED
          BY <3>1, <4>1 DEF Dwells
      <3>3. /\ dwell' \in 1..(N + 1) /\ since' = now /\ mult' \in {1, Mult}
            /\ book' \in [Dwells -> Result]
            /\ phase' \in {"FinalHold", "RampIn"}
            /\ outcome' \in {"Running", "DeadlineStop"}
        BY <2>2, <3>1, <3>2, StartFacts
      <3>4. dwell' \in 0..(N + 1)
        BY <3>2, <3>3
      <3> QED
        BY <1>7, <3>3, <3>4 DEF Advancing, LeadInPhase, InPhase, Backstop
    <2> QED
      BY <1>7, <2>1, <2>2 DEF LeadInPhase, nextDwell
  <1>8. CASE Advancing /\ ~Backstop /\ RampIn
    BY <1>8 DEF Advancing, RampIn, InPhase, Enter, Backstop
  <1>9. CASE Advancing /\ ~Backstop /\ Hold
    BY <1>9 DEF Advancing, Hold, MayConverge, startMeasure, InPhase, Enter, Backstop
  <1>10. CASE Advancing /\ ~Backstop /\ Measure
    <2>1. book' \in [Dwells -> Result]
      <3>1. dwell \in Dwells
        BY <1>10 DEF Measure, Control, Probing
      <3>2. book[dwell] \in Result
        BY <3>1
      <3>3. [book[dwell] EXCEPT !.completed = TRUE] \in Result
        BY <3>2 DEF Result
      <3> QED
        BY <1>10, <3>3 DEF Measure, finishMeasure
    <2>2. phase' \in {"Measure", "RampOut"} /\ since' \in {since, now}
      BY <1>10 DEF Measure, finishMeasure, Enter
    <2> QED
      BY <1>10, <2>1, <2>2 DEF Advancing, Measure
  <1>11. CASE Advancing /\ ~Backstop /\ RampOut
    <2>1. CASE UNCHANGED <<phase, since, outcome, dwell, book, mult>>
      BY <1>11, <2>1 DEF Advancing, RampOut, InPhase
    <2>2. CASE startDwell(book, dwell + 1)
      <3>1. outcome = "Running" /\ (phase # "LeadIn" => dwell \in Dwells)
        BY <1>11 DEF Control, Ongoing, Early, Probing, Advancing, RampOut, InPhase
      <3>2. dwell + 1 \in 1..(N + 1)
        <4>1. phase = "RampOut"
          BY <1>11 DEF RampOut
        <4> QED
          BY <3>1, <4>1 DEF Dwells
      <3>3. /\ dwell' \in dwell + 1..(N + 1) /\ since' = now /\ mult' \in {1, Mult}
            /\ book' \in [Dwells -> Result]
            /\ phase' \in {"FinalHold", "RampIn"}
            /\ outcome' \in {"Running", "DeadlineStop"}
        BY <2>2, <3>1, <3>2, StartFacts
      <3>4. dwell' \in 0..(N + 1)
        BY <3>2, <3>3
      <3> QED
        BY <1>11, <3>3, <3>4 DEF Advancing, RampOut, InPhase
    <2> QED
      BY <1>11, <2>1, <2>2 DEF RampOut, nextDwell
  <1>12. CASE Advancing /\ ~Backstop /\ KillRamp
    BY <1>12 DEF Advancing, KillRamp, InPhase, Enter, fail
  <1>13. CASE Advancing /\ ~Backstop /\ ReSettlePhase
    <2>1. CASE UNCHANGED <<phase, since, outcome, dwell, book, mult>>
      BY <1>13, <2>1 DEF Advancing, ReSettlePhase, InPhase
    <2>2. CASE startDwell(book, dwell + 1)
      <3>1. outcome = "Running" /\ (phase # "LeadIn" => dwell \in Dwells)
        BY <1>13 DEF Control, Ongoing, Early, Probing, Advancing, ReSettlePhase, InPhase
      <3>2. dwell + 1 \in 1..(N + 1)
        <4>1. phase = "ReSettle"
          BY <1>13 DEF ReSettlePhase
        <4> QED
          BY <3>1, <4>1 DEF Dwells
      <3>3. /\ dwell' \in dwell + 1..(N + 1) /\ since' = now /\ mult' \in {1, Mult}
            /\ book' \in [Dwells -> Result]
            /\ phase' \in {"FinalHold", "RampIn"}
            /\ outcome' \in {"Running", "DeadlineStop"}
        BY <2>2, <3>1, <3>2, StartFacts
      <3>4. dwell' \in 0..(N + 1)
        BY <3>2, <3>3
      <3> QED
        BY <1>13, <3>3, <3>4 DEF Advancing, ReSettlePhase, InPhase
    <2>3. CASE /\ restartDwell([book EXCEPT ![dwell].retried = TRUE], dwell)
              /\ UNCHANGED <<outcome, dwell, mult>>
      <3>1. dwell \in Dwells
        BY <1>13 DEF ReSettlePhase, Control
      <3>2. book[dwell] \in Result
        BY <3>1
      <3>3. [[book[dwell] EXCEPT !.retried = TRUE] EXCEPT !.started = TRUE] \in Result
        BY <3>2 DEF Result
      <3>4. book' \in [Dwells -> Result]
        BY <2>3, <3>1, <3>3 DEF restartDwell
      <3> QED
        BY <1>13, <2>3, <3>4
          DEF Advancing, ReSettlePhase, InPhase, restartDwell, Enter
    <2> QED
      BY <1>13, <2>1, <2>2, <2>3 DEF ReSettlePhase, nextDwell
  <1>14. CASE Advancing /\ ~Backstop /\ FinalHoldPhase
    BY <1>14 DEF Advancing, FinalHoldPhase, FinalOutcome, InPhase
  <1>15. CASE ObserveFails
    BY <1>15 DEF ObserveFails, Unmoved, fail
  <1>16. CASE Observe
    BY <1>16 DEF Observe, Unmoved
  <1>17. CASE RunEnds
    BY <1>17 DEF RunEnds, Unmoved
  <1> QED
    BY NextCases, <1>1, <1>2, <1>3, <1>4, <1>5, <1>6, <1>7, <1>8, <1>9, <1>10, <1>11,
       <1>12, <1>13, <1>14, <1>15, <1>16, <1>17

(* A dwell that begins once all before it are past leaves a true book.     *)
LEMMA StartBooked ==
    ASSUME IInv, NEW d \in 1..(N + 1), outcome = "Running", startDwell(book, d),
           \A k \in Dwells : /\ k < d => Past(k)
                             /\ k >= d => Untouched(k)
                             /\ book[k].softs <= 1
    PROVE  Booked'
  <1>1. /\ dwell' \in d..(N + 1) /\ since' = now
        /\ book' \in [Dwells -> Result]
        /\ \A k \in Dwells :
             /\ book'[k].softs = book[k].softs
             /\ book'[k].retried = book[k].retried
             /\ book'[k].completed = book[k].completed
             /\ book[k].skipped => book'[k].skipped
             /\ book[k].started => book'[k].started
             /\ k >= d /\ k < dwell' => book'[k].skipped
        /\ \/ phase' = "FinalHold" /\ outcome' = "Running" /\ dwell' = N + 1
           \/ /\ phase' = "FinalHold" /\ outcome' = "DeadlineStop"
              /\ \A k \in Dwells : k >= dwell' => book'[k].started \/ book'[k].skipped
           \/ /\ phase' = "RampIn" /\ outcome' = "Running" /\ dwell' \in Dwells
              /\ book'[dwell'].started /\ Latest(now, 0)
    <2>1. offset \in Nat /\ now \in Nat /\ mult \in {1, Mult} /\ book \in [Dwells -> Result]
      BY Constants DEF IInv, TypeOK
    <2> QED
      BY <2>1, StartFacts
  <1>2. ASSUME NEW k \in Dwells
        PROVE  /\ Past(k) => Past(k)'
               /\ Untouched(k) => Untouched(k)'
               /\ book'[k].softs <= 1
    BY <1>1 DEF Past, Untouched
  <1>3. ASSUME NEW k \in Dwells, k < dwell'
        PROVE  Past(k)'
    <2>1. CASE k < d
      BY <1>2, <2>1
    <2>2. CASE k >= d
      BY <1>1, <1>3, <2>2 DEF Past
    <2> QED
      BY <2>1, <2>2, Constants DEF Dwells
  <1>4. ASSUME NEW k \in Dwells, k >= dwell'
        PROVE  Untouched(k)'
    <2>1. k >= d
      BY <1>1, <1>4, Constants DEF Dwells
    <2> QED
      BY <1>2, <2>1
  <1>5. \A k \in Dwells : k = dwell' => Current(k)'
    BY <1>1, <1>2, <1>4 DEF Current, Untouched, Probing
  <1>6. phase' = "FinalHold" /\ outcome' = "Running" => \A k \in Dwells : Past(k)'
    BY <1>1, <1>3, Constants DEF Dwells
  <1>7. outcome' = "DeadlineStop" => \A k \in Dwells : book'[k].started \/ book'[k].skipped
    <2>1. ASSUME NEW k \in Dwells, outcome' = "DeadlineStop"
          PROVE  book'[k].started \/ book'[k].skipped
      <3>1. CASE k < dwell'
        BY <1>3, <3>1 DEF Past
      <3>2. CASE k >= dwell'
        BY <1>1, <2>1, <3>2
      <3> QED
        BY <1>1, <3>1, <3>2, Constants DEF Dwells
    <2> QED
      BY <2>1
  <1>8. outcome' # "Completed"
    BY <1>1
  <1> QED
    <2>1. dwell' \in Nat
      BY <1>1, Constants
    <2> QED
      BY <1>2, <1>3, <1>4, <1>5, <1>6, <1>7, <1>8, <2>1
      DEF Booked, Dwells, Past, Untouched

(* The book keeps what the schedule did with each dwell.                   *)
LEMMA BookedStep ==
    ASSUME IInv, Next
    PROVE  Booked'
  <1> USE Constants DEF IInv, TypeOK, options, captureVars
  <1>1. CASE FirstUpdate
    BY <1>1
      DEF Booked, Current, Past, Untouched, Control, Ongoing, Early, Probing,
          FirstUpdate, beginCapture, fail
  <1>2. CASE SuperviseFails
    BY <1>2
      DEF Booked, Current, Past, Untouched, Control, Ongoing, Early, Probing,
          SuperviseFails, fail
  <1>3. CASE Advancing /\ DeadlineStop
    <2>1. \A k \in Dwells :
            /\ book'[k].softs = book[k].softs
            /\ book'[k].retried = book[k].retried
            /\ book'[k].completed = book[k].completed
            /\ book'[k].started = book[k].started
            /\ book[k].skipped => book'[k].skipped
            /\ k \in Rest(book, dwell) => book'[k].skipped
      BY <1>3, SkippedFacts DEF DeadlineStop
    <2>2. /\ dwell' = dwell /\ outcome' = "DeadlineStop"
          /\ phase' \in {"FinalHold", "KillRamp"}
          /\ phase' = "KillRamp" => after' = "final" /\ dwell \in Dwells
      BY <1>3
        DEF Advancing, DeadlineStop, Backstop, enterKill, Enter, fail, Control, Ongoing,
            Early, Probing
    <2>3. \/ phase \in Early /\ dwell = 0
          \/ phase \in {"RampIn", "Hold", "Measure"} /\ dwell \in Dwells
      <3>1. phase \in {"Capture", "HoldDiag", "LeadIn", "RampIn", "Hold", "Measure"}
        BY <1>3 DEF DeadlineStop, Backstop
      <3> QED
        BY <3>1 DEF Control, Early, Probing
    <2>4. ASSUME NEW k \in Dwells
          PROVE  /\ Past(k) => Past(k)'
                 /\ Untouched(k) => Untouched(k)'
                 /\ book'[k].softs \in 0..1
                 /\ k >= dwell => book'[k].started \/ book'[k].skipped
      <3>1. book[k].softs \in 0..1
        BY <2>3 DEF Booked, Current, Dwells, Early, Result
      <3>2. CASE book[k].started
        BY <2>1, <3>1, <3>2 DEF Past, Untouched
      <3>3. CASE ~book[k].started
        <4>1. k = dwell => book[k].started
          BY <2>3 DEF Booked, Current, Probing, Early, Dwells
        <4>2. k >= dwell => k \in Rest(book, dwell)
          BY <3>3, <4>1, <2>3 DEF Rest, Dwells
        <4> QED
          BY <2>1, <3>1, <4>2 DEF Past, Untouched
      <3> QED
        BY <3>2, <3>3
    <2>5. phase' = "KillRamp" => \A k \in Dwells : k = dwell => book'[k].started
      BY <2>1, <2>2, <2>3 DEF Booked, Current, Probing, Early, Dwells
    <2>6. ASSUME NEW k \in Dwells
          PROVE  book'[k].started \/ book'[k].skipped
      <3>1. CASE k < dwell
        BY <2>4, <3>1 DEF Booked, Past
      <3> QED
        BY <2>4, <3>1 DEF Dwells
    <2>7. \A k \in Dwells : k = dwell => Current(k)'
      BY <2>2, <2>4, <2>5 DEF Current, Probing
    <2> QED
      BY <2>2, <2>4, <2>6, <2>7 DEF Booked, Past, Untouched
  <1>4. CASE Advancing /\ SoftEvent
    <2>1. /\ phase \in {"RampIn", "Hold", "Measure"} /\ dwell \in Dwells /\ outcome = "Running"
          /\ phase' = "KillRamp" /\ UNCHANGED <<outcome, dwell>>
          /\ after' = IF Aborts(book') THEN "abort" ELSE "resettle"
      BY <1>4 DEF Advancing, SoftEvent, Watched, Enter, Control, Ongoing, Early, Probing
    <2>2. book[dwell].softs \in 0..1
      BY <2>1 DEF Booked, Current, Result
    <2>3. /\ \A k \in Dwells : k # dwell => book'[k] = book[k]
          /\ book'[dwell].softs = book[dwell].softs + 1
          /\ book'[dwell].retried = book[dwell].retried
          /\ book'[dwell].started = book[dwell].started
      BY <1>4, <2>1, <2>2 DEF SoftEvent
    <2> QED
      BY <2>1, <2>2, <2>3
        DEF Booked, Current, Past, Untouched, Control, Ongoing, Early, Probing, Aborts
  <1>5. CASE Advancing /\ ~Backstop /\ Capture
    BY <1>5
      DEF Booked, Current, Past, Untouched, Control, Ongoing, Early, Probing, Advancing,
          Capture, Enter, fail, Backstop
  <1>6. CASE Advancing /\ ~Backstop /\ HoldDiag
    BY <1>6
      DEF Booked, Current, Past, Untouched, Control, Ongoing, Early, Probing, Advancing,
          HoldDiag, fail, InPhase, Backstop
  <1>7. CASE Advancing /\ ~Backstop /\ LeadInPhase
    <2>0. /\ phase = "LeadIn" /\ outcome = "Running"
          /\ phase # "LeadIn" => dwell \in Dwells
      BY <1>7 DEF Control, Ongoing, Early, Probing, Advancing, LeadInPhase
    <2>1. CASE UNCHANGED <<phase, outcome, dwell, book>>
      BY <1>7, <2>1
        DEF Booked, Current, Past, Untouched, Control, Ongoing, Early, Probing,
            Advancing, LeadInPhase, InPhase, Backstop
    <2>2. CASE startDwell(book, 1)
      <3>1. 1 \in 1..(N + 1)
        BY <2>0 DEF Dwells, Control, Early
      <3>2. \A k \in Dwells : /\ k < 1 => Past(k)
                              /\ k >= 1 => Untouched(k)
                              /\ book[k].softs <= 1
        BY <2>0, <3>1
          DEF Booked, Current, Past, Untouched, Control, Early, Probing, Dwells,
              Result
      <3> QED
        BY <2>0, <2>2, <3>1, <3>2, StartBooked
    <2> QED
      BY <1>7, <2>1, <2>2 DEF LeadInPhase, nextDwell
  <1>8. CASE Advancing /\ ~Backstop /\ RampIn
    BY <1>8
      DEF Booked, Current, Past, Untouched, Control, Ongoing, Early, Probing, Advancing,
          RampIn, InPhase, Enter, Backstop
  <1>9. CASE Advancing /\ ~Backstop /\ Hold
    BY <1>9
      DEF Booked, Current, Past, Untouched, Control, Ongoing, Early, Probing, Advancing,
          Hold, MayConverge, startMeasure, InPhase, Enter, Backstop
  <1>10. CASE Advancing /\ ~Backstop /\ Measure
    <2>0. phase = "Measure" /\ dwell \in Dwells /\ outcome = "Running"
      BY <1>10 DEF Advancing, Measure, Control, Ongoing, Early, Probing
    <2>1. CASE UNCHANGED <<phase, book>>
      BY <1>10, <2>1
        DEF Booked, Current, Past, Untouched, Control, Ongoing, Early, Probing,
            Advancing, Measure
    <2>2. CASE finishMeasure
      <3>1. /\ \A k \in Dwells : k # dwell => book'[k] = book[k]
            /\ book'[dwell].softs = book[dwell].softs
            /\ book[dwell].started => book'[dwell].started
            /\ book'[dwell].completed
            /\ phase' = "RampOut"
        BY <2>0, <2>2 DEF finishMeasure, Enter
      <3> QED
        BY <1>10, <2>0, <3>1
          DEF Booked, Current, Past, Untouched, Control, Ongoing, Early, Probing,
              Measure
    <2> QED
      BY <1>10, <2>1, <2>2 DEF Measure
  <1>11. CASE Advancing /\ ~Backstop /\ RampOut
    <2>0. /\ phase = "RampOut" /\ outcome = "Running"
          /\ phase # "LeadIn" => dwell \in Dwells
      BY <1>11 DEF Control, Ongoing, Early, Probing, Advancing, RampOut
    <2>1. CASE UNCHANGED <<phase, outcome, dwell, book>>
      BY <1>11, <2>1
        DEF Booked, Current, Past, Untouched, Control, Ongoing, Early, Probing,
            Advancing, RampOut, InPhase
    <2>2. CASE startDwell(book, dwell + 1)
      <3>1. dwell + 1 \in 1..(N + 1)
        BY <2>0 DEF Dwells, Control, Early
      <3>2. \A k \in Dwells : /\ k < dwell + 1 => Past(k)
                              /\ k >= dwell + 1 => Untouched(k)
                              /\ book[k].softs <= 1
        BY <2>0, <3>1
          DEF Booked, Current, Past, Untouched, Control, Early, Probing, Dwells,
              Result
      <3> QED
        BY <2>0, <2>2, <3>1, <3>2, StartBooked
    <2> QED
      BY <1>11, <2>1, <2>2 DEF RampOut, nextDwell
  <1>12. CASE Advancing /\ ~Backstop /\ KillRamp
    BY <1>12
      DEF Booked, Current, Past, Untouched, Control, Ongoing, Early, Probing, Advancing,
          KillRamp, InPhase, Enter, fail
  <1>13. CASE Advancing /\ ~Backstop /\ ReSettlePhase
    <2>0. /\ phase = "ReSettle" /\ outcome = "Running"
          /\ phase # "LeadIn" => dwell \in Dwells
      BY <1>13 DEF Control, Ongoing, Early, Probing, Advancing, ReSettlePhase
    <2>1. CASE UNCHANGED <<phase, outcome, dwell, book>>
      BY <1>13, <2>1
        DEF Booked, Current, Past, Untouched, Control, Ongoing, Early, Probing,
            Advancing, ReSettlePhase, InPhase
    <2>2. CASE startDwell(book, dwell + 1)
      <3>1. dwell + 1 \in 1..(N + 1)
        BY <2>0 DEF Dwells, Control, Early
      <3>2. \A k \in Dwells : /\ k < dwell + 1 => Past(k)
                              /\ k >= dwell + 1 => Untouched(k)
                              /\ book[k].softs <= 1
        BY <2>0, <3>1
          DEF Booked, Current, Past, Untouched, Control, Early, Probing, Dwells,
              Result
      <3> QED
        BY <2>0, <2>2, <3>1, <3>2, StartBooked
    <2>3. CASE /\ restartDwell([book EXCEPT ![dwell].retried = TRUE], dwell)
              /\ UNCHANGED <<outcome, dwell>>
      <3>1. /\ \A k \in Dwells : k # dwell => book'[k] = book[k]
            /\ book'[dwell].started /\ book'[dwell].retried
            /\ book'[dwell].softs = book[dwell].softs
        BY <2>0, <2>3 DEF restartDwell
      <3>2. phase' = "RampIn"
        BY <2>3 DEF restartDwell, Enter
      <3> QED
        BY <2>0, <2>3, <3>1, <3>2
          DEF Booked, Current, Past, Untouched, Control, Ongoing, Early, Probing
    <2> QED
      BY <1>13, <2>1, <2>2, <2>3 DEF ReSettlePhase, nextDwell
  <1>14. CASE Advancing /\ ~Backstop /\ FinalHoldPhase
    BY <1>14
      DEF Booked, Current, Past, Untouched, Control, Ongoing, Early, Probing, Advancing,
          FinalHoldPhase, FinalOutcome, InPhase
  <1>15. CASE ObserveFails
    BY <1>15
      DEF Booked, Current, Past, Untouched, Control, Ongoing, Early, Probing,
          ObserveFails, Unmoved, fail
  <1>16. CASE Observe
    BY <1>16
      DEF Booked, Current, Past, Untouched, Control, Ongoing, Early, Probing, Observe,
          Unmoved
  <1>17. CASE RunEnds
    BY <1>17
      DEF Booked, Current, Past, Untouched, Control, Ongoing, Early, Probing, RunEnds,
          Unmoved
  <1> QED
    BY NextCases, <1>1, <1>2, <1>3, <1>4, <1>5, <1>6, <1>7, <1>8, <1>9, <1>10, <1>11,
       <1>12, <1>13, <1>14, <1>15, <1>16, <1>17

-----------------------------------------------------------------------------
(* The theorems.                                                           *)

(* A run begins in the invariant.                                          *)
LEMMA InitInv == Init => IInv
  <1> SUFFICES ASSUME Init PROVE IInv
    OBVIOUS
  <1>1. TypeOK
    <2>1. book \in [Dwells -> Result]
      BY DEF Init, Result
    <2>2. steady \in [Joints -> 0..JointReady]
      BY Constants DEF Init
    <2>3. phase \in Phases /\ outcome \in Outcomes
      BY DEF Init, Phases, Outcomes
    <2>4. 0 \in Nat /\ 0 \in 0..(N + 1) /\ 0 \in 0..Quiet
      BY Constants
    <2> QED
      BY <2>1, <2>2, <2>3, <2>4, Zenon DEF Init, TypeOK
  <1> USE Constants DEF Init
  <1>2. Timed
    BY <1>1 DEF TypeOK, Timed, Ongoing, Early, Latest
  <1>3. Control
    BY DEF Control, Ongoing, Early, Probing
  <1>4. Booked
    BY DEF Booked, Current, Untouched, Dwells, Probing
  <1> QED
    BY <1>1, <1>2, <1>3, <1>4 DEF IInv

(* Every step keeps it.                                                    *)
LEMMA StepInv == IInv /\ [Next]_vars => IInv'
  <1>1. ASSUME IInv, Next
        PROVE  IInv'
    BY <1>1, TypeStep, TimedStep, ControlStep, BookedStep DEF IInv
  <1>2. ASSUME IInv, UNCHANGED vars
        PROVE  IInv'
    <2> USE <1>2 DEF vars, options, captureVars
    <2>1. TypeOK'
      BY DEF IInv, TypeOK
    <2>2. Timed'
      BY DEF IInv, Timed, Latest, Stays
    <2>3. Control'
      BY DEF IInv, Control
    <2>4. Booked'
      BY DEF IInv, Booked, Current, Past, Untouched
    <2> QED
      BY <2>1, <2>2, <2>3, <2>4 DEF IInv
  <1> QED
    BY <1>1, <1>2

(* Every reachable state has it.                                           *)
LEMMA Invariance == Spec => []IInv
  BY InitInv, StepInv, PTL DEF Spec

(* The run's variables keep their types: a dwell never has more than two   *)
(* soft events.                                                            *)
THEOREM TypeCorrect == Spec => []TypeOK
  BY Invariance, PTL DEF IInv

(* The probe is off at the graceful stop, and the run is over before the   *)
(* watchdog expires.                                                       *)
THEOREM RunIsInTime == Spec => []InTime
  <1>1. IInv => InTime
    <2> SUFFICES ASSUME IInv PROVE InTime
      OBVIOUS
    <2> USE Constants DEF IInv, TypeOK, Timed, Control, Latest, Stays
    <2>1. probe => offset + now <= TStop
      BY DEF Ongoing, Early, Probing
    <2>2. stage # "over" => offset + now <= TQuiesce
      BY DEF Ongoing, Early, Phases
    <2> QED
      BY <2>1, <2>2 DEF InTime
  <1> QED
    BY <1>1, Invariance, PTL

(* A run that reports a complete schedule has measured it.                 *)
THEOREM CompleteMeansComplete == Spec => []CompletedIsComplete
  <1>1. IInv => CompletedIsComplete
    BY DEF IInv, Booked, Past, CompletedIsComplete
  <1> QED
    BY <1>1, Invariance, PTL

(* The second soft event of a dwell ends the run.                          *)
THEOREM SecondEventIsTheLast == Spec => []SecondEventEnds
  <1>1. IInv => SecondEventEnds
    BY Constants DEF IInv, TypeOK, Booked, Current, Dwells, Result, SecondEventEnds
  <1> QED
    BY <1>1, Invariance, PTL
=============================================================================
