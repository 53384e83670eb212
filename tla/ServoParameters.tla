-------------------------- MODULE ServoParameters --------------------------
(***************************************************************************)
(* The programs that change the servos' stored parameters: the parameter   *)
(* loader (src/apps/bus/dxl_parameters.hpp, dxl_load_params.cpp), which    *)
(* x7_follow also runs as the activation configurator, the dump of         *)
(* dxl_inspect, and x7_set_param (src/apps/bringup).                       *)
(*                                                                         *)
(* A write may be lost on its way, its status reply may be lost, a servo   *)
(* may acknowledge a value it does not keep, and the program may be killed *)
(* between two writes.  A register is a field of a few values; the fields  *)
(* stand for the 31 parameters of the table by what the code tells apart:  *)
(* fields it will not load, the operating mode whose write resets others,  *)
(* an ordered pair, a field only one model has, and the fields reset.      *)
(***************************************************************************)
EXTENDS Naturals, Sequences, FiniteSets

CONSTANTS
    Joints,        \* ids of the configured servos, in bus order (a sequence)
    Model,         \* the model of each
    Files,         \* parameter files a user may have written
    MaxRuns        \* programs run one after another

Servo == {Joints[j] : j \in DOMAIN Joints}
Models == {"xm430", "xm540"}

(* The addresses of the registers. *)
Address == [baud |-> 8, mode |-> 11, high |-> 32, low |-> 34, port |-> 56, gain |-> 84,
            profile |-> 112]
Field == DOMAIN Address
Loadable == Field \ {"baud"}
ModeResets == {"gain", "profile"}
Eeprom == Field \ ModeResets
Default == 0

Supports(model, f) == f # "port" \/ model = "xm540"

(* A file is a sequence of motors, which need not be on the bus. *)
IsEntry(e) ==
    /\ e.id \in Nat /\ e.model \in Models
    /\ DOMAIN e.params \subseteq Field /\ \A f \in DOMAIN e.params : e.params[f] \in Nat
IsFile(s) ==
    s \in Seq({s[n] : n \in DOMAIN s}) /\ \A n \in DOMAIN s : IsEntry(s[n])

ASSUME JointsAssumption == Joints \in Seq(Nat)
ASSUME ModelAssumption == Model \in [Servo -> Models]
ASSUME FilesAssumption == \A file \in Files : IsFile(file)
ASSUME RunsAssumption == MaxRuns \in Nat

VARIABLES
    regs,      \* external: the registers of every servo
    torque,    \* external: Torque Enable
    saved,     \* the file the last dump wrote
    program,   \* the program of this run
    pc,
    entries,   \* the motors of the file that are to be loaded
    checked,   \* how many of them have been checked
    ops,       \* the planned writes
    todo,      \* those of them that are still to be made, or undone
    restored,  \* rollback_ok
    request,   \* x7_set_param: the fields asked for, with their values
    allOk,     \* x7_set_param's all_ok
    exit,      \* how the last run ended
    before,    \* history: the registers when the run began
    wanted,    \* history: the entries the run was asked to load
    runs       \* history: programs started

run == <<program, pc, entries, checked, ops, todo, restored, request, allOk, exit>>
history == <<before, wanted, runs>>
vars == <<regs, torque, saved, run, history>>

NoRequest == <<>>
(* A planned write: the motor's place in the file, the value wanted and    *)
(* the original one.                                                       *)
Operation == [motor : Nat, id : Servo, field : Field, want : Nat, was : Nat]

TypeOK ==
    /\ regs \in [Servo -> [Field -> Nat]]
    /\ torque \in [Servo -> BOOLEAN]
    /\ program \in {"none", "load", "configure", "dump", "set"}
    /\ pc \in {"idle", "apply", "rollback", "capture", "check", "show", "set", "verify"}
    /\ IsFile(saved) /\ IsFile(entries) /\ IsFile(wanted)
    /\ checked \in 0..Len(entries)
    /\ ops \subseteq Operation /\ todo \subseteq ops
    /\ before \in [Servo -> [Field -> Nat]]
    /\ restored \in BOOLEAN /\ allOk \in BOOLEAN
    /\ DOMAIN request \subseteq ModeResets /\ \A f \in DOMAIN request : request[f] \in Nat
    /\ exit \in {"none", "ok", "refused", "restored", "incomplete", "failed", "killed"}

Init ==
    /\ regs \in [Servo -> {[f \in Field |-> IF f = "high" THEN 2 ELSE 1]}]
    /\ torque \in [Servo -> BOOLEAN]
    /\ saved = <<>>
    /\ program = "none" /\ pc = "idle"
    /\ entries = <<>> /\ checked = 0 /\ ops = {} /\ todo = {}
    /\ restored = FALSE /\ request = NoRequest /\ allOk = TRUE
    /\ exit = "none"
    /\ before = regs /\ wanted = <<>> /\ runs = 0

-----------------------------------------------------------------------------
(* A servo.                                                                *)

(* Writing the operating mode resets the controller gains and profiles. *)
Stored(r, f, v) ==
    [g \in Field |-> IF g = f THEN v
                     ELSE IF f = "mode" /\ g \in ModeResets THEN Default ELSE r[g]]

(* EEPROM is locked while torque is on. *)
Rejects(s, f) == torque[s] /\ f \in Eeprom

(* A write may be applied or not, and acknowledged or not. *)
Write(s, f, v, applied, acked) ==
    /\ Rejects(s, f) => ~applied /\ ~acked
    /\ regs' = [regs EXCEPT ![s] = IF applied THEN Stored(@, f, v) ELSE @]

-----------------------------------------------------------------------------
(* Starting and ending a run.                                              *)

Start(p, at) ==
    /\ pc = "idle" /\ runs < MaxRuns
    /\ program' = p /\ pc' = at /\ runs' = runs + 1 /\ before' = regs
    /\ exit' = "none"
    /\ UNCHANGED <<regs, torque, saved, checked, ops, todo, restored, allOk>>

NoPlan ==
    /\ entries' = <<>> /\ checked' = 0 /\ ops' = {} /\ todo' = {}
    /\ restored' = FALSE /\ allOk' = TRUE

End(how) ==
    /\ pc' = "idle" /\ exit' = how /\ NoPlan
    /\ UNCHANGED <<program, torque, request, history>>

(* No handler catches SIGINT: a run may end between any two transactions. *)
Kill ==
    /\ pc # "idle"
    /\ End("killed")
    /\ UNCHANGED <<regs, saved>>

-----------------------------------------------------------------------------
(* The loader: parse, select, check every motor, then write.               *)

Distinct(file) == \A a, b \in DOMAIN file : file[a].id = file[b].id => a = b

(* parse(): what it refuses beyond malformed text and values of the wrong  *)
(* width.                                                                  *)
WellFormed(file) ==
    /\ file # <<>>
    /\ Distinct(file)
    /\ \A n \in DOMAIN file : \A f \in DOMAIN file[n].params : Supports(file[n].model, f)

(* Every selected id must be in the dump; the order is that of the ids. *)
Chosen(file, ids) ==
    IF ids = {} THEN {file}
    ELSE {part \in [1..Cardinality(ids) -> {file[n] : n \in DOMAIN file}] :
            /\ ids = {part[n].id : n \in DOMAIN part}
            /\ \A a, b \in DOMAIN part : a < b => part[a].id < part[b].id}

LoadBegin ==
    \E file \in Files \cup {saved} :
      /\ WellFormed(file)
      /\ \E ids \in SUBSET {file[n].id : n \in DOMAIN file} : entries' \in Chosen(file, ids)
      /\ Start("load", "apply")
      /\ wanted' = entries' /\ request' = NoRequest

(* x7_follow: the dump may name only configured motors, and never the      *)
(* operating mode, which the activation itself has just programmed.        *)
ConfigureBegin ==
    \E file \in Files :
      /\ WellFormed(file)
      /\ \A n \in DOMAIN file :
           file[n].id \in Servo /\ "mode" \notin DOMAIN file[n].params
      /\ Start("configure", "apply")
      /\ entries' = file /\ wanted' = file /\ request' = NoRequest

(* A pair is ordered when the values it will have are. *)
After(e, f) == IF f \in DOMAIN e.params THEN e.params[f] ELSE regs[e.id][f]
Ordered(e) ==
    {"low", "high"} \cap DOMAIN e.params # {} => After(e, "low") <= After(e, "high")

(* What apply() asks of a motor before the first write to any. *)
Acceptable(e) ==
    /\ e.id \in Servo /\ Model[e.id] = e.model
    /\ ~torque[e.id]
    /\ \A f \in DOMAIN e.params \ Loadable : regs[e.id][f] = e.params[f]
    /\ Ordered(e)

Changed(e) == {f \in DOMAIN e.params \cap Loadable : regs[e.id][f] # e.params[f]}

(* Fault: a mode change takes the gains with it. *)
FaultKept(e) == {}

(* Whatever a mode change resets and the file does not change is written   *)
(* again.                                                                  *)
Kept(e) == IF "mode" \in Changed(e) THEN ModeResets \ Changed(e) ELSE {}

MotorOps(n) ==
    LET e == entries[n]
    IN  {[motor |-> n, id |-> e.id, field |-> f, want |-> After(e, f), was |-> regs[e.id][f]] :
           f \in Changed(e) \cup Kept(e)}

(* Motors in the order of the file, the registers of one by address.       *)
(* x7_set_param goes from field to field.                                  *)
Precedes(o, p) ==
    IF program = "set"
      THEN \/ Address[o.field] < Address[p.field]
           \/ Address[o.field] = Address[p.field] /\ o.motor <= p.motor
      ELSE \/ o.motor < p.motor
           \/ o.motor = p.motor /\ Address[o.field] <= Address[p.field]

IsNext(o) == o \in todo /\ \A p \in todo : Precedes(o, p)

(* Fault: a motor is written as soon as it was checked. *)
FaultPreflightOver == TRUE

PreflightOver == checked = Len(entries)

Preflight ==
    /\ pc = "apply" /\ checked < Len(entries)
    /\ Acceptable(entries[checked + 1])
    /\ ops' = ops \cup MotorOps(checked + 1)
    /\ todo' = todo \cup MotorOps(checked + 1)
    /\ checked' = checked + 1
    /\ UNCHANGED <<regs, torque, saved, program, pc, entries, restored, request, allOk, exit,
                   history>>

(* A motor that is not acceptable, or any of the reads fails. *)
Refuse ==
    /\ pc = "apply" /\ checked < Len(entries)
    /\ End("refused")
    /\ UNCHANGED <<regs, saved>>

(* writeParameter(): a write counts when its readback shows the value. *)
Verified(o, v, acked) == acked /\ regs'[o.id][o.field] = v

WriteNext ==
    /\ pc = "apply" /\ PreflightOver
    /\ \E o \in todo, applied, acked \in BOOLEAN :
         /\ IsNext(o)
         /\ Write(o.id, o.field, o.want, applied, acked)
         /\ IF Verified(o, o.want, acked)
              THEN todo' = todo \ {o} /\ UNCHANGED <<pc, restored>>
              ELSE todo' = ops /\ pc' = "rollback" /\ restored' = TRUE
    /\ UNCHANGED <<torque, saved, program, entries, checked, ops, request, allOk, exit,
                   history>>

LoadEnd ==
    /\ pc = "apply" /\ PreflightOver /\ todo = {}
    /\ End("ok")
    /\ UNCHANGED <<regs, saved>>

(* Fault: the latest write is undone first. *)
FaultIsNextUndone(o) == o \in todo /\ \A p \in todo : Precedes(p, o)

(* Originals go back in address order: the mode before what it resets. *)
IsNextUndone(o) == IsNext(o)

(* Every planned write is undone, the failed and the unattempted included. *)
Rollback ==
    /\ pc = "rollback"
    /\ \E o \in todo, applied, acked \in BOOLEAN :
         /\ IsNextUndone(o)
         /\ Write(o.id, o.field, o.was, applied, acked)
         /\ restored' = (restored /\ Verified(o, o.was, acked))
         /\ todo' = todo \ {o}
    /\ UNCHANGED <<torque, saved, program, pc, entries, checked, ops, request, allOk, exit,
                   history>>

RollbackEnd ==
    /\ pc = "rollback" /\ todo = {}
    /\ End(IF restored THEN "restored" ELSE "incomplete")
    /\ UNCHANGED <<regs, saved>>

Loader ==
    \/ LoadBegin \/ ConfigureBegin \/ Preflight \/ Refuse \/ WriteNext \/ LoadEnd
    \/ Rollback \/ RollbackEnd

-----------------------------------------------------------------------------
(* dump-params: the named motors, or all that answer a ping.               *)

DumpBegin ==
    /\ Start("dump", "capture")
    /\ entries' = <<>> /\ wanted' = <<>> /\ request' = NoRequest

Captured(s) ==
    [id |-> s, model |-> Model[s],
     params |-> [f \in {g \in Field : Supports(Model[s], g)} |-> regs[s][f]]]

(* The motors named, in that order, none twice; or those a scan has found. *)
Capture ==
    /\ pc = "capture"
    /\ \E found \in SUBSET Servo \ {{}} :
         \E order \in [1..Cardinality(found) -> found] :
           /\ \A a, b \in DOMAIN order : a # b => order[a] # order[b]
           /\ saved' = [n \in DOMAIN order |-> Captured(order[n])]
    /\ End("ok")
    /\ UNCHANGED regs

CaptureFails ==
    /\ pc = "capture"
    /\ End("failed")
    /\ UNCHANGED <<regs, saved>>

Dump == DumpBegin \/ Capture \/ CaptureFails

-----------------------------------------------------------------------------
(* x7_set_param: the same value to every joint, no rollback.               *)

SetBegin ==
    \E fs \in SUBSET ModeResets, v \in {0, 2} :
      /\ request' = [f \in fs |-> v]
      /\ Start("set", IF fs = {} THEN "show" ELSE "check")
      /\ entries' = <<>> /\ wanted' = <<>>

CheckTorque ==
    /\ pc = "check"
    /\ \/ /\ \A s \in Servo : ~torque[s]
          /\ pc' = "show"
          /\ UNCHANGED <<program, entries, checked, ops, todo, restored, request, allOk, exit,
                         history, torque>>
       \/ End("failed")
    /\ UNCHANGED <<regs, saved>>

(* The writes to come. *)
SetOps ==
    {[motor |-> j, id |-> Joints[j], field |-> f, want |-> request[f],
      was |-> regs[Joints[j]][f]] : j \in DOMAIN Joints, f \in DOMAIN request}

Show ==
    /\ pc = "show"
    /\ \/ /\ request # NoRequest
          /\ ops' = SetOps /\ todo' = SetOps /\ pc' = "set"
          /\ UNCHANGED <<program, entries, checked, restored, request, allOk, exit, history,
                         torque>>
       \/ request = NoRequest /\ End("ok")
       \/ End("failed")
    /\ UNCHANGED <<regs, saved>>

(* The first failed write is the last. *)
SetNext ==
    /\ pc = "set"
    /\ \E o \in todo, applied, acked \in BOOLEAN :
         /\ IsNext(o)
         /\ Write(o.id, o.field, o.want, applied, acked)
         /\ allOk' = acked
         /\ todo' = IF acked THEN todo \ {o} ELSE {}
    /\ UNCHANGED <<torque, saved, program, pc, entries, checked, ops, restored, request, exit,
                   history>>

SetDone ==
    /\ pc = "set" /\ todo = {}
    /\ pc' = "verify"
    /\ UNCHANGED <<regs, torque, saved, program, entries, checked, ops, todo, restored,
                   request, allOk, exit, history>>

Holds == \A s \in Servo : \A f \in DOMAIN request : regs[s][f] = request[f]

SetVerify ==
    /\ pc = "verify"
    /\ \/ End(IF allOk /\ Holds THEN "ok" ELSE "failed")
       \/ End("failed")
    /\ UNCHANGED <<regs, saved>>

SetParam == SetBegin \/ CheckTorque \/ Show \/ SetNext \/ SetDone \/ SetVerify

-----------------------------------------------------------------------------
Next == Loader \/ Dump \/ SetParam \/ Kill

Spec == Init /\ [][Next]_vars

-----------------------------------------------------------------------------
Loads == program \in {"load", "configure"}

(* A refused file leaves the complete bus untouched: every motor is        *)
(* checked before the first is written.                                    *)
RefusalTouchesNothing == Loads /\ exit = "refused" => regs = before

(* A rollback reported as verified has put back every register of every    *)
(* servo, those a mode change reset along the way included.                *)
VerifiedRollbackRestores == Loads /\ exit = "restored" => regs = before

(* The file's values, and elsewhere the values from before. *)
Loaded(s, f) ==
    LET said == {n \in DOMAIN wanted : wanted[n].id = s /\ f \in DOMAIN wanted[n].params}
    IN  IF said = {} THEN before[s][f] ELSE wanted[CHOOSE n \in said : TRUE].params[f]

(* A successful load has set exactly what the file says: a mode edit does  *)
(* not silently alter unrelated tuning.                                    *)
LoadIsExact ==
    Loads /\ exit = "ok" => \A s \in Servo, f \in Field : regs[s][f] = Loaded(s, f)

(* x7_set_param exits 0 only when every joint holds every value asked for  *)
(* and nothing else changed.                                               *)
SetIsHonest ==
    program = "set" /\ exit = "ok" =>
        \A s \in Servo, f \in Field :
            regs[s][f] = IF f \in DOMAIN request THEN request[f] ELSE before[s][f]

(* Either tool says "ok" only for exactly the change that was asked for,   *)
(* over lost replies, writes that are not kept and modes that reset others.*)
SuccessIsExact == LoadIsExact /\ SetIsHonest
=============================================================================
