# Verification of rtctrl

rtctrl drives a CRANE-X7 arm of Dynamixel servos from a PC. A background thread
reads the servos, opens a short window in which a controller may answer, limits
the answer, writes it back and decides whether it may go on; servo-side Bus
Watchdogs stop the arm when the host falls silent. This directory holds TLA+
models of that program, the TLC configurations that check them, and proofs that
the TLA+ proof system checks.

Source paths below are relative to the repository (`src/hw/crane_x7.cpp` is the
C++ file; `PROJECT.json` maps every definition to lines).

## 1. Inventory

### 1.1 Components on the path from the controller to the servos

| component | state | operations | hard behaviour | what makes it correct |
|---|---|---|---|---|
| `CraneX7` session (`src/hw/crane_x7.cpp` 51-572, 1399-1461) | `activated_`, `drive_modes_verified_`, `passive_feedback_ready_`, `preload_amps_`, operating modes; in the servos: Torque Enable, Bus Watchdog, goals, Drive Mode | `activate`, `deactivate`, `bestEffortRelease`, `switchToCurrentModeWithPreload`, `preparePassiveFeedback` | each is tens of bus transactions, any of which fails or loses its reply; a quiesce lands between two; a caller's configurator rewrites what was verified | no servo switched on without a watchdog; a result that claims limp or active is true of the servos; no goal write enables torque |
| `CraneX7` control thread (818-1021, 1073-1397) | targets and tag, submission deadman, window, feedback and its sequence number, thread flags | `startThread`, `stopThread`, `setTarget*`, `waitFeedback*`, `checkDeadman`, `escalate`, `requestQuiesce` | a dead controller behind successful retransmissions; stale submissions; frozen reads; stop, escalation and quiesce at any moment | the deadman bounds what is sent; a miss does not keep a velocity; escalation is final; stop returns |
| `CraneX7` condition variables (627-649, 1028-1051, 1067-1071, 1220, 1359) | `feedback_cv_`, `cycle_cv_`, `target_cv_`, the mutexes and atomics they guard | the waits and notifications | flags change without the mutex, so a wake-up can be lost | whoever waits returns |
| `RealArm` (`src/arm/real_arm.cpp`) | sequence numbers seen, `have_feedback_` | `activate`, `readState`, `writeCommand`, `step` | activation succeeds and the thread does not start | a failed `activate` leaves no torqued arm |
| runner (`include/rtctrl/arm/runner.hpp`) | time origin, stop reason | the loop read, control, write, step | which failure ends the run and with which reason | every exit is reported |
| shutdown guard (`apps/common/x7_common.hpp`) | verified flag | verified shutdown, destructor | deactivation fails or throws | the bus is quiesced unless the stop was verified |
| `Port` (`src/dxl/port.cpp`) | quiet guard, armed windows, statistics | `syncRead`, `boundedRead`, `syncWrite`, arm and disarm | late replies of an abandoned read; the inhibit set during the guard | no packet after the inhibit; no late reply accepted as a fresh one |
| `StatusReplyParser` (`src/dxl/status_parser.cpp`) | buffer, expected ids | feed, take | damaged and concatenated packets | a reply is accepted only if it is whole and expected |
| bus profile, configuration (`src/hw/bus_profile.cpp`, `config.cpp`) | none | validation | none concurrent | a bad profile is refused before any torque |
| limiters (679-811, 1463-1508; `hw/command_current.hpp`) | soft limits | clamp and gate | one-way gates at a limit | a limited command never drives further out |
| cycle deadline and records (`hw/cycle_timing.hpp`, `hw/cycle_record.hpp`) | next wake time, counters | advance, accumulate | late cycles skip periods | wake times lie on the grid and in the future |

### 1.2 Components beside that path

| component | state | hard behaviour | what makes it correct |
|---|---|---|---|
| `AsyncWriter` (`src/util/async_writer.cpp`) | two buffers, latched failure, statistics | commits during I/O, failing writes, close during a batch, a killed process | no gap, an honest verdict, bounded loss |
| `AsyncZvsWriter` (`src/model/async_zvs_writer.cpp`) | a frame queue | as above | as above |
| `SpscRing`, `TimingLog` (`util/spsc_ring.hpp`, `apps/common/timing_log.hpp`) | two indices; a drain thread | reuse of a slot, wrap-around, full ring | records in order, none torn, drops counted |
| motor emulator, PTY bus, fake I/O (`src/emu/`) | register table | the rules the servos follow | agrees with the servo |
| simulated arms (`arm/sim_arm`, `lagged_arm.hpp`, `two_mass_arm.hpp`) | plant state, delay line | delayed commands | numerical |
| `tools/latency_hold.py`, `trace_session.sh`, `tsc_instance.sh` | the adapter's latency timer, a kernel trace instance, recorders | a signal or a failing write at any step; another session with the same name | what was borrowed is given back or the failure reported; a passed run was witnessed |
| parameter tools (`apps/bus/dxl_parameters.hpp`, `bringup/set_param_common.hpp`) | planned writes, originals | a failing write half way, registers that change with the mode, a kill | a refused file writes nothing, a verified rollback restores everything |
| applications (follow, track, teach, gravity, plan, bring-up, bus) | phase, recordings, bundles, exit status | aborts in every phase, early keys, files of other processes | the arm is released on every exit; exit status 0 is true |
| identification run (`apps/ident/ident_common.hpp`) | schedule, dwell, retries, captures | retries and windows that add up past the deadline | it ends in time; "completed" is |
| kinematics, dynamics, planners, controllers (`src/model/`, `arm/*.hpp`) | numbers | none concurrent | numerical |

### 1.3 How they interact

Applications own a `CraneX7` through `RealArm` and a shutdown guard. The runner,
in the application's main thread, calls `RealArm::readState`, the controller,
`RealArm::writeCommand` and `RealArm::step`; `readState` and `step` block on
`feedback_cv_` until the background thread opens a window, `writeCommand` stores
targets under `state_mutex_` and wakes the thread through `target_cv_`. The
background thread talks to the servos through `SyncGroup` and `Port`, and puts
one `CycleRecord` per cycle into a `SpscRing`, which `TimingLog` drains into an
`AsyncWriter`. `requestQuiesce()` may come from any thread and is also what
`Port` polls before it transmits.

## 2. What is modelled

| module | models | composes with |
|---|---|---|
| `AbstractLog` | what the log writer promises | |
| `AsyncWriter` | `src/util/async_writer.cpp` | implements `AbstractLog` |
| `AbstractSession` | what `crane_x7.hpp` promises of its calls | |
| `ServoSession` | the servo-side sequences of `crane_x7.cpp` | implements `AbstractSession` |
| `CycleThread` | the background thread and its callers | activation and release are outcomes here; `ServoSession` has their steps |
| `WakeUps` | the condition variables | the thread's computation is `CycleThread`'s |
| `BoundedPort` | `src/dxl/port.cpp`, packet by packet `status_parser.cpp` | |
| `SpscRing` | `include/rtctrl/util/spsc_ring.hpp` | |
| `TimingLog` | `apps/common/timing_log.hpp` and the thread that fills the ring | extends `SpscRing`, writes through `AbstractLog` |
| `ServoParameters` | the loader, the dump and `x7_set_param` | |
| `Applications` | the `main` of fourteen programs, `RealArm::activate`, the shutdown guard | extends `AbstractSession` |
| `ArmRuns` | the loops that command the arm, inside the runner | starts where `Applications` opens the session |
| `LatencySession` | `latency_hold.py`, `trace_session.sh` and what they start | |
| `IdentRun` | the identification run | |
| `MC*` | values for TLC | extend the module they name |
| `*Proofs` | lemmas and proofs | extend the module they name; `ApplicationProofs` extends `Applications` and `IdentRun`, `BusProofs` extends `BoundedPort` and `ServoParameters`, `LoopProofs` extends `CycleThread` and `ArmRuns`, `TimingLogProofs` also holds those of `SpscRing` |

Operators whose name begins with `Fault` are not used by the specifications:
each is a plausible mistake in the operator it precedes, kept to show that a
property notices it.

A proof module may extend two components, so the second one's specification has
names of its own: `AppSpec` in `Applications`, `PortSpec` in `BoundedPort`,
`RingSpec` in `SpscRing`, `RunSpec` in `ArmRuns`, and likewise for `Init`, `Next` and the type invariant.

### 2.1 AsyncWriter

A row is the run of its bytes, each labelled with the row's number, so `queue`
has exactly `queue_.size()` bytes and a torn, lost or reordered row shows. The
actions are the critical sections: `CommitRow` (a refused row latches
`failed_`), `TakeBatch` (the swap), `WriteBatch` and `WriteBatchFails` (without
the lock; a failure after any number of bytes), `AccountBatch`, `WriterExit`,
`CloseBegin`, `CloseEnd`. `file` and `stdio` are external: the bytes in the file
and those a failed write left in the stream, which `fclose` may still push out.
The timed wait may end at any time, so `notify_one` needs no action.

### 2.2 ServoSession and AbstractSession

Per servo: torque, Bus Watchdog, what the goal registers hold, and Drive Mode
bit 3 (Torque On by Goal Update). Their reaction to writes is external; it
follows `src/emu/motor_emulator.cpp`. Every acknowledged instruction has three
outcomes: executed and acknowledged, executed with the reply lost, lost. Group
writes are broadcasts, sent or not, and each servo may miss them. One call of
the API runs at a time, as `crane_x7.hpp` demands; `requestQuiesce()` and a
watchdog trip may come between any two transactions. A configurator may rewrite
Drive Modes, enable torque, succeed, fail or throw. With `JoinsFirst` the caller
joins an escalated thread before it activates again, which is how every
application behaves. `enabled` is a history variable: the servos this program's
own torque-on write reached and that no torque-off reached since. What a
configurator switched on is not in it, so `LimpIsOff` speaks of
the torque registers themselves: a stop that returns clean has switched off
whatever a configurator left on when it threw, and a permission to observe
passively does not outlive the activation that takes it back.

`AbstractSession` forgets the transactions: a call begins, switches servos in
any order, and returns a result that says something of all of them. The mapping
is in `ServoSession` (`Session`): a call is in progress when `op` is not idle,
`on` is the set of `enabled` servos, and the bus is silent once quiesced or
closed.

Abstractions: the registers that are only read (model, firmware, limits,
profile) are a step that succeeds or fails; the clamping of the preload is the
step `Preload` failing. Arming the bounded read, which follows the last watchdog
write, fails like that write does; the port's side of it is in `BoundedPort`.

### 2.3 CycleThread

Two threads share the members: the main thread (`mainPc`) and the background
thread (`pc`). One hold of `state_mutex_` is one action. Time is counted in
control cycles by `Tick`, which may happen at any moment; the model keeps ages
(`now_() - last_command_`, ...) cut off one above the bound they are compared
with. Sequence numbers are kept as relations: the controller's feedback and the
target's tag are the latest, or older. `target` remembers where the values came
from (this session, an earlier one, the default posture, the zero of a missed
velocity window), which is what the properties tell apart. A start closes
the window and leaves an earlier session's target where it is (section 4). Reads and writes may
fail at any time. `since` is a history variable that counts the thread's writes
since the controller last submitted.

### 2.4 WakeUps

Keeps only what wakes a waiter, and takes apart the step `CycleThread` merges: a
waiter has checked its predicate and holds the mutex but does not sleep yet
(`at = "checked"`). Whoever needs the mutex waits for it; `thread_run_` and
`quiesced_` are atomics and change without it. `Prompt` is an assumption: the
sleep to the next period outlasts that gap. `RemoteQuiesce` says whether
`requestQuiesce()` comes from another thread than the waiter. Spurious wake-ups
are left out.

### 2.5 BoundedPort

The calling thread's transaction (`stage`) goes through the quiet guard, the last
look at the inhibit, the instruction and the receive loop of `boundedRead()`.
The line is a FIFO of packets that may be lost, damaged, delayed as long as they
like, or cut in the middle. A packet has a servo, a length, a CRC that holds or
not, and two things the code cannot see: whether it answers the read in progress
and its age. The recovery epoch asks for one byte more. `Accept`, `Ambiguous`
and `NeedMore` are the outcomes of the parser. The instruction may fail to leave
the host (`SendReadFails`), which ends the read. Other instructions share the
guard; what they receive is dropped, as their SDK calls do.

`slip` is a history variable: the first time a read returned an answer to an
earlier one, and of which kind. One kind is possible and nothing on the line
tells it apart: the answer to a recovery read which outlasted the quiet guard
and is taken by a later recovery read of the same window ("overdue"). From then
on the answers may stay one read behind, each being the length that was asked
for, which is why the first slip is what the property speaks of.

### 2.6 SpscRing and TimingLog

`push()` and `pop()` are split at each shared access: load the other index, work
on the slot, store one's own; a slot is written and copied in two steps, so that
touching the same slot at once would show. Indices wrap at `Wrap`, which
`WrapAssumption` makes a multiple of the capacity, as 2^64 is of a power of two.
`pushed` and `popped` are histories.

`TimingLog` adds the background thread over several starts (its counter of
cycles, dropped records), the drain thread (`drain`, `stop_`), and the
application that stops the thread, joins the drain thread, drains the rest
itself and closes the writer. A record is its cycle number. The writer is what
`AbstractLog` says of it: each row is committed or refused, and close returns a
verdict about the file.

### 2.7 ServoParameters

A servo's registers are seven fields that stand for the table's parameters by
what the code tells apart: one it refuses to load, the mode whose write resets
others, an ordered pair, one that only a model has, and those reset. Programs
run one after another over the same servos: dump, load, the follow program's
configurator, set. Preflight, apply, read-back and rollback are one action per
transaction; each may be lost, lose its reply, or be acknowledged and not kept,
and a kill may come between any two. The planned writes are a set (`ops`), of
which those in `todo` are still to be made or undone; `Precedes` is the order in
which the code takes them: motors in the order of the file, the registers of one
by address, and `x7_set_param` register by register. A file may name a motor
that is not configured.

### 2.8 Applications

A program is a sequence of steps (files, session, thread, run, close, commit,
verdict) with the options that change it. The objects its steps construct are on
a stack and destroyed in reverse order when it ends or throws. Its calls of
`CraneX7` are those of `AbstractSession`, taken one transaction at a time, so
whatever `ServoSession` promises is all a program may rely on. `RealArm::activate`
with its rollbacks and `ShutdownGuard` (run, destructor) are steps of every
script. Files are absent, partial, whole, broken or another process's; another
process may create one at any moment. The option "check" is a run of `--check` or
`--help`: it ends before anything is made or opened.

A call may throw. An activation that its configurator cuts short by throwing has
not released anything (`crane_x7.cpp:404`), so `tried` is false from there on and
`NeverLeftOn` asks whoever catches it for a release.

The model distinguishes the programs (`ScriptOf`, one operator per `main`) from
the discipline their authors keep (`Ordered`): the arm is switched on just
before the guard is built or while it lives, no file is made or finished while
it lives, a failing drive passes over nothing that makes a file, and so on.
`ProgramsAssumption` says that every program run is `Ordered`; TLC evaluates it
on all of them, and the proofs use nothing else of the scripts. A program
changed or added later is covered when it keeps the discipline, and a script
that breaks it is reported before any state is explored.

### 2.9 ArmRuns

One action is one cycle of a loop: poll the keyboard, read, decide, write, log,
step, with its failures. `kind` chooses the loop (follow run, posture run,
track, float, feel, demo, teach with and without torque). Errors are kept by
level (within the gate, sustained, immediate), time in whole control periods,
keys as what lies unread in the terminal.

### 2.10 LatencySession

The value of the latency timer counts only when sysfs, the adapter and the
port's low-latency flag agree; every read and every write may fail, a write half
way. `owed` is what the tool's cleanup consults; `touched`, `gaveUp` and `lost`
are histories. A session runs a list of runs; the trace instance has an owner.
A signal may come at each step until the tool masks them on its way out. The
adapter may fail in every window of `latency_hold.py` and while it drains,
which ends the run through the same cleanup.

### 2.11 IdentRun

One sample is one `Update` and one `Observe`. The phases, their times, the
admission of a dwell, the soft event and the retry with a longer window, the
kill, the ramps and the final hold are the code's; the demodulated numbers are
abstracted to what they decide (headroom, soft event, quiet, more window). A
window ends by the number of completed blocks, and a block of too few samples is
not counted: once its length is reached a window may end or go on, and only the
backstop bounds it.

## 3. What the runs check

| run | bounds | shows |
|---|---|---|
| `AsyncWriter` | capacity 4, rows of 1 to 3 bytes, 4 rows | `CloseHonest`, `ImplementsAbstractLog`, `CommittedIsWritten` |
| `ServoSession` | 2 joints, position and current mode | `TorqueProtected`, `NoTorqueByGoalWrite`, `LimpIsOff`, `ImplementsSession`, `SilenceStops` |
| `CycleThread` | deadman 1 cycle, deadline 0, limits of 2 failing reads and 1 failing write in a row, velocity mode, synchronized and periodic | `DeadmanBoundsWrites`, `FailuresStop`, `FreshMeansThisCycle`, `MissSendsZero`, `LostControllerStops` |
| `WakeUps` | both modes, quiesce from any thread, 2 failing reads | `NobodyLeftAsleep`, `CycleWaitReturns` |
| `WakeUpsQuiesce` | synchronized, quiesce from any thread | the finding of section 4 |
| `BoundedPort` | 2 servos, windows of 2 and 4 bytes, budget 2, guard 1, 4 packets in flight | `NoStaleReply`, `SilentAfterInhibit`, `TransactionsEnd` |
| `TimingLog` | ring of 2, indices below 4, 5 cycles, 2 starts | `Fifo`, `CompleteIsAll`, `StopReturns` |
| `ServoParameters` | 2 servos of two models, 8 files, 2 programs in a row | `RefusalTouchesNothing`, `VerifiedRollbackRestores`, `SuccessIsExact` |
| `Applications` | 2 servos, every program with each option it has, `--check` and `--help` included | `NeverLeftOn`, `ExitZeroHonest`, `UncleanIsSilenced`, `FilesAfterRelease`, `OutputsAreOwn` |
| `ArmRuns` | reference of 3 intervals, 1 retry, 2 sustained cycles, holds of 3, marker 2, window 2, gaps of 2 | `HoldBeforeLimp`, `EarlyKeysIgnored`, `WindowIsWhole`, `NoReferenceFromDeparture`, `RunsEnd` |
| `LatencySession` | timers of 0, 1, 2 ms; sessions of two and three runs, with and without steps | `EndsRestored`, `PassIsWitnessed`, `ForeignInstanceKept` |
| `IdentRun` | 2 dwells, 2 joints, stop at 32, watchdog at 36 | `InTime`, `CompletedIsComplete`, `SecondEventEnds` |

Why the bounds are enough.

* `AsyncWriter`: four bytes of queue and rows of one to three let a long row be
  dropped while a shorter one would fit, several rows share a batch, and a batch
  is in flight while the queue fills again.
* `ServoSession`: two joints are what a sequence over joints needs to have done
  one and failed at the next; the joints are independent otherwise, and the
  proofs of section 5 hold for every number.
* `CycleThread`: a deadman of one cycle separates "one cycle late" from "too
  late", and a deadline below it lets a tag expire before the deadman. Two failing
  reads leave one that is forgiven, so the counter is seen to start over. The ages
  saturate just above the bound they are compared with, so no behaviour is cut
  off; the safety properties are proved for all bounds.
* `BoundedPort`: two servos make a partial reply and a reply in the wrong place;
  two lengths, whose recovery lengths differ from both, make confusion of
  windows; four packets are two reads in flight, and reach an overdue answer. A guard and a budget of
  different sizes tell the end of the one from the end of the other.
* `TimingLog`: two slots fill, five cycles wrap the slots twice and the indices
  once, the second start finds records of the first.
* `ServoParameters`: the files contain a mode change with an edit it resets, an
  ordered pair edited in part and in full, an edit of a parameter the model lacks, a
  wrong model, a motor that is not there, a repeated id and a forbidden field; the second program meets
  what a killed first one left.
* `Applications`: one servo failing after another succeeded; each program stops
  or fails at each of its steps.
* `ArmRuns`: each bound is one more than the first value that reaches the next
  branch; `Margin` is twice `MaxGap`, the smallest the code's constants allow.
* `IdentRun`: the ladder of deadlines is the code's, shrunk so that two dwells
  with a retry and an extended window only just do or do not fit.

`CHECK_DEADLOCK FALSE` stands where the program really ends: a closed log, a
program that has exited, a finished run, a closed port. It is checked for
`ServoSession`, `CycleThread` and `WakeUps`.

### Fairness

* `AsyncWriter`: the writer thread runs (its wait is bounded by
  `flush_interval_s` and a write is assumed to return), and a `close()` that
  began runs on. Nobody has to call `close()`.
* `ServoSession`: an armed watchdog of a torqued servo trips once the bus is
  silent. Nothing else is fair, neither the program nor the bus.
* `CycleThread`: the background thread and the clock run, and a main thread
  inside `stopThread` or `deactivate` goes on. Nobody has to submit or stop.
  Nothing makes a read or a write succeed.
* `WakeUps`: the threads run, and a controller woken into a window gets the
  mutex before some window closes (strong fairness): a window takes most of a
  control cycle, so losing every one of them is not scheduling.
* `BoundedPort`: the calling thread and the clock run. No packet has to arrive.
* `TimingLog`: the drain thread runs and an application that began to stop goes
  on. Nobody has to stop.
* `ArmRuns`: the loop runs. The operator never has to press a key.
* `ServoParameters`, `Applications`, `LatencySession`, `IdentRun` have safety
  properties only and assume no fairness.

## 4. Findings

`requestQuiesce()` (`crane_x7.cpp:1067-1071`) sets the flag and notifies without
the waiters' mutex. Called from another thread, as `crane_x7.hpp:379-381`
allows, it can fall between a waiter's check and its sleep; a quiesced thread
never notifies `feedback_cv_` again, so the controller sleeps until somebody else
stops the thread. The servos are safe: the bus is silent. Run `WakeUpsQuiesce`.

Met while modelling, and not checked by a run of their own:

* `stopThread()` (`crane_x7.cpp:1011-1020`) writes its zero goal without looking
  at `drive_modes_verified_`; after an escalation that was not joined,
  `activate()` and a stop write a goal this activation has not shown to be safe.
  With `JoinsFirst = FALSE`, `NoTorqueByGoalWrite` fails. No application does it.
* A rejected submission refreshes `last_submission_` (851-852): a controller
  whose commands are all stale, and which ignores the result, keeps an old target
  going out.
* `have_targets_` is never reset (972): a second session of the same mode starts
  by sending the last target of the first, not by holding the present state as
  line 967 says. Until the controller submits, `submission_armed_` is false, so
  the submission deadman does not end it. In `CycleThread` the target is then
  "previous".
* `readFeedback()` publishes without notifying (605-608): in a periodic thread an
  acquisition does not wake `waitFeedback()`.
* A cycle whose read fails after a zeroed miss sends the old velocity again
  (1251 applies to cycles with a window). `startThread()` returns true while an
  exited thread is joinable (935). A configurator that throws leaves
  `activate()` without its release (404). A goal snap is unacknowledged (471).
* Parameter tools: killed after the mode write and before the gains are back, a
  second run takes the reset gains for the originals and reports "verified".
  `VerifiedRollbackRestores` speaks of a rollback that was carried out; nothing in
  the code undoes the writes of a killed loader.
* Arm runs: an abort of the track run goes limp without a hold; a dropped log row
  ends a follow run at once without one; an operator who never answers overwrites
  the status of the abort; float, demo and pose accept a key typed before the
  prompt (`EarlyKeysIgnored` is stated for the loops that flush); without a
  posture the follow run checks the feedback of the previous cycle.
* Applications: the simulations and `x7_plan_ptp` open the motion with "w" and
  so truncate a file made meanwhile; a bundle with an incomplete log is
  published, and says so; some exits of `x7_bus_timing` leave a partial log.
* Latency tools: `trace_session.sh` exits 0 with runs not done when the removal
  of its instance fails once and the retry at the end succeeds; a late reply of
  an earlier ping is counted for the control.
* Bounded read: the statement the model first made, that no late answer is ever
  taken, holds on the bounds of the run and not in general: with one servo, one
  window and three packets in flight a recovery answer that outlasts the guard is
  taken by the next recovery read (`slip = "overdue"`). Only an answer later than
  budget and guard together does this.
* Identification: the deadline ladder needs its last inequality strict
  (`Kill < Ramp + FinalHold`; the code has 0.05 s and 1 s): with equality the last
  sample falls one past the deadline.
* Identification: a retry keeps the longer window although its admission counts
  the base window; `x7_ident_sim` ignores the results of `fclose` and
  `writeDwellJson` and exits 0.

## 5. What is proved

Every theorem holds for all values of the constants that satisfy the module's
assumptions, unless it names a further one.

| module | theorems | statement |
|---|---|---|
| `AsyncWriterProofs` | `TypeCorrect`, `NoGaps`, `BoundedLoss`, `HonestClose`, `HonestStats` | `Spec => []TypeOK`, `FileIsPrefix`, `LossBounded`, `CloseHonest`, `StatsHonest` |
| | `Refinement` | `Spec => ImplementsAbstractLog` |
| `ServoSessionProofs` | `TypeCorrect`, `Invariance`, `Protected` | `Spec => []TypeOK`, `[]IInv`, `[]TorqueProtected` |
| | `GoalWritesAreSafe` | `JoinsFirst` implies `Spec => NoTorqueByGoalWrite` |
| | `LimpMeansOff` | `Spec => LimpIsOff` |
| | `Refinement` | `Spec => ImplementsSession` |
| `LoopProofs` | `TypeCorrect`, `DeadmanBounds`, `FailuresAlwaysStop`, `FreshIsThisCycle`, `EscalationIsFinal` | the invariants of `CycleThread` |
| | `MissedVelocityNotRepeated` | `Spec => MissSendsZero`, which is about velocity mode; in current mode the command before is kept and `DeadmanBounds` bounds it |
| | `HeldBeforeLimp`, `OnlyAnswersCount`, `MarginIsEnough`, `GateIsCurrent` | `RunSpec => []HoldBeforeLimp`, `[]EarlyKeysIgnored`, `[]WindowIsWhole`, `NoReferenceFromDeparture` |
| `BusProofs` | `FirstSlipIsOverdue`, `OneInstructionAtMost` | `PortSpec => []NoStaleReply`, `[]SilentAfterInhibit` |
| | `RefusalIsClean`, `RollbackIsWhole`, `SuccessMeansExact` | `Spec => []RefusalTouchesNothing`, `[]VerifiedRollbackRestores`, `[]SuccessIsExact` |
| `WakeUpsProofs` | `NobodyStaysAsleep` | `Prompt` implies `Spec => []NobodyLeftAsleep` |
| `TimingLogProofs` | `RingIsFifo`, `SlotsAreExclusive` | `RingSpec => []Fifo`, `[]NoTornRecord` |
| | `UsesTheRing`, `LogIsFifo`, `CompleteHasAll` | `Spec => RingSpec`, `[]Fifo`, `[]CompleteIsAll` |
| `LatencySessionProofs` | `TypeCorrect`, `RestoredAtTheEnd`, `PassWitnessed`, `ForeignKept` | `Spec => []TypeOK`, `[]EndsRestored`, `[]PassIsWitnessed`, `ForeignInstanceKept` |
| `ApplicationProofs` | `AppTypeCorrect`, `NeverLeftOnHolds`, `ExitZeroIsHonest` | `AppSpec => []AppTypeOK`, `[]NeverLeftOn`, `[]ExitZeroHonest` |
| | `UncleanIsSilencedHolds`, `FilesAfterReleaseHolds`, `OutputsAreOwnHolds` | `AppSpec => UncleanIsSilenced`, `FilesAfterRelease`, `OutputsAreOwn` |
| | `TypeCorrect`, `RunIsInTime`, `CompleteMeansComplete`, `SecondEventIsTheLast` | `Spec => []TypeOK`, `[]InTime`, `[]CompletedIsComplete`, `[]SecondEventEnds` |

Hardly any of these properties is inductive. What each proof adds:

* `AsyncWriterProofs`: where every committed byte is. While the stream is
  trusted, the log is the file, then the batch, then the queue (`PlaceInv`); once
  a write failed, the file and what the stream still buffers are a prefix and
  nothing is written any more. `LossInv` is the same in lengths, which survives
  the failure; `CountInv` ties the statistics to the file, `ControlInv` the
  program counters to the flags. The module begins with the lemmas on prefixes
  that this needs.
* `ServoSessionProofs`: an invariant per question, each with a lemma that every
  step keeps it. `SafeInv` says who may take the arm for active (`ActiveInv`),
  how far the arming and the switching on have come (`ArmInv`), and that a
  watchdog is cleared only behind a torque-off that arrived (`ClearInv`);
  `TorqueProtected` follows because torque-on comes after the last arming.
  `LimpInv` is what a stop that may still be called clean has confirmed so far.
  `OffInv` says the same of the torque registers themselves, whoever set them, and
  that the permission to observe passively stands only over servos that are off;
  `LimpIsOff` follows from it before and after a step.
  `DriveInv` says that wherever a goal may be written the Drive Modes are known to
  be clear; it needs `JoinsFirst`, for the reason in section 4. The refinement
  has a lemma per kind of abstract step (`IsCall`, `IsTransaction`, `IsReturn`
  and its four results, `IsStutter`) and `RefinesStep`, one case per action.
* `LoopProofs`, the thread: `DeadmanInv` relates the count of writes to the age
  of the submission, with one more while a cycle has written and not yet slept;
  the others (`ActiveInv`, `FailureInv`, `WindowInv`, `CommandInv`) say in which
  steps of the loop each member is meaningful.
* `LoopProofs`, the arm runs: `Places` says which phases the loop of each kind
  can be in, `Steps` how far into one; `Gated` that a posture run still tracking
  saw no immediate departure in the feedback its next command starts from;
  `Emptied` that after the first poll the terminal holds nothing typed before the
  prompt; `Within` that a float still awaited is within its marker and a recorded
  window within its end, whatever the gaps; `Started` that the clock of a run
  starts with its second sample.
* `BusProofs`, the bounded read: `Guarded` is about ages on the wire. Until the
  first slip, and outside the quiet guard, whatever answers an earlier read is
  older than budget and guard and recovery is due; `Ages` says that nothing on
  the line is younger than the last read; `InOrder` that an answer to the read
  in progress is followed by the answers of later servos only. A read whose
  packets are accepted then has either its own answers or answers of the length
  it asked for, which `LensAssumption` makes recovery answers of the same
  window. `Sends` counts the instruction that had passed its last check.
* `BusProofs`, the parameter tools: `Untouched` says that nothing is written
  before the last check; `Origins` that a plan names each register once and with
  its value before the run; `Plans` that it gives the checked motors the values
  of the file and nothing else; `Restores` that a mode comes with everything its
  write resets; `Progress` what the writes made so far have left, going forward
  and going back. The addresses put the mode before what it resets, so no write
  spoils an earlier one.
* `WakeUpsProofs`: `AwakeInv` adds that a waiter between check and sleep with a
  thread told to end still has a step of that thread, and so a wake-up, ahead.
* `TimingLogProofs`, the ring: `CountInv` ties the wrapped indices to the lengths of the
  histories, `StoredInv` says which record each occupied slot holds. The
  arithmetic of slots under wrap-around is in lemmas of its own.
* `TimingLogProofs`, the log: the refinement to the ring, then `PushedInv` (records are
  the cycles while none was dropped), `RowsInv` (rows are the header and what was
  popped), `StopInv` (who still works on the ring once the application stops).
* `LatencySessionProofs`: `DebtInv` follows the timer through the cleanup,
  `OwnedInv` and `LeftInv` the instance, `WitnessInv` how the news that a
  recorder ended reaches the verdict.

* `ApplicationProofs`, the applications: the invariant relates the place in the
  script to what is alive. An arm is `Hot` while it is active, fed by the thread,
  switched on since the last attempt at a release, or called; `Pending` says that
  then the armed guard is on top of the stack, or the program stands in the step
  that builds it or that undoes its own work (`RealArm::activate`). `GuardPlaced`
  is what makes this inductive: between its step and the release the guard is
  alive and the last object, so whichever step throws, its destructor is the next
  thing that happens. `Stops` says that while the arm is being stopped nothing
  starts it, `Unclean` that an unclean stop stands just before the quiesce,
  `Verified` that what was verified stays verified. For the files, `Foreigners`
  says that a path this program made and whose owner is in scope is its own
  (`Owned`, a statement about the script), and `FileMoves` lists the steps that
  change a file at all. There is a lemma per action, and one (`PlainMoves`,
  `PlainSafeguarded`) for all that leave the arm alone. `ZeroKept` needs the
  verdict to be the last step.
* `ApplicationProofs`, the identification run: `Timed` is the ladder of deadlines as an invariant: in each
  phase the sample it will at the latest end on, and from there the longest way
  out, stay within the stop time. `Control` says which phase carries which
  dwell, event and window; `Booked` that the dwells behind the current one have
  their results.

The proofs changed what was there. `ServoParameters` planned its writes as a
sequence built by a recursive helper; they are now a set with the order the
code's loops take, which says the same and can be reasoned about. Two statements
were too strong in general, though they held on the bounds of their run: that no
late answer is ever taken, and that any ladder of deadlines with
`Kill <= Ramp + FinalHold` ends in time (section 4).

In `Applications` the scripts were functions of the state; they are now operators
of a program and its option, which lets the discipline they share be stated as an
assumption.

Every safety property that a passing run checks is also a theorem. Only model-checked is
liveness (`CommittedIsWritten`, `SilenceStops`, `LostControllerStops`,
`CycleWaitReturns`, `TransactionsEnd`, `StopReturns`, `RunsEnd`): liveness under
fairness, ENABLED, induction over data and recursive operators are outside what
the prover does. That the fourteen scripts are `Ordered` is evaluated by TLC.

## 6. Not modelled

* Floating point: kinematics, dynamics, planners, control laws, limiters,
  demodulation, simulated plants, force accounting. There is no state machine in
  them; where the control path uses their result the models have one outcome per
  branch.
* Parsing and formatting: TOML and CSV, command lines, reports, JSON.
* Stateless checks: the control table, conversions, the wire budget, the bus
  profile, the latency verifier.
* Test doubles (emulator loop, PTY bus, fake packet I/O), whose servo rules are
  the external part of `ServoSession` and `ServoParameters`.
* `AsyncZvsWriter`: an `AsyncWriter` with another row.
* `target_cv_`: it is only ever waited on with a timeout.
* Memory order below the atomics of the ring: their accesses are taken as
  sequentially consistent, which acquire and release give for one producer and
  one consumer.

What a next step would add: `WakeUps` composed with `CycleThread` in one module,
and the safety half of the liveness properties (what a waiter may rely on at each
step) as theorems.
