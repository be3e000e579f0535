# CollimationGuideTool: formal models

TLA+ models of CollimationGuideTool, above all of the parts that command
hardware from several threads, checked with TLC on small instances and, where
it says so, proved with TLAPS for every instance. Line numbers refer to this
commit of the repository.

## 1. The system

A Qt program (`apps/collimation_tool`) helps to collimate a telescope. Its GUI
thread polls and switches; worker threads move the mount and the focuser, take
frames, and run autofocus and calibration. Everything that reaches the OnStep
mount controller goes through ONE shared INDI client (`onstep/connection.py`),
used by three shims: RA/Dec motion (`mount_pulse_adapter.py`), park and tracking
(`mount_park_adapter.py`), focuser (`focuser_adapter.py`). Every motion of the
mount is claimed first (`mount_motion.py`). Cameras (ToupTek SDK) and filter
wheels (an INDI client of their own) stand beside it. `apps/guide_tool` is a
second, smaller application over the same packages.

| component | state it keeps | operations | hard behaviour | what makes it correct | module |
|---|---|---|---|---|---|
| RA/Dec shim | Stop latch, generations, pending stop, stop worker | move_angular, guide_pulse, abort, clear_abort | Stop races with a GOTO that holds the lock; stops raise; the client changes | a Stop is never lost, never hits a later move; what a guide pulse reports is so | `MountPulseAdapter`, `GuidePulse` |
| OnStep connection | client, users, operation_lock; held-over readings | acquire, release, try_operation | last user leaves during an operation; readings without the lock | one client; answers belong to this session | `OnStepConnection` |
| Tracking policy | mode, owed enforcement, conflict count, gate | set_mode, enforce, verify, retry_pending | checks overlap with each other and with mode switches | fails closed; what is owed happens | `TrackingEnforcer` |
| Motion executor | the claim in flight | claim, release, abort, abort_in_flight | three workflows, a global Stop | one motion app-wide; a stopped one moves no more | `MountMotion` |
| Mount panel | transition, worker, owed enforcement | park, unpark, poll | a long call beside polls and a disconnection | one call; an unpark is followed by the policy | `ParkPanel` |
| Focuser shim | generation, stopped-through, stop worker | move, stop, disconnect | Stop during a move, several passes, quitting | the stopped move ends, a later one runs | `FocuserAdapter` |
| Focuser panel, autofocus | jog, run, exposure lowered | jog, Stop, run, cancel | two workers, a camera and a focuser | one mover; all is left as reported | `Autofocus` |
| Mount Align | queue of steps, sizing, captures, references | calibrate, nudge, screen move, Stop | retries, groups, returns, aborts anywhere | evidence of its own move; home when said; ends | `MountAlign`, `AlignPositioning` |
| Star acquisition, recentering | a run with a claim | calibrate pulses, correct, confirm | Cancel, Stop, lost star | at most one command after Cancel; ends | `FineCollimation` |
| Cameras, device connection | adapters, handles, stream threads | open, switch, stream, cool | failures at each phase, writes that are lost, a thread that exposes | nothing open for nobody, every cooler told to stop | `CameraPanel` |
| Acquisition | exposure, mailbox, waits | fresh, stable, verified frame | exposures begun before the motion ended | evidence is fresh, waits bounded | `Acquisition` |
| Auto exposure | exposure, gain, last frame | one correction per frame | two actuators, an estimated slope | settles | `AutoExposure` |
| Filter wheel, INDI client | cache of vectors, command sent | set slot, poll, reconnect | old and late answers | confirmed means there | `FilterWheel`, `IndiParser` |
| Main window | mode, target, cameras, calibration, Stop button | the operator's choices | choices that change each other; results that come late | choices and results agree | `MainWindow` |
| Settings | one file, two owners | load, save, edit | power loss, another camera plugged, an unreadable file, a refused exposure | what is shown is in the file | `Settings` |
| Collimation assistant | session, learned screws, analyses | transition, observe, advise | an analysis of an older frame | advice reduces the error | `Collimation` |
| GuideTool | tracker, pulses, source health | start, stop, rebase, pause | a loop beside its stop | pulses only for this frame's star | `GuideTool` |
| Diagnostics | bundles | capture, prune, pull | two applications, one directory, a transfer that breaks off | the reported bundle is there | `Diagnostics` |

`PROJECT.json` lists all components with their sources and status, and the
hazards of the code, each at its line.

## 2. Modules

The mount's modules (`MountPulseAdapter`, `TrackingEnforcer`, `MountMotion`,
`MountAlign`) and `FocuserAdapter` are run each on its own; the others are small
and independent of each other, and `Components` composes them: a behaviour picks
one part and the others rest. It extends `Equipment`, which composes those that
work a device (cameras, waits for fresh frames, autofocus, fine collimation, park,
guiding, the guide pulse, the OnStep connection), and adds those that choose,
show, compute, keep and write. All parameters stay constants, for theorems to
quantify over. Both join the properties of their parts under a few names.
`MC*` modules hold values and symmetry sets for TLC, `*_proofs` the TLAPS theorems
about the module of that name; those about `GuidePulse` and `OnStepConnection`,
which share the mount's INDI client, are in `MountLink_proofs`. `AbstractMotion`
is what the executor promises; `MountMotion` implements it.

`MountMotion` contains the shim as far as a workflow sees it (latch, lock, one
"stop owed" number); `MountPulseAdapter` opens that up. What `MountMotion`
assumes of the shim (a Stop reaches every move covered by it) is what
`MountPulseAdapter` checks, and its `rearmWhileMoving` fault is what
`MountMotion` excludes for claimed motions.

### MountPulseAdapter

State: the variables carry the names of the attributes (`cancel`,
`moveGeneration`, `inFlight`, `pendingStop`, `stopWorker`), plus each mover's
and stop worker's position in its call, the client number and `axis`, the
generation the controller is executing. One action per critical section of
`_state`, per hand-over of `operation_lock`, and per command that reaches the
mount. `Faults` names what the environment may do beyond the ordinary:
disconnecting during a move or a stop, a GOTO that is issued only after a whole
emergency stop, a re-arm during a move, a stop that raises.

### FocuserAdapter

Like `MountPulseAdapter`, with what differs in the code: no latch but
`stoppedThrough`, up to `MaxStopPasses` stops per request, OnStepAdapter's
cancel flag that a move clears on entry (`sending -> armed -> polling`), and
`disconnect()` waiting for the stop worker. `SlowPasses` is the number of stop
confirmations a move past its last check may still need to reach that entry;
`PassesAssumption` says the passes outlast it, as the module docstring argues.
`LateStops` lets that wait expire (17 s: the passes of one request and a
margin). The panel presses Stop only while connected, so Stop without a focuser
is left out.

### TrackingEnforcer

A thread's check is a walk `enforce -> verify -> read -> command -> commanding ->
reread -> settle`, with the policy's critical sections atomic and everything
between them interleaved, as in the code. `Budget` bounds operator and caller
activity. `SlowSettle = FALSE` in all runs: no reconnect or mode switch falls
into the instant between a check's last reading and storing its answer (no I/O
lies between them). `Raises` names the readings and corrections that may raise.

### MountMotion and AbstractMotion

An axis workflow walks `preflight -> (unparking) -> checking -> queued -> entered
-> moving -> arrived/failed -> checking ... settling -> releasing`; the Mount
panel's Park starts at `queued`, its Unpark at `unparking`, and both end at
`releasing`. A worker's crash or refusal is the choice of `releasing`.
`ImplementsPromise` maps a claim to a motion of `AbstractMotion`; a command
counts as given once the worker owns the connection and has looked at the latch.

### OnStepConnection

What all three shims do alike: share the client, take `operation_lock`, answer
a poll without waiting. A worker is `queued -> entered -> commanded` in an
operation, or `deciding -> reading` in a decision (`decision_status`). `flaws`
is a history of what the last answer got wrong: read from the middle of another
thread's operation, at rest although its own move is on its way, read in a
session that has ended. What an operation does is open here.

### GuidePulse

A Mount Align guide-pulse move with the shim and the stop worker. OnStepAdapter's
chunks, with a safety preflight before and after each and an emergency stop when
a failure follows an issued one, are external. `verdict` is the
`GuidePulseResult` as the move sees it, `issued` the chunks that reached the mount.

### MountAlign and AlignPositioning

`MountAlign` is the panel with its 250 ms poll: clicks and polls are atomic, the
capture threads and the runner's thread interleave. The queue of calibration
steps carries role, axis, direction, size and camera like `CalibrationStep`; the
sizing (probe, retry, group, follow-up, way back) is the code's, on small
integers. `pos` is where the mount stands, which the code does not know, `net`
what it has accounted for; `said` is what the panel has claimed. A measured
fraction is any of `Fractions`. `AlignPositioning` is the arithmetic of one
arrow: it solves the screen move with the calibration matrix exactly as
`solve_screen_move` does, with its response per direction, caps and floors, and
is checked against the displacement the matrix predicts.

### CameraPanel, Acquisition, AutoExposure

One camera panel with its adapters and stream threads: a thread is `loop ->
entering -> exposing`, and only the join of `stop_stream` lets other callbacks
wait. `tec` is what the device's cooler does: an SDK call that switches it may be
lost, which the adapter only logs, so a cooler told to stop is off or `left` on.
`Acquisition` has the only clock: frames carry when their exposure began
(which the code does not know) and the stamps the code gives them. In
`AutoExposure` the metric is the scene's brightness times exposure and gain.

### Autofocus, FineCollimation, FilterWheel, MainWindow, ParkPanel

Each is a panel with its worker: the panel's callbacks are atomic, the worker
moves between two waits. Autofocus samples are values, "invalid" or none, and
what a position measures is open. In `FineCollimation` a frame is the star's
distance from its target. `FilterWheel` has the driver and the connection's
order of answers as its environment.

### GuideTool, Diagnostics, Settings, IndiParser, Collimation

`IndiParser` scans the characters the code tells apart ("?" stands for "!", too),
among them the two quotation marks, each of which ends only a quotation of its
own; its wire is cut anywhere. A transfer of `Diagnostics` has an exit status and
leaves all, some or nothing. In `Settings` the file the operator shares may be
malformed in a value or unreadable as a whole, and `found` and `refused` say what
of the file a panel has, and which exposure a camera did not take. `Collimation` holds two systems without common variables, the
session's state machine and the advising assistant on a linear telescope, and
they are checked as two parts.

## 3. Runs

| run | instance | shows |
|---|---|---|
| `pulse_stop` | 2 movers, 1 worker, 2 moves, 2 sessions, re-arm any time, no move obliged to end | StopOwed, MovingIsInFlight, StopEndsMotion |
| `pulse_faults` | 2 movers, 2 workers, 1 move, 1 session, all faults, fair | TypeOK, SingleWorker, OneMoveInFlight, StopServed, LockReleased |
| `pulse_later` | 1 mover, 1 fault | finding |
| `tracking_checks` | GUI + 1 worker, budget 5, every reading but an ON re-read may raise, fair | TypeOK, VerifiedOffIsOff, RetriesEnd, OwedIsCarriedOut, TerrestrialEndsOff |
| `tracking_open` | GUI + 1 worker, nothing raises | finding |
| `motion_checks` | 2 axis workflows + the Mount panel, 3 claims, 2 moves each, fair | TypeOK, OneMotion, LatchIsOwnStop, StopNotLost, StoppedMovesNoMore, StoppedMotionEnds, the refinement of AbstractMotion |
| `motion_park` | the Mount panel | finding |
| `focuser_stop` | 2 movers, 2 workers, 3 moves, 3 passes, late stops, no move obliged to end | TypeOK, SingleWorker, StopNotLost, StopSentBeforeRelease, StopServed |
| `focuser_later` | 1 mover, 1 move | finding |
| `align_checks` | 2 cameras, 2 attempts, 2 operator's commands, one other workflow, fair | TypeOK, EvidenceOfOwnPulse, HomeWhenSaid, ExposureHeld, NothingAfterStop, RunEnds |
| `components` | 17 parts, one at a time, fair | TypesOK, DevicesReleased, FreshInTime, OneMover, LeftAsReported, SettledAsSaid, StreamCut, OffersAgree, EverythingEnds |
| `autofocus_approach` | star mode, one run | finding |

The bounds suffice for the cases the properties are about: two movers and three
generations give an old, a covered and a later move; two sessions a stale
client; the focuser's three passes are the code's; a budget of five lets the
worker and the GUI run a check each with a mode switch on either side of it;
three claims give a stopped motion, its successor and a competitor. Mount Align
has one camera whose fractions lie in the band or twice above it, and one in the
band or below, so that retries, a wide-camera group and a way back all happen,
and two commands, so that a Stop, a mode change or a disconnection meets a run
in any phase. In `components`: three adapters and two streams (a switch and
its way back, an old thread beside a new one); exposures of one and two ticks
changed under a wait; a search of three steps with a bound on each side; two
probes a leg, three iterations and two reacquisitions of the star, so that a recentring
follows one that was cut short; two workers, two opens and three operations on
the connection; three slot changes; four tokens with nesting,
both quotation marks, one in a quotation of the other, and both kinds of ends; two
sessions of the settings, of whose two cameras any are there at a start; two
applications, two bundles and one place for them, at three times of which two make a
bundle old. Every property has a mutant (defined in the module
beside the action it mutates) that TLC finds violated.

What the nine names of `components` join:

| property | of which modules |
|---|---|
| TypesOK | the type invariant and limits of every part but the parser (EquipmentTypeOK for the parts of `Equipment`) |
| DevicesReleased | `CameraPanel!CamerasReleased`, `OnStepConnection!ClientShared` |
| FreshInTime | `Acquisition!EvidenceFresh`, `WaitBounded` |
| OneMover | `Autofocus!OneMover`, `ParkPanel!OneParkCall`, `GuideTool!PulsesJustified`, `FineCollimation!AtMostOneLate` |
| LeftAsReported | `Autofocus!LeftAsReported`, `ParkPanel!UnparkEnforced`, `GuidePulse!VerdictTruthful`, `MovedAsReported`, `OnStepConnection!AnswersHonest` |
| SettledAsSaid | `FilterWheel!SettledAsSaid`, `Diagnostics!NewestKept`, `PullReported`, `Settings!Remembered` |
| StreamCut | `IndiParser!ParserTypeOK`, `CutAsSent` |
| OffersAgree | `MainWindow!WindowConsistent`, `AlignPositioning!MovesAsAsked`, `ButtonsTruthful`, `Collimation!PausedKnowsWhere`, `AdviceReduces`, `AnalysedInOrder` |
| EverythingEnds | a stream thread, an autofocus, a fine-collimation run, a park, a guiding stop, a guide pulse, an operation on the connection (`Equipment`'s AtWork); a slot change, a correction of the exposure |

`CHECK_DEADLOCK FALSE` for `TrackingEnforcer`, `FocuserAdapter`, `MountAlign`
and `MCComponents`: when the budget of operations is spent and nothing is owed,
the system rests.

### Fairness

Worker threads that are not blocked run on (weak fairness of each worker's
step); `OnStepAdapter`'s calls have deadlines, so an operation of another shim
ends and a move fails if it does not arrive. In `MountMotion` waiting for
`operation_lock` is strongly fair: the holders are bounded operations of a
handful of threads. Nobody is obliged to press a button, and no axis to arrive.
`pulse_stop` assumes less still: only the stop worker and the issuing of a move.
In `MountAlign` and the panels of `components` the poll's timer fires while its
panel is connected, threads run and captures are bounded by their deadlines; the
poll of a fine-collimation run is strongly fair, because the operator's clicks
may always come first. The filter wheel's driver answers and the clock goes on.
`Acquisition` asks for no fairness: its waits are bounded by the clock itself.

## 4. Findings

Each is a run that expects a violation, with the quoted claim in
`PROJECT.json`:

- `pulse_later`: the first emergency stop of a pass is unconditional, so a stop
  thread scheduled late ends the operator's next GOTO;
- `tracking_open`: a stale astronomical answer opens a closed terrestrial gate;
- `motion_park`: a park queued for the connection is sent after the global Stop;
- `focuser_later`: the focuser's first stop of a pass is unconditional too, and
  cancels a move requested after the Stop;
- `autofocus_approach`: a climb in the final approach direction ends past its
  best position, and the last move goes back against that direction.

Limits of the code that the runs and the theorems exclude by an explicit
constant:

- `slowIssue`: a GOTO issued only after both confirmations of a pass moves on
  under a latched Stop (mount_pulse_adapter.py:318);
- `closeWhileMoving`: disconnecting the last shim leaves a GOTO moving with no
  client, and a Stop then sends nothing (:202, :289);
- `closeWhileStopping`: a Stop queued with a live worker goes to the client that
  worker was started with, which may be closed by then (:288);
- `LateStops` with a second session: the focuser's stop worker may outlast
  `disconnect()`, and a Stop of the next session is then queued with the closed
  client's focuser (focuser_adapter.py:275);
- `Raises` with `"onReread"`: a re-read that raises hides a tracking-ON that took
  effect, and a concurrent "off verified" stands (operating_mode.py:275-293);
- a tracking-off decided in terrestrial mode may be sent after the switch to
  astronomical mode (:238): no property claims the contrary;
- `LateReads`: a shim disconnected (on the GUI thread, which waits for nobody)
  while a worker's `decision_status` is reading it stores that reading after its
  reset, and answers with it in its next session (mount_park_adapter.py:45, :78),
  against "no stale carry-over into the next session";
- `Prompt` and `Reconnects`: a driver whose first answer comes after the grace,
  or a session whose client still keeps the vectors of the one before
  (client.py:86), may have an old Alert or slot taken for the answer
  (indi_filter_wheel_adapter.py:221-238);
- `Delayed`: frames exposed under earlier settings can make the exposure and the
  gain swing (auto_exposure.py:286-292);
- `ClockSteps`: with a wall clock set back the newest bundle is not the newest by
  its name, and the retention may remove it (service.py:407-440);
- `TornWrites`: the settings are rewritten in place, so a power loss during the
  write leaves neither the cameras' nor the alignment's tables
  (camera_settings.py:163-182);
- `QuickClicks`: a click that comes between a runner's outcome and the poll that
  takes it (up to 250 ms) finds the runner free.

Seen while modelling and claimed by no property:

- the global Stop ends a motion under the Mount Align run, which then submits its
  own way back; that claim re-arms the latch without a command of the operator
  (main_window.py:694, mount_test_move_panel.py:2259);
- a guide pulse stopped between the latch check and its first chunk was not sent,
  and reports that tracking is not off, which the pending Stop then turns off;
- a focuser move refused for a reason of its own while Cancel is pressed counts as
  stopped, and the focuser stays where it is (autofocus_search.py:423-429);
- an analysis under way when the camera is switched publishes afterwards, and is
  shown as the new camera's (camera_panel.py:588-602 drops only what is published);
- a copy of a bundle that broke off stays on the disk: the pull that made it says so,
  the next one returns it as the bundle (remote.py:102-111);
- an unpark queued for the connection is sent after the Stop that ended its own motion,
  against the runner's "nothing further is sent to the mount"; no move follows it
  (mount_test_move_runner.py:62-64, 520);
- the writes that turn a cooler off may be lost, which is only logged, so one may run
  on behind an unticked box, and behind the handle that `disconnect()` closes all the
  same, against its "never leave the cooler running unattended"
  (touptek_adapter.py:534-574, 711-718, 746);
- a syntax error in the tables the operator edits makes the next start forget the
  cameras too, and the first change then overwrites the remembered ones
  (camera_settings.py:88-92, 146-182);
- an exposure the camera refused stays shown, and is not saved until the next change
  (camera_panel.py:405-411);
- disconnecting and connecting the Mount panel forgets an action whose worker still
  runs; the executor's claim, not the panel, keeps a second one out
  (mount_park_panel.py:140-153);
- the guiding thread that outlives its ten-second join is forgotten and goes on
  when the next start clears the stop event (guide_controller.py:157-168);
- `_last_calibration_result` of the main window survives a change of camera,
  while its overlays do not (main_window.py:956-958).

## 5. Proofs

`MountPulseAdapter_proofs`: type correctness, `SingleWorker` and
`OneMoveInFlight` for every set of faults. `StopOwed` and `MovingIsInFlight`
under `OnlyRearm == Faults \subseteq {"rearmWhileMoving"}`; section 4 says what
the other faults do. `StopOwed` alone is not inductive: a GOTO that is
entered but not yet issued is covered by nothing it says. `StopInv` adds that
under a latched Stop such a move is in the range of a pass whose second look is
still to come (`EnteredIsCovered`), that a second stop is sent only once the
move in flight is issued, that workers and movers hold the live client, and
that a moving axis belongs to the numbered move in flight.

`TrackingEnforcer_proofs`: type correctness; `VerifiedOffIsOff` for any number
of workers under `OnRereadsAnswer` (no ON re-read raises, no `SlowSettle`). The strengthening says that while a thread is past
its OFF reading and the mount tracks again, either a tracking-ON check is still
to settle -- and will count a conflict -- or the count has already grown past
what the thread remembered.

`MountMotion_proofs`: type correctness, `OneMotion`, `LatchIsOwnStop` and
`StopNotLost` for any workflows; `StoppedMovesNoMore` and the refinement of `AbstractMotion` for the
axis workflows, whatever parks compete with them. `MotionInv` says that a busy worker works under the claim in flight, so
at most one is busy, and that the axis moves for that worker; `LatchInv` that
whatever is cancelled and in flight finds the latch up. `StopNotLost` needs
`StopInv`, which says the same already of the worker that owns the connection
and has not sent its move: the stop worker keeps what it owes until it finds no
covered move unsent.

`FocuserAdapter_proofs`: type correctness, `SingleWorker`, and
`StopSentBeforeRelease` for any number of passes: while `disconnect()` waits and
a second request is queued, fewer passes have ended than the first request has
had (`WaitedForFirst`), so the expiry finds the queue empty. `StopNotLost` under
`StopsInTime == ~LateStops`: a covered move that has not reached OnStepAdapter
has a pass left that comes after it has (`SendingIsCovered`: passes used, plus
confirmations the move may still need, stay below `MaxStopPasses`).

`MountLink_proofs`, of `GuidePulse`: type correctness, `VerdictTruthful` and `MovedAsReported` for
any number of pulses, chunks, moves and Stops. The first needs
`JoinedOrPressed`: a stop worker that is alive although the pulse has joined the
one it found was started by a Stop pressed since, so a verdict of "tracking" is
overtaken, not wrong. The second counts: the chunks issued are those of the
completed pulses and of the one under way (`ChunksCounted`). What OnStepAdapter
does around a chunk is an assumption of the module.

`MountLink_proofs`, of `OnStepConnection`: type correctness, `ClientShared` for any workers and
any number of sessions, and `AnswersHonest` under `ReadingsInTime == ~LateReads`.
The invariants: who operates or reads is the holder of the lock, and it is one
(`LockHeld`); a move that has been commanded is marked by its shim
(`MovesMarked`); a reading kept, or under way, belongs to the session its shim is
in (`ReadingsOwn`).

`MountAlign_proofs`: type correctness and `NothingAfterStop` for any cameras,
sizes, nudges, screen moves and number of attempts; `ExposureHeld`,
`EvidenceOfOwnPulse` and `HomeWhenSaid` under `ClicksAfterPoll == ~QuickClicks`
(section 4; with quick clicks TLC finds the last two violated). No one of them is
inductive. `NothingAfterStop` needs that a stopped panel has no run left.
`OneAtATime` says that a sequence, its outcome, a capture and a nudge's check
exclude each other, and that whatever the panel waits for is at one of them.
`EvidenceInv` says where the mount stood at every view: a reference is good until
a sequence is commanded, a finished view shows where the mount is, and a move
under way began where its view before was taken. `NetInv` says that the run's net
is where the mount stands, and that what a failed pulse reports as sent is what it
moved. `PlanInv` says that the steps left bring the mount home from that net: a
queue is what is left of the plan, behind the ways back and wide-camera groups of
a closed group, which together lead home; a retried probe leaves an offset only on
the axis it is at, which the close of its group takes back. So an abort need only
send one axis back, and `HomeInv` follows that sequence to its report. The lemmas on
the arithmetic of a way back (equal moves, none above the cap, together the whole
distance) are proved for all integers.

`Equipment_proofs`: `EquipmentTypeOK`, `DevicesReleased`, `FreshInTime`, `OneMover`
and `LeftAsReported` for `EquipmentSpec`, that is for any cameras,
exposure times, envelope, retries, samples and workers that satisfy
`EquipmentAssumption` (numbers where the code has numbers, a first position inside
the focuser's range). `LeftAsReported` is under `ReadingsInTime` as above. The
parts share nothing there, so `EquipmentInv` is one invariant for each part
that may act, and a step of one leaves the others' alone. For the pulse and the
connection these are the invariants above. The others:

- `CamInv` (`CameraPanel`): whatever fails in an open, a switch or a close, only
  the adapter the panel shows has an open handle, a cooler that was switched on runs
  behind it and is shown as cooling unless a later call to stop it was lost, and
  after quitting nothing is open (`Owned`); every stream thread works for one of
  the adapters;
- `AcqInv` (`Acquisition`): a frame in the mailbox was exposed no earlier than its
  stamp less its exposure time says (`Stamped`), so a frame that is accepted began
  after the motion's end and after the one before it was taken (`Witnessed`); a
  wait has budgeted for every exposure it knows of, up to the cap (`Patient`);
- `FocInv` (`Autofocus`): what each leg of the search knows, as a relation of the
  run's record and the focuser's position (`Searching`): the best position and the
  current one are in the envelope around the start, and what is left of a path
  leads to the position the status will be about; so a run that is done stands
  where its status says (`Settled`). With it `ExposureInv`: a lowered exposure is
  queued back before the run is done; and `FocusPanelInv`: no button is enabled and
  no jog moves beside a run;
- `FineInv` (`FineCollimation`): a claim is held only while the run brings the star
  back (`Claimed`), and a move counted as late went out after a check that came
  before the click, so no other follows it (`Checked`);
- `ParkInv` (`ParkPanel`) and `GuideInv` (`GuideTool`): the call of the panel is
  the one its transition waits for, and an unpark that succeeded has applied the
  policy; a pulse goes out only in the pass whose frame showed the star off its
  target, in a run that measured a frame before.

The proof of `FineInv` found two faults of the model, which its run had been too
small to show. The count of late commands was not reset when a recentring ended by
a change of mode or a lost claim alone, so the second one of a run
(`Reacquisitions = 2`, three samples) could count two; it now starts anew with
each `Return` that no Cancel precedes. And two arms of a `CASE` overlapped, which left
its value to `CHOOSE`.

`Components_proofs`: `TypesOK`, `OffersAgree`, `DevicesReleased`, `FreshInTime` and
`OneMover` for `Components!Spec`, that is for any slots, cameras, calibrations,
applications, screws and limits that satisfy `EquipmentAssumption` and
`ComponentsAssumption`: limits are in order and positive where the code divides by
them, no slot is 0, a camera can be set to the default gain, and `Slack` covers the
rounding of two lengths. `SettledAsSaid` is proved under
`Undisturbed == Prompt /\ ~Reconnects /\ ~ClockSteps /\ ~TornWrites`, the
limits of section 4, each of which TLC finds to violate it when it is lifted.
`OfficeInv` is what each part keeps in any case, `KeptInv` what it needs besides:

- filter wheel, `WheelSteady`: while the client is up, either the command is on its
  way and nothing older can be taken for its answer (`Commanded`), or its answer is
  the k-th on the way, the Busy ones of a turning wheel only behind it
  (`AnswerComes`), or it has come and everything cached or on its way is of this
  command (`AnswerCame`). Before the first vector nothing has been asked
  (`Untouched`). `SettledAsSaid` says nothing of answers on their way, so it is
  far from inductive. `Prompt` enters in `AwaitsAnswer`: until the answer comes the
  grace is open, so an older Alert is not taken for it;
- main window, `WindowInv`: besides the agreement of the choices, that each panel is
  offered exactly what the other has not chosen, and that a calibration under way or
  shown is of the cameras it was started with;
- auto-exposure, `BrightnessInv`: exposure and gain, also those of the frame before,
  stay within the camera's limits, whatever slope is estimated;
- alignment moves, `PositionInv`: every plan is sized (`PlanSized`), and what it sends
  and skips makes the shift asked for up to the rounding of its two lengths; what it
  skips of an axis move is small beside the shift (`Meets`). The lemmas on rounding,
  on Cramer's rule for a matrix that responds differently in each direction, and on
  the squares that compare lengths are proved for all integers;
- diagnostics, `DiagnosticsInv`: one application writes a bundle, once, and until then
  it is named as it was made (`Unwritten`); a pulled copy ended well with its incident,
  or its last transfer was reported as failed. `NewestKept` needs that nothing is stamped ahead of the clock
  (`NothingAhead`), and an argument by counting: a bundle never gets fewer later ones
  and never gets younger, so what was removed rightly stays so (`StaysKept`,
  `KeptAgain`);
- settings, `SettingsInv`: two panels show the same camera only as the demo, so one
  panel's table never stands for the other's. Beside it `Remembered` is inductive as it stands, because
  `found` and `refused` tell what a panel shows from the file (`Known`);
- session and assistant, `SessionInv`, `AssistantInv`: what was learned of a screw is a
  multiple of what it does (`LearnedTrue`), from which an advised turn has a negative
  product with the error it was measured on; an analysis is of a frame that has come.

Only model-checked: all liveness (outside TLAPS's reach); `StreamCut`, because the scan
of the stream is a recursive function of its length, and what it computes for every
length is induction over data; and the findings. Nothing is proved about the fits
and the image measurements, which are left out of the models.

## 6. Not modelled

- image registration, focus and symmetry metrics, fits, optics: floating-point
  functions without a state of their own;
- widgets, layout, texts and overlay geometry; the event log, session context
  and frame recorder, which append to files; the upload of diagnostics;
- the vendored ToupTek module `toupcam.py`, and the readout modes and pixel
  formats of its adapter: the SDK is external, and what it is assumed to do is
  one handle per device, a flush that drops what was exposed before a trigger,
  and a capture that ends by a frame, an error or an abort;
- the XML parser itself, inside one element;
- a status read of the Mount panel that fails while its call runs or has ended: the
  poll shows it, leaves the disabled buttons and tries again (mount_park_panel.py:262);
- `focus_controller.py`, `run_auto_exposure` and GuideTool's calibration
  controller: no application calls them;
- simulators, fakes, scripts and `prove.py`: test doubles and tools, read as a
  reference for how the devices behave.

Simplifications a reader should know: the parts of `components` do not interact
there (their common ground is modelled in the mount's modules and
`OnStepConnection`); the callbacks of the GUI thread are atomic wherever they
do not wait; distances, exposures, sizes and lengths are small integers.
