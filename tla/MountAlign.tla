----------------------------- MODULE MountAlign -----------------------------
(***************************************************************************)
(* Mount Align: the panel with its 250 ms poll (ui/mount_test_move_panel), *)
(* the calibration run's queue, sizing and results (application/           *)
(* mount_align_sizing, mount_align_calibration, mount_align_capture,       *)
(* mount_align_plan, mount_align_guide), the capture threads and the move  *)
(* runner's thread (ui/mount_test_move_runner), over the executor that     *)
(* other workflows claim too.                                              *)
(*                                                                         *)
(* GUI callbacks (clicks, polls) are atomic steps; the two kinds of worker *)
(* thread interleave with them. A move's size is one number, whether the   *)
(* run counts arcseconds or guide milliseconds; a capture is the set of    *)
(* cameras that gave a measurement and where the mount then stood.         *)
(***************************************************************************)
EXTENDS Integers, Sequences, FiniteSets

CONSTANTS
  Cameras, Narrow,      \* the cameras; the one with the smallest field of view
  Floor, MinSize, MaxSize,  \* smallest move the mount takes; SizingPolicy's range
  FirstSize,            \* the seed of a run
  Nudges, ScreenMoves,  \* moves an arrow button may send; sequences of a screen move
  AbortCap,             \* settings.max_calibration_pulse_ms, the cap of an abort's return
  GuideMax,             \* longest single guide pulse
  MaxAttempts,          \* SizingPolicy.max_attempts
  Fractions,            \* displacements each camera may measure, in percent of its frame
  StartMode,            \* the operating mode the program comes up in
  Views,                \* the sets of cameras a capture may give a measurement of
  MaxEvents,            \* bound: the operator's commands, motions that nobody accounts for
  QuickClicks           \* TRUE: a click may come before the poll that takes an outcome

Axes == 1 .. 2
Moves == [axis : Axes, dir : {1, -1}, size : Nat \ {0}]

ASSUME SizesAssumption ==
  /\ {Floor, MinSize, MaxSize, FirstSize, AbortCap, GuideMax} \subseteq Nat \ {0}
  /\ Floor <= MinSize /\ MinSize <= FirstSize /\ FirstSize <= MaxSize
  /\ Nudges \subseteq Moves /\ ScreenMoves \subseteq Seq(Moves) \ {<<>>}
  /\ Views \subseteq SUBSET Cameras
  /\ Fractions \in [Cameras -> (SUBSET (0 .. 100)) \ {{}}]
ASSUME CamerasAssumption == Narrow \in Cameras /\ IsFiniteSet(Cameras) /\ "both" \notin Cameras
ASSUME BoundsAssumption ==
  /\ StartMode \in {"astronomical", "terrestrial"}
  /\ MaxAttempts \in Nat \ {0} /\ MaxEvents \in Nat /\ QuickClicks \in BOOLEAN

VARIABLES
  \* the panel
  connected, shown, mode, queue, pending, job, check, awaiting, paused, said,
  \* CalibrationSizing, CalibrationResults, VerifiedReference
  primitive, sized, size, attempt, net, failed, first, measured, calibration, reference,
  \* the runner, the executor, the shim's Stop latch
  worker, outcome, commanded, claim, latch, halted,
  \* the mount, from where the last run began: where it stands and, counted in drift, the
  \* motions that no accepted move of the panel accounts for
  pos, drift, events

panelVars == <<connected, shown, mode, queue, pending, job, check, awaiting, paused, said>>
runVars == <<primitive, sized, size, attempt, net, failed, first, measured, calibration, reference>>
runnerVars == <<worker, outcome, commanded, claim, latch, halted>>
ghostVars == <<pos, drift, events>>
vars == <<panelVars, runVars, runnerVars, ghostVars>>

Event == events < MaxEvents /\ events' = events + 1

NoMove == [kind |-> "none"]
NoJob == [phase |-> "none"]
NoWork == [at |-> "idle"]
NoOutcome == [pulsed |-> FALSE, sent |-> -1]
Failure(sent) == [pulsed |-> FALSE, sent |-> sent]
Success == [pulsed |-> TRUE, sent |-> 0]
NoReference == [mode |-> "none"]

Size(x) == IF x < 0 THEN -x ELSE x
Clamp(x) == IF x < MinSize THEN MinSize ELSE IF x > MaxSize THEN MaxSize ELSE x
Ceil(a, b) == (a + b - 1) \div b
Even(total, count) ==  \* equal parts, the first ones one longer
  [k \in 1 .. count |-> (total \div count) + (IF k <= total % count THEN 1 ELSE 0)]

-----------------------------------------------------------------------------
(* Plan and sizing.                                                          *)

Step(axis, dir, role, sz, cam) ==
  [axis |-> axis, dir |-> dir, role |-> role, size |-> sz, cam |-> cam]

\* + first, + repeat, - first, - repeat; size 0: the current size of its axis (axis 2 starts
\* from the size axis 1 was measured with, so one number serves both).
Group(axis, sz, cam) ==
  <<Step(axis, 1, "first", sz, cam), Step(axis, 1, "repeat", sz, cam),
    Step(axis, -1, "first", sz, cam), Step(axis, -1, "repeat", sz, cam)>>

CalibrationSteps == Group(1, 0, "both") \o Group(2, 0, "both")

StepSize(step) == IF step.size > 0 THEN step.size ELSE size

\* Whether a step's displacement sizes its axis.
IsProbe(step) ==
  sized /\ step.cam = "both" /\ step.size = 0 /\ step.dir = 1 /\ step.role = "first"

\* MUTANT (of DecideNext): an accepted probe is sized past the cap.
DecideUncapped(sz, f, att) ==
  IF f < 20 THEN [action |-> "retry", size |-> 2 * sz] ELSE [action |-> "accept", size |-> sz]

\* One verdict on a probe of size sz that moved the image by f percent.
DecideNext(sz, f, att) ==
  LET scaled == IF f = 0 THEN sz * 4 ELSE (sz * 25) \div f
      new == Clamp(IF scaled > 4 * sz THEN 4 * sz ELSE IF 4 * scaled < sz THEN sz \div 4 ELSE scaled)
  IN  IF f \in 20 .. 30 THEN [action |-> "accept", size |-> sz]
      ELSE IF new = sz
           THEN [action |-> IF f \in 10 .. 30 THEN "accept" ELSE "bounded", size |-> sz]
           ELSE IF att >= MaxAttempts
                THEN [action |-> IF f \in 10 .. 45 THEN "accept" ELSE "bounded", size |-> sz]
                ELSE [action |-> "retry", size |-> new]

Sights == {f \in [Cameras -> UNION {Fractions[c] : c \in Cameras}] :
             \A c \in Cameras : f[c] \in Fractions[c]}

\* What a camera that saw f percent of its frame at size sz needs.
PlanFollowup(sz, f) ==
  LET new == Clamp(IF f = 0 THEN MaxSize ELSE (sz * 25) \div f)
  IN  IF f >= 10 THEN [action |-> "accept", size |-> sz]
      ELSE IF f * new < 10 * sz THEN [action |-> "bounded", size |-> sz]
      ELSE [action |-> "retry", size |-> new]

\* The way back over `total`, in equal moves of at most the cap; nothing below the floor.
ReturnChunks(total, cap) ==
  IF total < Floor THEN <<>>
  ELSE Even(total, Ceil(total, IF cap < Floor THEN Floor ELSE cap))

Back(n) == IF n > 0 THEN -1 ELSE 1

\* The moves that take one axis back by its net.
AbortReturn(axis, n) ==
  LET back == ReturnChunks(Size(n[axis]), AbortCap)
  IN  [k \in DOMAIN back |-> [axis |-> axis, dir |-> Back(n[axis]), size |-> back[k]]]

\* MUTANT (of Accounted): a pulse is counted only in the positive direction.
AccountedPlusOnly(step, sz) ==
  [net EXCEPT ![step.axis] = IF step.dir > 0 THEN @ + sz ELSE @]

\* The run's net after a completed pulse of this step.
Accounted(step, sz) == [net EXCEPT ![step.axis] = @ + step.dir * sz]

-----------------------------------------------------------------------------
(* The runner.                                                               *)

Busy == worker.at # "idle"

\* MUTANT (of Submit): a sequence refused at once leaves no outcome.
SubmitRefusedSilently(seq, left) ==
  /\ halted' = "no"
  /\ IF claim # "none"
     THEN /\ outcome' = left.outcome /\ commanded' = left.commanded
          /\ UNCHANGED <<worker, claim, latch>>
     ELSE /\ worker' = [at |-> "sending", seq |-> seq, i |-> 1]
          /\ commanded' = TRUE /\ claim' = "align" /\ latch' = FALSE
          /\ outcome' = left.outcome

\* Hand a sequence over: refused at once while another workflow holds the executor (the
\* refusal is an outcome), else a worker starts and the Stop latch is re-armed. `left` is
\* the runner's outcome slot, and whether a sequence was commanded since the last reference.
Submit(seq, left) ==
  /\ halted' = "no"
  /\ IF claim # "none"
     THEN /\ outcome' = Failure(0) /\ commanded' = left.commanded
          /\ UNCHANGED <<worker, claim, latch>>
     ELSE /\ worker' = [at |-> "sending", seq |-> seq, i |-> 1]
          /\ commanded' = TRUE /\ claim' = "align" /\ latch' = FALSE
          /\ outcome' = left.outcome

NoSubmit(left) ==
  /\ outcome' = left.outcome /\ commanded' = left.commanded
  /\ UNCHANGED <<worker, claim, latch, halted>>

Untouched == [outcome |-> outcome, commanded |-> commanded]
Taken == [outcome |-> NoOutcome, commanded |-> commanded]

Current == worker.seq[worker.i]

\* One step reaches the mount: Stop not latched, connected, not below the mount's smallest move.
WorkerIssues ==
  /\ worker.at = "sending" /\ ~latch /\ connected /\ Current.size >= Floor
  /\ worker' = [worker EXCEPT !.at = "moving"]
  /\ UNCHANGED <<panelVars, runVars, outcome, commanded, claim, latch, halted, ghostVars>>

\* It is carried out in full; after the last one the sequence has succeeded.
WorkerMoves ==
  /\ worker.at = "moving"
  /\ pos' = [pos EXCEPT ![Current.axis] = @ + Current.dir * Current.size]
  /\ worker' = IF worker.i < Len(worker.seq)
               THEN [worker EXCEPT !.at = "sending", !.i = @ + 1]
               ELSE [at |-> "ending", result |-> Success]
  /\ UNCHANGED <<panelVars, runVars, outcome, commanded, claim, latch, halted,
                 drift, events>>

\* Nothing (more) is sent: a Stop, no fresh park state, an unpark that is not confirmed, the
\* tracking gate, a move below the mount's smallest, a lost connection.
WorkerRefuses ==
  /\ worker.at = "sending"
  /\ worker' = [at |-> "ending", result |-> Failure(0)]
  /\ UNCHANGED <<panelVars, runVars, outcome, commanded, claim, latch, halted, ghostVars>>

\* The guide milliseconds of the first k pulses of a move.
Sent(total, k) ==
  LET count == Ceil(total, GuideMax)
      long == total % count
  IN  k * (total \div count) + (IF k < long THEN k ELSE long)

\* A move fails on the way. A guide move reports the pulses that completed; of the pulse or
\* the axis move that failed the mount may have carried out a part that nobody counts.
WorkerFails ==
  /\ worker.at = "moving"
  /\ \E k \in 0 .. (IF primitive = "guide" THEN Ceil(Current.size, GuideMax) - 1 ELSE 0) :
       LET sent == Sent(Current.size, k) IN
       /\ pos' = [pos EXCEPT ![Current.axis] = @ + Current.dir * sent]
       /\ worker' = [at |-> "ending", result |-> Failure(sent)]
  /\ \/ UNCHANGED <<drift, events>>
     \/ Event /\ drift' = drift + 1
  /\ UNCHANGED <<panelVars, runVars, outcome, commanded, claim, latch, halted>>

\* The settle is over; the claim is released before the outcome is published.
WorkerReleases ==
  /\ worker.at = "ending"
  /\ worker' = [worker EXCEPT !.at = "released"] /\ claim' = "none"
  /\ UNCHANGED <<panelVars, runVars, outcome, commanded, latch, halted, ghostVars>>

WorkerPublishes ==
  /\ worker.at = "released"
  /\ outcome' = worker.result /\ worker' = NoWork
  /\ UNCHANGED <<panelVars, runVars, commanded, claim, latch, halted, ghostVars>>

-----------------------------------------------------------------------------
(* Pieces of the panel's callbacks.                                          *)

\* Every callback ends by enabling the buttons for what it left behind.
Refresh ==
  shown' = IF ~connected' THEN "off"
           ELSE IF worker'.at # "idle" \/ job' # NoJob THEN "busy" ELSE "ready"

\* A capture thread starts; it reads where the mount stands when its frames are taken.
Capture(phase, move) == [phase |-> phase, move |-> move, done |-> FALSE]

\* Stop the run and report; the axis it was at is sent back by its net (the other axis's
\* group is closed already). Sent without looking whether the runner took it.
Abort(axis, n, left) ==
  LET back == AbortReturn(axis, n)
  IN  /\ queue' = <<>> /\ pending' = NoMove /\ job' = NoJob
      /\ paused' = FALSE /\ said' = "failed"
      /\ awaiting' = (awaiting \/ back # <<>>)
      /\ IF back = <<>> \/ Busy THEN NoSubmit(left) ELSE Submit(back, left)

\* Submit the head of q; refused only while the runner is busy.
SubmitStep(q, before, n, left) ==
  LET step == Head(q)
      sz == StepSize(step)
  IN  IF Busy THEN Abort(step.axis, n, left)
      ELSE /\ queue' = Tail(q) /\ job' = NoJob
           /\ pending' = [kind |-> "calibration", step |-> step, size |-> sz, before |-> before]
           /\ Submit(<<[axis |-> step.axis, dir |-> step.dir, size |-> sz]>>, left)
           /\ UNCHANGED <<awaiting, paused, said>>

\* The matrices of the cameras measured on both axes, less those found degenerate.
Usable(bad) ==
  {c \in Cameras \ (failed' \cup bad) :
     measured'[c] = Axes}

FinishCalibration(left) ==
  /\ \E bad \in SUBSET Cameras :
       calibration' = [cams |-> Usable(bad), unit |-> primitive]
  /\ queue' = <<>> /\ pending' = NoMove /\ job' = NoJob
  /\ paused' = FALSE /\ said' = "calibrated" /\ awaiting' = awaiting
  /\ NoSubmit(left)

\* The next step of q: a way-back pulse goes out at once, a measured one after its "before"
\* capture; with none left the run is finished.
BeginStep(q, n, left) ==
  IF q = <<>> THEN FinishCalibration(left)
  ELSE /\ calibration' = calibration
       /\ IF Head(q).role = "return" THEN SubmitStep(q, <<>>, n, left)
          ELSE /\ queue' = q /\ pending' = NoMove
               /\ job' = Capture("before", NoMove)
               /\ NoSubmit(left) /\ UNCHANGED <<awaiting, paused, said>>

\* MUTANT (of CancelActivity): dropping the run leaves auto-exposure paused.
CancelHolding ==
  /\ queue' = <<>> /\ pending' = NoMove /\ job' = NoJob /\ check' = NoJob
  /\ awaiting' = FALSE /\ paused' = paused

\* Drop everything in flight; nothing is sent back.
CancelActivity ==
  /\ queue' = <<>> /\ pending' = NoMove /\ job' = NoJob /\ check' = NoJob
  /\ awaiting' = FALSE /\ paused' = FALSE

Running == queue # <<>> \/ pending # NoMove \/ job # NoJob

\* Cancel a nudge's background check; the exposure it held resumes.
CancelCheck == check' = NoJob /\ (paused' = IF check = NoJob THEN paused ELSE FALSE)

\* What Mount Align may move with: guide pulses only while astronomical (and then tracking).
Primitives == IF mode = "astronomical" THEN {"guide", "axis"} ELSE {"axis"}

Click ==
  /\ shown = "ready" /\ (QuickClicks \/ outcome = NoOutcome)
  /\ Event

-----------------------------------------------------------------------------
(* The operator.                                                             *)

Init ==
  /\ connected = FALSE /\ shown = "off" /\ mode = StartMode
  /\ queue = <<>> /\ pending = NoMove /\ job = NoJob /\ check = NoJob
  /\ awaiting = FALSE /\ paused = FALSE /\ said = "nothing"
  /\ primitive = "axis" /\ sized = FALSE
  /\ size = FirstSize /\ attempt = 1
  /\ net = [a \in Axes |-> 0] /\ failed = {}
  /\ first = {} /\ measured = [c \in Cameras |-> {}]
  /\ calibration = [cams |-> {}, unit |-> "axis"] /\ reference = NoReference
  /\ worker = NoWork /\ outcome = NoOutcome /\ commanded = FALSE
  /\ claim = "none" /\ latch = FALSE
  /\ pos = [a \in Axes |-> 0] /\ drift = 0
  /\ halted = "no" /\ events = 0

\* Connect and disconnect start and stop the poll; a run in progress is left as it is.
Connect ==
  /\ ~connected /\ connected' = TRUE
  /\ UNCHANGED <<mode, queue, pending, job, check, awaiting, paused, said, runVars, runnerVars,
                 ghostVars>>
  /\ Refresh

Disconnect ==
  /\ connected /\ connected' = FALSE /\ Event
  /\ UNCHANGED <<mode, queue, pending, job, check, awaiting, paused, said, runVars, runnerVars,
                 pos, drift>>
  /\ Refresh

\* Where the reference's view was taken, from where the new run begins.
Rebased ==
  IF reference = NoReference THEN reference
  ELSE [reference EXCEPT !.pos = [a \in Axes |-> @[a] - pos[a]], !.drift = @ - drift]

\* Run Calibration: with the optics known the run sizes its moves.
ClickCalibrate ==
  /\ Click
  /\ \E p \in Primitives : primitive' = p
  /\ sized' \in BOOLEAN
  /\ size' = FirstSize /\ attempt' = 1
  /\ net' = [a \in Axes |-> 0] /\ failed' = {}
  /\ first' = {} /\ measured' = [c \in Cameras |-> {}]
  /\ queue' = CalibrationSteps /\ job' = Capture("before", NoMove)
  /\ check' = NoJob /\ paused' = TRUE /\ said' = "running"
  /\ halted' = "no"
  /\ pos' = [a \in Axes |-> 0] /\ drift' = 0 /\ reference' = Rebased
  /\ UNCHANGED <<connected, mode, pending, awaiting, calibration, worker, outcome, commanded,
                 claim, latch>>
  /\ Refresh

\* MUTANT (of Reusable): the reference is good for as long as its mode is.
ReusableAnyway == reference # NoReference /\ reference.mode = mode

\* The view before a nudge: a verified one taken since the last commanded sequence (a minute
\* at most), or none.
Reusable == reference # NoReference /\ ~commanded /\ reference.mode = mode

\* A nudge of one camera: allowed uncalibrated, refused when its matrix is in the other unit.
ClickNudge ==
  /\ Click /\ ~Busy
  /\ \E p \in Primitives, cam \in Cameras, move \in Nudges, reuse \in BOOLEAN :
       /\ cam \in calibration.cams => calibration.unit = p
       /\ reuse => Reusable
       /\ primitive' = p
       /\ pending' = [kind |-> "nudge", move |-> move,
                      before |-> IF reuse THEN <<reference>> ELSE <<>>]
       /\ Submit(<<move>>, Untouched)
  /\ check' = NoJob /\ paused' = TRUE /\ said' = "moving"
  /\ UNCHANGED <<connected, mode, queue, job, awaiting, sized, size, attempt, net, failed, first,
                 measured, calibration, reference, pos, drift>>
  /\ Refresh

\* A screen move of a calibrated camera: one or both axes; no capture follows.
ClickScreenMove ==
  /\ Click /\ ~Busy
  /\ calibration.cams # {} /\ calibration.unit \in Primitives
  /\ primitive' = calibration.unit
  /\ \E seq \in ScreenMoves : Submit(seq, Untouched)
  /\ pending' = [kind |-> "screen"]
  /\ CancelCheck /\ said' = "moving"
  /\ UNCHANGED <<connected, mode, queue, job, awaiting, sized, size, attempt, net, failed, first,
                 measured, calibration, reference, pos, drift>>
  /\ Refresh

\* MUTANT (of StopAll): Stop ends the move in flight and leaves the run queued.
StopMoveOnly ==
  /\ latch' = TRUE /\ halted' = "panel"
  /\ UNCHANGED <<queue, pending, job, check, awaiting, paused, said>>
  /\ UNCHANGED <<worker, outcome, commanded, claim>>

\* Cancel the claim in flight and latch the shim's Stop; end the run if there is one.
StopAll ==
  /\ latch' = TRUE /\ halted' = "panel"
  /\ IF Running THEN CancelActivity /\ said' = "stopped"
     ELSE UNCHANGED <<queue, pending, job, awaiting, said>>
  /\ UNCHANGED <<worker, outcome, commanded, claim>>

ClickStop ==
  /\ shown = "busy" /\ Event
  /\ StopAll
  /\ UNCHANGED <<connected, mode, runVars, pos, drift>>
  /\ IF Running THEN Refresh ELSE UNCHANGED <<shown, check, paused>>

\* The global "Stop mount": only what holds the executor is stopped; the panel is not told.
ClickStopMount ==
  /\ claim # "none" /\ Event
  /\ latch' = TRUE /\ halted' = "mount"
  /\ UNCHANGED <<panelVars, runVars, worker, outcome, commanded, claim,
                 pos, drift>>

\* The operating mode changes: the nudge check is dropped, a run or a move is stopped.
ChangeMode ==
  /\ Event
  /\ mode' = IF mode = "astronomical" THEN "terrestrial" ELSE "astronomical"
  /\ UNCHANGED <<connected, runVars, pos, drift>>
  /\ IF Running \/ Busy
     THEN StopAll /\ (IF Running THEN TRUE ELSE CancelCheck)
     ELSE CancelCheck /\ UNCHANGED <<queue, pending, job, awaiting, said, runnerVars>>
  /\ Refresh

-----------------------------------------------------------------------------
(* Capture threads and the poll.                                             *)

Seen(cams) == [got |-> cams, pos |-> pos, drift |-> drift]

\* A capture ends: with the cameras that gave a stable fresh frame and could be measured,
\* none when tracking is wrong or a frame is missing, or with an error.
CaptureEnds ==
  /\ job # NoJob /\ ~job.done
  /\ \E cams \in Views, error \in BOOLEAN :
       job' = [phase |-> job.phase, move |-> job.move, done |-> TRUE, error |-> error,
               shot |-> Seen(IF error THEN {} ELSE cams)]
  /\ UNCHANGED <<connected, shown, mode, queue, pending, check, awaiting, paused, said,
                 runVars, runnerVars, ghostVars>>

CheckEnds ==
  /\ check # NoJob /\ ~check.done
  /\ \E cams \in Views, error \in BOOLEAN :
       check' = [phase |-> "check", move |-> check.move, done |-> TRUE, error |-> error,
                 shot |-> Seen(IF error THEN {} ELSE cams)]
  /\ UNCHANGED <<connected, shown, mode, queue, pending, job, awaiting, paused, said,
                 runVars, runnerVars, ghostVars>>

\* A verified capture becomes the reference of the next nudge, under the number of sequences
\* commanded so far.
Verified(shot) ==
  reference' = IF shot.got = {} THEN reference
               ELSE [pos |-> shot.pos, drift |-> shot.drift, mode |-> mode]

Captured(shot) == [outcome |-> outcome, commanded |-> commanded /\ shot.got = {}]

PollCheck ==
  /\ connected /\ check # NoJob /\ check.done
  /\ check' = NoJob /\ paused' = FALSE /\ Verified(check.shot) /\ NoSubmit(Captured(check.shot))
  /\ UNCHANGED <<connected, mode, queue, pending, job, awaiting, said, primitive, sized, size,
                 attempt, net, failed, first, measured, calibration, ghostVars>>
  /\ Refresh

PollCaptureError ==
  /\ connected /\ job # NoJob /\ job.done /\ job.error
  /\ CancelActivity /\ said' = "failed"
  /\ UNCHANGED <<connected, mode, runVars, runnerVars, ghostVars>>
  /\ Refresh

\* The view before a pulse: none means the run ends here.
PollBefore ==
  /\ connected /\ job.phase = "before" /\ job.done /\ ~job.error
  /\ Verified(job.shot)
  /\ IF job.shot.got = {} THEN Abort(Head(queue).axis, net, Captured(job.shot))
     ELSE SubmitStep(queue, job.shot, net, Captured(job.shot))
  /\ UNCHANGED <<connected, mode, check, primitive, sized, size, attempt, net, failed, first,
                 measured, calibration, ghostVars>>
  /\ Refresh

\* The displacement two views show is that of this one move, or something else moved the
\* mount between them.
OwnMove(move, before, after) ==
  before.drift = after.drift =>
    \A a \in Axes : after.pos[a] - before.pos[a] = IF a = move.axis THEN move.dir * move.size ELSE 0

\* FIRST is kept (one of an earlier direction is never asked for again); a REPEAT completes
\* its direction, and the positive one the axis.
Recorded(step, resp) ==
  IF step.role = "first" THEN first' = resp /\ UNCHANGED measured
  ELSE /\ first' = first \ resp
       /\ measured' = [c \in Cameras |-> IF c \in resp \cap first /\ step.dir = 1
                                         THEN measured[c] \cup {step.axis} ELSE measured[c]]

\* After the sized group of an axis: the way back of what discarded probes left, and a group
\* of its own for each camera that saw too little (f: what each one saw).
ClosesGroup(step) == sized /\ step.cam = "both" /\ step.dir = -1 /\ step.role = "repeat"

Judged(step, f) ==
  [c \in {c \in Cameras \ failed : step.axis \in measured'[c]} |->
     PlanFollowup(size, f[c])]

WayBack(step) ==
  LET chunks == ReturnChunks(Size(net[step.axis]), MaxSize)
  IN  [k \in DOMAIN chunks |-> Step(step.axis, Back(net[step.axis]), "return", chunks[k], "both")]

WideGroups(step, verdicts) ==
  LET wide == {c \in DOMAIN verdicts : verdicts[c].action = "retry"}
      of(c) == IF c \in wide THEN Group(step.axis, verdicts[c].size, c) ELSE <<>>
      other == CHOOSE c \in Cameras : c # Narrow \/ Cameras = {Narrow}
  IN  of(other) \o (IF other = Narrow THEN <<>> ELSE of(Narrow))

\* Cameras of this step that miss a view, plus those whose views do not match (unmatched).
Considered(step) == (IF step.cam = "both" THEN Cameras ELSE {step.cam}) \ failed
Unmeasured(step, unmatched) ==
  Considered(step) \cap
    (unmatched \cup (Cameras \ job.move.before.got) \cup (Cameras \ job.shot.got))

\* The camera whose displacement sizes the axis: the smallest field of view that measured.
Seed(resp) == IF Narrow \in resp THEN Narrow ELSE CHOOSE c \in resp : TRUE

\* No view after the pulse, or no camera left: the run ends.
AfterAborts(step, newFailed) ==
  /\ job.shot.got = {} \/ Cardinality(newFailed) >= 2
  /\ failed' = IF job.shot.got = {} THEN failed ELSE newFailed
  /\ Abort(step.axis, net, Captured(job.shot))
  /\ UNCHANGED <<size, attempt, first, measured, calibration>>

\* The probe was too small or too large: nothing of it is recorded, the step runs again.
AfterRetries(step, newFailed, verdict) ==
  /\ verdict.action = "retry" /\ failed' = newFailed
  /\ size' = verdict.size /\ attempt' = attempt + 1
  /\ UNCHANGED <<first, measured>>
  /\ BeginStep(<<step>> \o queue, net, Captured(job.shot))

\* Accepted (or its camera dropped): the attempts of the other axis are still to come; the
\* step is recorded and the run goes on, with the follow-ups of a closed group in front.
AfterRecords(step, newFailed, verdict, seed, f) ==
  LET bounded == IF verdict.action = "bounded" THEN seed ELSE {}
      now == newFailed \cup bounded
  IN  /\ verdict.action # "retry"
      /\ size' = size /\ attempt' = IF seed = {} THEN attempt ELSE 1
      /\ Recorded(step, Considered(step) \ now)
      /\ IF ClosesGroup(step)
         THEN LET verdicts == [c \in DOMAIN Judged(step, f) \ now |-> Judged(step, f)[c]]
              IN  /\ failed' = now \cup {c \in DOMAIN verdicts : verdicts[c].action = "bounded"}
                  /\ BeginStep(WayBack(step) \o WideGroups(step, verdicts) \o queue, net, Captured(job.shot))
         ELSE failed' = now /\ BeginStep(queue, net, Captured(job.shot))

\* The view after a pulse.
PollAfter ==
  /\ connected /\ job.phase = "after" /\ job.done /\ ~job.error
  /\ Verified(job.shot)
  /\ LET step == job.move.step IN
     \E unmatched \in SUBSET Considered(step) :
       LET newFailed == failed \cup Unmeasured(step, unmatched)
           resp == Considered(step) \ newFailed
           stops == job.shot.got = {} \/ Cardinality(newFailed) >= 2
       IN  \/ AfterAborts(step, newFailed)
           \/ /\ ~stops
              /\ \E f \in IF IsProbe(step) /\ resp # {} THEN Fractions[Seed(resp)] ELSE {25},
                    fs \in IF ClosesGroup(step) THEN Sights ELSE {[c \in Cameras |-> 25]} :
                   LET seed == IF IsProbe(step) /\ resp # {} THEN {Seed(resp)} ELSE {}
                       verdict == IF seed = {} THEN [action |-> "none", size |-> 0]
                                  ELSE DecideNext(job.move.size, f, attempt)
                   IN  \/ AfterRetries(step, newFailed, verdict)
                       \/ AfterRecords(step, newFailed, verdict, seed, fs)
  /\ UNCHANGED <<connected, mode, check, primitive, sized, net, ghostVars>>
  /\ Refresh

\* The outcome of a calibration pulse is taken: counted, tracking verified, and the view
\* after it requested (a way-back pulse has none).
Take(kind) == connected /\ job = NoJob /\ outcome # NoOutcome /\ pending.kind = kind

PollPulse ==
  /\ Take("calibration")
  /\ UNCHANGED <<connected, mode, check, primitive, sized, size, attempt, failed, first, measured,
                 reference, ghostVars>>
  /\ LET step == pending.step
         done == Accounted(step, pending.size)
         sent == Accounted(step, outcome.sent)
     IN  \/ /\ ~outcome.pulsed /\ net' = sent
            /\ Abort(step.axis, sent, Taken) /\ UNCHANGED calibration
         \/ /\ outcome.pulsed /\ net' = done   \* the mount no longer tracks as required
            /\ Abort(step.axis, done, Taken) /\ UNCHANGED calibration
         \/ /\ outcome.pulsed /\ net' = done /\ step.role = "return"
            /\ BeginStep(queue, done, Taken)
         \/ /\ outcome.pulsed /\ net' = done /\ step.role # "return"
            /\ job' = Capture("after", pending) /\ pending' = NoMove
            /\ NoSubmit(Taken)
            /\ UNCHANGED <<queue, awaiting, paused, said, calibration>>
  /\ Refresh

PollNudge ==
  /\ Take("nudge")
  /\ NoSubmit(Taken) /\ pending' = NoMove
  /\ IF outcome.pulsed
     THEN check' = Capture("check", pending) /\ said' = "done" /\ paused' = paused
     ELSE check' = check /\ said' = "failed" /\ paused' = FALSE
  /\ UNCHANGED <<connected, mode, queue, job, awaiting, runVars, ghostVars>>
  /\ Refresh

PollScreenMove ==
  /\ Take("screen")
  /\ NoSubmit(Taken) /\ pending' = NoMove
  /\ said' = IF outcome.pulsed THEN "done" ELSE "failed"
  /\ UNCHANGED <<connected, mode, queue, job, check, awaiting, paused, runVars, ghostVars>>
  /\ Refresh

\* No move is waiting for this outcome: it ends an abort's way back, or it is that of a
\* stopped run and goes unused.
PollReturn ==
  /\ Take("none")
  /\ NoSubmit(Taken) /\ awaiting' = FALSE
  /\ said' = IF ~awaiting THEN said ELSE IF outcome.pulsed THEN "returned" ELSE "unsure"
  /\ UNCHANGED <<connected, mode, queue, pending, job, check, paused, runVars, ghostVars>>
  /\ Refresh

\* A poll that finds nothing new only refreshes the buttons.
PollIdle ==
  /\ connected
  /\ UNCHANGED <<connected, mode, queue, pending, job, check, awaiting, paused, said, runVars,
                 runnerVars, ghostVars>>
  /\ Refresh /\ shown' # shown

-----------------------------------------------------------------------------
(* Other workflows on the same mount: the Mount panel, reacquisition.        *)

OtherClaims ==
  /\ claim = "none" /\ Event
  /\ claim' = "other" /\ latch' = FALSE
  /\ UNCHANGED <<panelVars, runVars, worker, outcome, commanded, halted, pos, drift>>

OtherReleases ==
  /\ claim = "other" /\ claim' = "none"
  /\ drift' = drift + 1
  /\ UNCHANGED <<panelVars, runVars, worker, outcome, commanded, latch, halted,
                 pos, events>>

-----------------------------------------------------------------------------
Poll == \/ PollCheck \/ PollCaptureError \/ PollBefore \/ PollAfter
        \/ PollPulse \/ PollNudge \/ PollScreenMove \/ PollReturn \/ PollIdle

Worker == \/ WorkerIssues \/ WorkerMoves \/ WorkerRefuses \/ WorkerFails
          \/ WorkerReleases \/ WorkerPublishes

Next ==
  \/ Connect \/ Disconnect \/ ClickCalibrate \/ ClickNudge \/ ClickScreenMove
  \/ ClickStop \/ ClickStopMount \/ ChangeMode
  \/ CaptureEnds \/ CheckEnds \/ Poll
  \/ Worker \/ OtherClaims \/ OtherReleases

\* The threads run, the captures are bounded by their deadlines and the poll timer fires
\* while connected; the operator owes nothing.
Fairness == WF_vars(Worker) /\ WF_vars(CaptureEnds) /\ WF_vars(CheckEnds) /\ WF_vars(Poll)

Spec == Init /\ [][Next]_vars /\ Fairness

-----------------------------------------------------------------------------
(* Properties.                                                               *)

\* Types of the panel's run, its captures and the runner's worker; step sizes within the sizing's
\* limits (movement_sizing.py).
TypeOK ==
  /\ {connected, awaiting, paused, sized, latch} \subseteq BOOLEAN
  /\ shown \in {"off", "ready", "busy"} /\ mode \in {"astronomical", "terrestrial"}
  /\ \A k \in DOMAIN queue : /\ queue[k].axis \in Axes /\ queue[k].dir \in {1, -1}
                              /\ queue[k].role \in {"first", "repeat", "return"}
                              /\ queue[k].size \in 0 .. MaxSize
                              /\ queue[k].cam \in Cameras \cup {"both"}
  /\ pending.kind \in {"none", "calibration", "nudge", "screen"}
  /\ job.phase \in {"none", "before", "after"} /\ check.phase \in {"none", "check"}
  /\ primitive \in {"guide", "axis"} /\ size \in MinSize .. MaxSize
  /\ attempt \in 1 .. MaxAttempts /\ net \in [Axes -> Int]
  /\ failed \subseteq Cameras /\ first \subseteq Cameras
  /\ measured \in [Cameras -> SUBSET Axes]
  /\ calibration.cams \subseteq Cameras /\ calibration.unit \in {"guide", "axis"}
  /\ reference.mode \in {"none", "astronomical", "terrestrial"} /\ commanded \in BOOLEAN
  /\ worker.at \in {"idle", "sending", "moving", "ending", "released"}
  /\ worker.at \in {"sending", "moving"} => \A k \in DOMAIN worker.seq : worker.seq[k] \in Moves
  /\ outcome \in [pulsed : BOOLEAN, sent : Nat \cup {-1}]
  /\ claim \in {"none", "align", "other"}
  /\ pos \in [Axes -> Int] /\ drift \in 0 .. MaxEvents
  /\ halted \in {"no", "panel", "mount"} /\ events \in 0 .. MaxEvents

\* Every displacement the calibration records, and the one a nudge's background check judges,
\* is that of its own commanded move: the two views lie on the two sides of exactly that
\* move, at the size it was sent with -- whatever probes were discarded, moves refused or
\* stopped in between -- unless the mount was moved by something else between the views.
EvidenceOfOwnPulse ==
  /\ job.phase = "after" /\ job.done /\ job.shot.got # {} =>
       OwnMove([axis |-> job.move.step.axis, dir |-> job.move.step.dir, size |-> job.move.size],
               job.move.before, job.shot)
  /\ check # NoJob /\ check.done /\ check.shot.got # {} =>
       \A k \in DOMAIN check.move.before :
         OwnMove(check.move.move, check.move.before[k], check.shot)

\* When the panel says a run is calibrated, or that an aborted run's mount is back at its
\* start, it is: no axis is off by a move the mount could still make -- after retried probes,
\* wide-camera groups, guide pulses that failed half-way and refused steps -- unless some
\* motion no accepted move accounts for came in between.
HomeWhenSaid ==
  said \in {"calibrated", "returned"} /\ drift = 0 =>
    \A a \in Axes : Size(pos[a]) < Floor

\* Auto-exposure is held while a measurement depends on it and only as long as something will
\* still let it go, on every path out: failure, Stop, mode change, error, refused move.
ExposureHeld ==
  /\ paused => Running \/ check # NoJob
  /\ job # NoJob \/ check # NoJob \/ pending.kind \in {"calibration", "nudge"} => paused

\* A sequence is handed to the runner.
Submits == ~Busy /\ worker'.at = "sending"

\* After the panel's Stop (or a mode change) no move is handed to the runner until the
\* operator clicks again: no step, capture or way back of the stopped run carries on.
NothingAfterStop ==
  [][halted = "panel" /\ events' = events => ~Submits]_vars

\* A run, a nudge or a screen move ends, whatever its captures and moves answer, unless the
\* panel is disconnected (its poll then rests).
RunEnds == Running ~> (~Running \/ ~connected)
=============================================================================
