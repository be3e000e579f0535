--------------------------- MODULE FineCollimation ---------------------------
(***************************************************************************)
(* A fine-collimation run (ui/fine_collimation_panel.py, ui/               *)
(* fine_collimation_runner.py, application/fine_collimation_controller.py):*)
(* a worker collects samples of a star from Main's latest frames and, once *)
(* the star is lost, brings it back with the guide camera (application/    *)
(* star_acquisition.py): it calibrates guide pulses (guide_pulse_          *)
(* reacquisition.py) or uses the stored matrix, and recentres in a closed  *)
(* loop (recenter_policy.py) under a claim of the motion executor.         *)
(*                                                                         *)
(* A frame is what detection finds in it; positions are the star's distance*)
(* from its target; a fresh frame shows the distance after the last move   *)
(* (Acquisition). While the claim is stopped the shim refuses every move   *)
(* (MountPulseAdapter).                                                    *)
(***************************************************************************)
EXTENDS Integers

CONSTANTS
  Samples,         \* sample_count
  Tries,           \* max_attempts
  Misses,          \* max_full_frame_search_attempts
  Reacquisitions,  \* max_reacquisitions
  Legs,            \* the axis directions to calibrate, 4 in the code
  Probes,          \* len(probe_ms)
  Iterations,      \* max_iterations
  Diverging,       \* max_diverge_count
  Fine, Rough,     \* fine_tolerance_px, rough_tolerance_px
  Far              \* bound: the largest distance

VARIABLES
  running,   \* the panel waits for an outcome
  cancel,    \* the runner's cancel event
  aborting,  \* the panel's Cancel has yet to reach the executor
  outcome,   \* the outcome to show, "none" if there is none
  closed,    \* the window is closed
  run,       \* the worker
  claim,     \* its claim of the executor: "none", "held", "stopped"
  mode,      \* the operating mode
  latest,    \* what Main's latest frame shows
  dist,      \* the star's distance from its target
  late       \* moves commanded since the run was to stop (history)

fineVars == <<running, cancel, aborting, outcome, closed, run, claim, mode, latest, dist, late>>
gui == <<running, cancel, aborting, outcome, closed>>
scene == <<mode, latest>>

Resting ==
  [at |-> "idle", samples |-> 0, tries |-> 0, misses |-> 0, selected |-> FALSE, reacquired |-> 0,
   pulses |-> FALSE, why |-> "loop", leg |-> 0, probe |-> 0, loops |-> 0, prev |-> -1,
   diverged |-> 0, steps |-> 0]

FineInit ==
  /\ running = FALSE /\ cancel = FALSE /\ aborting = FALSE /\ outcome = "none" /\ closed = FALSE
  /\ run = Resting /\ claim = "none" /\ mode \in {"terrestrial", "astronomical"}
  /\ latest = "none" /\ dist = Far /\ late = 0

\* What the checks between two moves look at: the runner's cancel event, the claim, and for
\* guide pulses the mode.
ModeLeft == run.pulses /\ mode # "astronomical"
MustStop == cancel \/ claim = "stopped" \/ ModeLeft

-----------------------------------------------------------------------------
(* The GUI thread and the surroundings.                                      *)

\* Run: unless the measurement gate or the missing frame forbids it, or a run is on.
RunClicked ==
  /\ ~closed /\ ~running /\ ~aborting /\ latest # "none" /\ run.at = "idle"
  /\ running' = TRUE /\ cancel' = FALSE
  /\ run' = [Resting EXCEPT !.at = "sampling"] /\ late' = 0
  /\ UNCHANGED <<aborting, outcome, closed, claim, scene, dist>>

\* Cancel, and closing the window: the event first, then the executor's abort.
CancelClicked(leaving) ==
  /\ ~closed /\ ~aborting /\ (running \/ leaving)
  /\ cancel' = (cancel \/ running) /\ aborting' = running /\ closed' = leaving
  /\ UNCHANGED <<running, outcome, run, claim, scene, dist, late>>

StopClaim == claim' = IF claim = "held" THEN "stopped" ELSE claim

AbortReached ==
  /\ aborting /\ aborting' = FALSE /\ StopClaim
  /\ UNCHANGED <<running, cancel, outcome, closed, run, scene, dist, late>>

\* The main window's Stop mount.
StopMount ==
  /\ claim = "held" /\ ~aborting /\ StopClaim
  /\ UNCHANGED <<gui, run, scene, dist, late>>

\* The poll takes the outcome and shows it.
PollRun ==
  /\ ~closed /\ ~aborting /\ outcome # "none"
  /\ outcome' = "none" /\ running' = FALSE
  /\ UNCHANGED <<cancel, aborting, closed, run, claim, scene, dist, late>>

SwitchMode ==
  /\ ~closed /\ ~aborting /\ mode' \in {"terrestrial", "astronomical"} \ {mode}
  /\ UNCHANGED <<gui, run, claim, latest, dist>>
  /\ late' = IF MustStop' THEN late ELSE 0

\* Main delivers a frame: one candidate, several alike, or none.
MainFrame ==
  /\ latest' \in {"star", "alike", "nothing"} \ {latest}
  /\ UNCHANGED <<gui, run, claim, mode, dist, late>>

-----------------------------------------------------------------------------
(* The worker: sampling.                                                     *)

\* The operation ends with an outcome, published with the end of the run.
End(result) ==
  /\ outcome' = result /\ run' = Resting /\ claim' = "none"
  /\ UNCHANGED <<running, cancel, aborting, closed, scene, dist, late>>

Go(next) ==
  /\ run' = next
  /\ UNCHANGED <<gui, claim, scene, dist, late>>

\* One frame: the first selects the star; later ones are searched for it, and it counts as
\* lost when it was missed Misses times in a row.
Look(tried) ==
  LET seen == [tried EXCEPT !.selected = TRUE]
  IN  \/ latest = "none" /\ IF tried.tries >= Tries THEN End("failed") ELSE Go(tried)
      \/ latest = "star" /\ Go([seen EXCEPT !.samples = @ + 1, !.misses = 0])
      \/ /\ latest = "alike"        \* select_target takes the best one; a resolution does not
         /\ Go(IF run.selected THEN seen ELSE [seen EXCEPT !.samples = @ + 1])
      \/ latest = "nothing" /\ ~run.selected /\ End("failed")
      \/ /\ latest = "nothing" /\ run.selected
         /\ IF run.misses + 1 < Misses THEN Go([seen EXCEPT !.misses = @ + 1])
            ELSE IF run.reacquired < Reacquisitions
              THEN Go([seen EXCEPT !.misses = @ + 1, !.reacquired = @ + 1, !.at = "deciding"])
            ELSE End("failed")

Sample ==
  /\ run.at = "sampling"
  /\ \/ run.samples >= Samples /\ Go([run EXCEPT !.at = "building"])
     \/ run.samples < Samples /\ cancel /\ End("cancelled")
     \/ /\ run.samples < Samples /\ ~cancel
        /\ IF run.tries >= Tries THEN End("failed") ELSE Look([run EXCEPT !.tries = @ + 1])

\* Registration and stacking find usable frames, or not.
Build == run.at = "building" /\ \E r \in {"success", "failed"} : End(r)

-----------------------------------------------------------------------------
(* The worker: bringing the star back.                                       *)

\* Angular moves unless the mount tracks in astronomical mode; then guide pulses, if it can.
\* What misses ends the run: tracking unknown, no calibration, the star ambiguous or not found
\* in the guide frame, too little confidence, no source of fresh frames.
Decide ==
  /\ run.at = "deciding"
  /\ \/ End("failed")
     \/ Go([run EXCEPT !.at = "claiming", !.pulses = FALSE])
     \/ mode = "astronomical" /\ Go([run EXCEPT !.at = "claiming", !.pulses = TRUE])

\* The executor's claim, which re-arms the shim's Stop; the guide pulses are calibrated first.
Claim ==
  /\ run.at = "claiming"
  /\ \/ End("failed")
     \/ /\ claim' = "held"
        /\ run' = IF run.pulses THEN [run EXCEPT !.at = "measuring", !.why = "before", !.leg = 1]
                  ELSE [run EXCEPT !.at = "looping", !.loops = 0]
        /\ UNCHANGED <<gui, scene, dist, late>>

Cancelled == End(IF ModeLeft THEN "failed" ELSE "cancelled")

\* The top of the closed loop.
Loop ==
  /\ run.at = "looping"
  /\ \/ run.loops >= Iterations /\ Go([run EXCEPT !.at = "measuring", !.why = "final"])
     \/ run.loops < Iterations /\ MustStop /\ Cancelled
     \/ /\ run.loops < Iterations /\ ~MustStop
        /\ Go([run EXCEPT !.at = "measuring", !.why = "loop", !.loops = @ + 1])

\* No fresh frame, or the star is not in it. The last measurement does not tell a cancelled
\* wait from a late one.
MeasureFails ==
  /\ run.at = "measuring"
  /\ End("failed") \/ (MustStop /\ run.why # "final" /\ Cancelled)

Probe(leg, n) == [run EXCEPT !.at = "checking", !.why = "probe", !.leg = leg, !.probe = n]

MeasureBefore ==
  /\ run.at = "measuring" /\ run.why = "before"
  /\ Go(Probe(run.leg, 1))

\* The pulse so far moved the star far enough, or the next probe is due -- if there is one
\* that stays within the tracker's reach. The last leg completes the matrix, unless its axes
\* are nearly parallel.
MeasureAfter ==
  /\ run.at = "measuring" /\ run.why = "after"
  /\ \/ run.leg < Legs /\ Go([run EXCEPT !.why = "before", !.leg = @ + 1])
     \/ run.leg = Legs /\ Go([run EXCEPT !.at = "looping"])
     \/ run.probe < Probes /\ Go(Probe(run.leg, run.probe + 1))
     \/ End("failed")

Returned == Go([run EXCEPT !.at = "returning"])

\* How often the distance grew, each improvement taking one back.
Diverged(d) == IF d > run.prev THEN run.diverged + 1 ELSE IF run.diverged = 0 THEN 0 ELSE run.diverged - 1

\* The steps of one correction: a move or a pulse for each axis that needs one.
Planned == 1 .. 2

\* Close enough; diverging; a correction below the mount's smallest move is as good as close
\* where the rest is small; or one step for each axis that needs one.
MeasureLoop ==
  /\ run.at = "measuring" /\ run.why = "loop"
  /\ LET n == IF run.prev < 0 THEN 0 ELSE Diverged(dist)
     IN  \/ dist <= Fine /\ Returned
         \/ dist > Fine /\ n >= Diverging /\ End("failed")
         \/ dist > Fine /\ n < Diverging /\ Returned
         \/ dist > Rough /\ n < Diverging /\ End("failed")
         \/ /\ dist > Fine /\ n < Diverging
            /\ \E s \in Planned :
                 Go([run EXCEPT !.at = "checking", !.why = "step", !.steps = s,
                                !.prev = dist, !.diverged = n])

\* After the last iteration a rough result will do.
MeasureFinal ==
  /\ run.at = "measuring" /\ run.why = "final"
  /\ IF dist <= Rough THEN Returned ELSE End("failed")

\* MUTANT (of Check): a correction is checked once, not before each of its steps.
CheckOnce ==
  /\ run.at = "checking"
  /\ IF MustStop /\ ~(run.why = "step" /\ run.steps = 1) THEN Cancelled
     ELSE Go([run EXCEPT !.at = "sending"])

Check ==
  /\ run.at = "checking"
  /\ IF MustStop THEN Cancelled ELSE Go([run EXCEPT !.at = "sending"])

\* One guide pulse or angular move. A stopped claim's move is refused by the shim: the loop
\* calls that cancelled, the calibration rejected.
Send ==
  /\ run.at = "sending"
  /\ IF claim = "stopped"
       THEN IF run.why = "probe" THEN End("failed") ELSE Cancelled
       ELSE \/ End("failed")
            \/ /\ late' = IF MustStop THEN late + 1 ELSE late
               /\ dist' \in 0 .. Far
               /\ run' = CASE run.why = "probe" -> [run EXCEPT !.at = "measuring", !.why = "after"]
                           [] run.why = "step" /\ run.steps > 1 ->
                                [run EXCEPT !.at = "checking", !.steps = @ - 1]
                           [] OTHER -> [run EXCEPT !.at = "looping", !.steps = 0]
               /\ UNCHANGED <<gui, claim, scene>>

\* Back in Main: the claim is given back, and the star has to be in the latest frame, alone.
\* The run goes on; what stopped the claim or forbade its pulses ends with it.
Return ==
  /\ run.at = "returning"
  /\ \/ latest # "star" /\ End("failed")
     \/ /\ latest = "star"
        /\ run' = [Resting EXCEPT !.at = "sampling", !.samples = run.samples + 1,
                     !.tries = run.tries, !.selected = TRUE, !.reacquired = run.reacquired]
        /\ claim' = "none" /\ late' = IF cancel THEN late ELSE 0
        /\ UNCHANGED <<gui, scene, dist>>

-----------------------------------------------------------------------------
Measure == MeasureFails \/ MeasureBefore \/ MeasureAfter \/ MeasureLoop \/ MeasureFinal
FineWorker == Sample \/ Build \/ Decide \/ Claim \/ Loop \/ Measure \/ Check \/ Send \/ Return

FineNext ==
  \/ RunClicked \/ (\E leaving \in BOOLEAN : CancelClicked(leaving)) \/ AbortReached \/ StopMount
  \/ PollRun \/ SwitchMode \/ MainFrame \/ FineWorker

\* A callback runs to its end, and the poll's timer is served however often the operator clicks.
FineFairness == WF_fineVars(FineWorker) /\ WF_fineVars(AbortReached) /\ SF_fineVars(PollRun)

FineSpec == FineInit /\ [][FineNext]_fineVars /\ FineFairness

\* Types and counters of a run (fine_collimation_controller.py, recenter_policy.py).
FineTypeOK ==
  /\ {running, cancel, aborting, closed} \subseteq BOOLEAN
  /\ outcome \in {"none", "success", "failed", "cancelled"} /\ claim \in {"none", "held", "stopped"}
  /\ run.samples \in 0 .. Samples /\ run.tries \in 0 .. Tries /\ run.loops \in 0 .. Iterations
  /\ dist \in 0 .. Far /\ (run.at = "idle" => claim = "none")

\* Once the run is to stop -- Cancel, Stop mount, or astronomical mode left under its guide
\* pulses -- at most the one move goes out that was already past its check, whatever the
\* calibration or the correction still has planned.
AtMostOneLate == late <= 1

\* A run goes on, or has an outcome that an open window does not show.
RunUnanswered == running /\ ~(closed /\ run.at = "idle")
=============================================================================
