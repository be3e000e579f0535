------------------------------ MODULE Autofocus ------------------------------
(***************************************************************************)
(* The focuser panel (ui/focuser_panel.py) with its jog and its autofocus: *)
(* the controller's exposure steps and searches (autofocus_controller.py,  *)
(* autofocus_search.py), run on a worker by operation_lifecycle.py and     *)
(* autofocus_runner.py.                                                    *)
(*                                                                         *)
(* A sample is a value of Values, the smaller the sharper (for the         *)
(* terrestrial metric read it upside down), Invalid or None. What a        *)
(* position measures is left open. The focuser is the OnStep shim, whose   *)
(* move_absolute returns once there, or refuses. Positions are steps.      *)
(***************************************************************************)
EXTENDS Integers, Sequences

CONSTANTS
  Coarse, Fine,    \* coarse_step, fine_step
  Envelope, Limit, \* the envelope around the start, the device's maximum
  Start,           \* where the focuser is at first
  MaxSteps,        \* max_coarse_steps
  MaxNoImprove,    \* max_consecutive_no_improve
  MaxAttempts,     \* max_exposure_attempts
  Brightest,       \* the exposure at first; 1 is the shortest
  Modes,           \* AutofocusMode
  MaxJogs, MaxRuns \* bounds

VARIABLES
  position,         \* the focuser
  moved,            \* the direction of the run's last move (history)
  connected, inFlight, seenBusy, enabled, afRunning,  \* the panel; its In/Out buttons
  jog,              \* the jog's worker
  cancel,           \* the autofocus run's cancel event
  exposure, queued, \* the camera panel's exposure, changes queued to the GUI thread
  aePaused,         \* auto exposure held
  w,                \* the autofocus worker
  jogs, runs        \* bounds

panelVars == <<connected, inFlight, seenBusy, enabled, afRunning, jog, jogs>>
exposureVars == <<exposure, queued, aePaused>>
afVars == <<position, moved, panelVars, cancel, exposureVars, w, runs>>

FinalDir == 1      \* final_approach_direction, as the panel leaves it
Values == 1 .. 2
None == 0
Invalid == -1
Curve == {"success", "limit", "inconsistent"}    \* _CURVE_STATUSES
NoRun == [at |-> "idle", mode |-> "star", path |-> <<>>, then |-> "none", moving |-> FALSE,
          quiet |-> FALSE, aborting |-> FALSE, sampled |-> FALSE, refused |-> FALSE,
          start |-> 0, startV |-> 0, best |-> 0, bestV |-> 0, dir |-> 0, step |-> 0, k |-> 0,
          misses |-> 0, climbs |-> 0, saturated |-> FALSE,
          status |-> "none", before |-> 0, attempts |-> 0, lowered |-> FALSE]

MinOf(a, b) == IF a < b THEN a ELSE b
MaxOf(a, b) == IF a > b THEN a ELSE b
Sign(n) == IF n > 0 THEN 1 ELSE IF n < 0 THEN -1 ELSE 0

\* MUTANT (of Clamp): the device's own limits are forgotten.
ClampEnvelope(p) == MinOf(w.start + Envelope, MaxOf(w.start - Envelope, p))

\* The device's limits and the envelope around the start.
Clamp(p) == MinOf(MinOf(Limit, w.start + Envelope), MaxOf(MaxOf(0, w.start - Envelope), p))

\* The In and Out buttons, where the panel updates them.
Buttons(isConnected, flight, running) ==
  isConnected /\ ~flight /\ ~running /\ jog = "idle" /\ ~w.moving

-----------------------------------------------------------------------------
(* The panel.                                                                *)

FInit ==
  /\ position = Start /\ moved = 0
  /\ connected = FALSE /\ inFlight = FALSE /\ seenBusy = FALSE /\ enabled = FALSE
  /\ afRunning = FALSE /\ jog = "idle" /\ jogs = 0
  /\ cancel = FALSE /\ exposure = Brightest /\ queued = <<>> /\ aePaused = FALSE
  /\ w = NoRun /\ runs = 0

\* The device is opened; a run of the session before may still be going on.
Connect ==
  /\ ~connected /\ connected' = TRUE /\ inFlight' = FALSE /\ seenBusy' = FALSE
  /\ enabled' = Buttons(TRUE, FALSE, afRunning)
  /\ UNCHANGED <<position, moved, afRunning, jog, jogs, cancel, exposureVars, w, runs>>

\* The device is released; a run is not cancelled, its moves are refused from here on.
Disconnect ==
  /\ connected /\ connected' = FALSE /\ inFlight' = FALSE /\ enabled' = FALSE
  /\ seenBusy' = FALSE
  /\ UNCHANGED <<position, moved, afRunning, jog, jogs, cancel, exposureVars, w, runs>>

\* In or Out: a move on a worker of its own, never while one is still ending.
Jog ==
  /\ enabled /\ jog = "idle" /\ jogs < MaxJogs
  /\ inFlight' = TRUE /\ seenBusy' = FALSE /\ enabled' = FALSE
  /\ jog' = "moving" /\ jogs' = jogs + 1
  /\ UNCHANGED <<position, moved, connected, afRunning, cancel, exposureVars, w, runs>>

\* The jog's move ends, or is refused.
JogEnds ==
  /\ jog = "moving" /\ jog' = "idle"
  /\ \E p \in {position, MaxOf(0, position - 1), MinOf(Limit, position + 1)} :
       position' = p
  /\ UNCHANGED <<moved, connected, inFlight, seenBusy, enabled, afRunning, jogs, cancel, exposureVars,
                 w, runs>>

\* A status poll: busy and idle again confirms the move, the time-out gives it up, whatever was
\* read (what was seen of a move counts only while it is in flight). A failed read disables the
\* buttons.
PollStatus ==
  /\ connected
  /\ \E failed, late \in BOOLEAN :
       LET busy == jog = "moving" \/ w.moving
           seen == seenBusy \/ (~failed /\ busy)
           over == (~failed /\ ~busy /\ seen) \/ late
       IN  /\ inFlight' = (inFlight /\ ~over)
           /\ seenBusy' = (inFlight' /\ seen)
           /\ enabled' = (~failed /\ Buttons(connected, inFlight', afRunning))
  /\ UNCHANGED <<position, moved, connected, afRunning, jog, jogs, cancel, exposureVars, w, runs>>

\* Stop: the run is cancelled, the focuser stopped, the panel's own bookkeeping dropped.
Stop ==
  /\ connected
  /\ cancel' = (cancel \/ afRunning) /\ inFlight' = FALSE /\ seenBusy' = FALSE
  /\ enabled' = Buttons(TRUE, FALSE, afRunning)
  /\ UNCHANGED <<position, moved, connected, afRunning, jog, jogs, exposureVars, w, runs>>

\* Cancel, or a change of the operating mode.
CancelRun ==
  /\ afRunning /\ ~cancel /\ cancel' = TRUE
  /\ UNCHANGED <<position, moved, panelVars, exposureVars, w, runs>>

\* Autofocus is available.
Free == connected /\ ~inFlight /\ jog = "idle" /\ ~afRunning

\* A run begins: auto exposure is held, the first frame is measured where the focuser is.
Begin ==
  /\ Free /\ runs < MaxRuns /\ runs' = runs + 1
  /\ \E m \in Modes : w' = [NoRun EXCEPT !.at = IF m = "terrestrial" THEN "precheck" ELSE "search",
                              !.mode = m, !.then = "initial", !.attempts = 1]
  /\ cancel' = FALSE /\ afRunning' = TRUE /\ enabled' = FALSE /\ aePaused' = TRUE /\ moved' = 0
  /\ UNCHANGED <<position, connected, inFlight, seenBusy, jog, jogs, exposure, queued>>

\* The GUI thread applies an exposure that was queued to it.
ApplyExposure ==
  /\ queued # <<>> /\ exposure' = Head(queued) /\ queued' = Tail(queued)
  /\ UNCHANGED <<position, moved, panelVars, cancel, aePaused, w, runs>>

\* The panel takes the outcome; what the run had queued to the GUI thread came before.
TakeOutcome ==
  /\ w.at = "done" /\ queued = <<>> /\ afRunning
  /\ afRunning' = FALSE /\ w' = NoRun
  /\ enabled' = (connected /\ ~inFlight /\ jog = "idle")
  /\ UNCHANGED <<position, moved, connected, inFlight, seenBusy, jog, jogs, cancel, exposureVars,
                 runs>>

-----------------------------------------------------------------------------
(* The search.                                                               *)

envVars == <<panelVars, cancel, runs>>
Still == UNCHANGED <<position, moved>>

\* To these positions, then on.
Go(run, path, then) == [run EXCEPT !.path = path, !.then = then]

\* What the curve was is of no more use.
Closing(run) == [run EXCEPT !.startV = 0, !.bestV = 0, !.step = 0, !.k = 0, !.misses = 0,
                            !.climbs = 0]
Conclude(run, status) == [Closing(run) EXCEPT !.at = "decide", !.status = status]

\* A failed search returns to the best position, unless a move was refused or a Stop ended it.
Abort(status) == [Go(Closing(w), <<w.best>>, "end") EXCEPT !.status = status, !.aborting = TRUE]
Stay(status) == [Go(Closing(w), <<>>, "end") EXCEPT !.status = status, !.refused = TRUE]

Better(v, than) == v > 0 /\ v < than

\* The probes: a coarse step either way, for an artificial star then a fine one.
Probes == <<Coarse, -Coarse>> \o (IF w.mode = "artificial" THEN <<Fine, -Fine>> ELSE <<>>)
Probe(run, k) ==
  IF k > Len(Probes) THEN Go(run, <<run.start>>, "flat")
  ELSE [Go(run, <<run.start + Probes[k]>>, "probe") EXCEPT !.k = k]

\* Back to the best position, and into it once more where the climb went the other way.
Approach(run) ==
  Go(run, <<run.best>> \o (IF run.dir # FinalDir THEN <<run.best - FinalDir * Fine, run.best>>
                           ELSE <<>>), "final")

\* A step of the climb, unless cancelled.
Climb(run) ==
  IF cancel THEN [Go(Closing(run), <<run.best>>, "end") EXCEPT !.status = "cancelled", !.aborting = TRUE]
  ELSE Go(run, <<position + run.dir * run.step>>, "climb")

\* A probe's or the climb's sample v; the climb ends after steps without improvement.
Probed(run, v) ==
  IF Better(v, run.bestV)
  THEN Climb([run EXCEPT !.best = position, !.bestV = v, !.k = 0, !.step = MaxOf(Probes[run.k], -Probes[run.k]),
                         !.dir = Sign(Probes[run.k])])
  ELSE Probe(run, run.k + 1)

Climbed(run, v) ==
  LET next == IF Better(v, run.bestV)
              THEN [run EXCEPT !.best = position, !.bestV = v, !.misses = 0, !.climbs = @ + 1]
              ELSE [run EXCEPT !.misses = @ + 1, !.climbs = @ + 1]
  IN  IF next.misses >= MaxNoImprove \/ next.climbs >= MaxSteps THEN Approach(next) ELSE Climb(next)

\* The validation at the best position: worse than the start, back to it.
Validated(run, v) ==
  IF v > 0 /\ Better(run.startV, v) THEN [Go(Closing(run), <<run.start>>, "end") EXCEPT !.status = "inconsistent"]
  ELSE IF run.mode = "artificial" /\ v <= 0
       THEN [Go(Closing(run), <<run.start>>, "end") EXCEPT !.status = "insufficient"]
  ELSE IF run.mode = "artificial" /\ ~Better(v, run.startV)
       THEN [Go(Closing(run), <<run.start>>, "end") EXCEPT !.status = "inconsistent"]
  ELSE Conclude(run, IF run.best \in {MaxOf(0, run.start - Envelope), MinOf(Limit, run.start + Envelope)}
                     THEN "limit" ELSE "success")

\* No better position next to the start: measured once more there.
FlatSampled(run, v) ==
  Conclude(run, IF run.mode # "artificial" THEN "success"
                ELSE IF v <= 0 THEN "insufficient"
                ELSE IF Better(run.startV, v) THEN "inconsistent" ELSE "already")

\* A frame exposed here is measured: none when cancelled, or none in time; invalid for a star
\* that is lost or saturated.
Measure ==
  /\ w.at = "search" /\ w.path = <<>> /\ w.then \in {"initial", "probe", "climb", "final", "flat"}
  /\ \E v \in IF cancel THEN {None} ELSE Values \cup {None, Invalid}, saturated \in BOOLEAN :
       LET run == [w EXCEPT !.sampled = TRUE, !.saturated = @ \/ saturated]
       IN  /\ saturated => v = Invalid /\ w.mode = "artificial"
           /\ v = Invalid => w.mode = "artificial"
           /\ w' = CASE w.then = "initial" /\ v <= 0 ->
                          Conclude([run EXCEPT !.start = position], "no_evidence")
                     [] w.then = "initial" /\ v > 0 ->
                          Probe([run EXCEPT !.start = position, !.startV = v,
                                            !.best = position, !.bestV = v], 1)
                     [] w.then \in {"probe", "climb"} /\ v = None -> Abort("no_frame")
                     [] w.then = "probe" /\ v # None -> Probed(run, v)
                     [] w.then = "climb" /\ v # None -> Climbed(run, v)
                     [] w.then = "final" -> Validated(run, v)
                     [] w.then = "flat" -> FlatSampled(run, v)
  /\ Still /\ UNCHANGED <<envVars, exposureVars>>

Here == w.path # <<>> /\ ~w.quiet /\ w.sampled /\ Clamp(Head(w.path)) = position

\* A target where the focuser is already costs no move.
MoveSkips ==
  /\ w.at = "search" /\ ~w.moving /\ Here
  /\ w' = [w EXCEPT !.path = Tail(@)]
  /\ Still /\ UNCHANGED <<envVars, exposureVars>>

\* move_absolute is called.
MoveStarts ==
  /\ w.at = "search" /\ w.path # <<>> /\ ~w.moving /\ ~Here
  /\ w' = [w EXCEPT !.moving = TRUE]
  /\ Still /\ UNCHANGED <<envVars, exposureVars>>

\* The focuser is there. A cancelled search ends, except on its way back.
MoveArrives ==
  /\ w.moving /\ connected
  /\ position' = Clamp(Head(w.path))
  /\ moved' = IF position' = position THEN moved ELSE Sign(position' - position)
  /\ LET there == [w EXCEPT !.moving = FALSE, !.path = Tail(@)]
     IN  w' = IF cancel /\ ~w.quiet /\ ~w.aborting
              THEN [Abort("cancelled") EXCEPT !.moving = FALSE] ELSE there
  /\ UNCHANGED <<envVars, exposureVars>>

\* The move is refused: not connected, ended by a Stop, or failed.
MoveRefused ==
  /\ w.moving /\ Still
  /\ w' = [(IF w.quiet \/ w.aborting THEN [w EXCEPT !.path = <<>>, !.refused = TRUE]
            ELSE Stay(IF cancel THEN "cancelled" ELSE "rejected")) EXCEPT !.moving = FALSE]
  /\ UNCHANGED <<envVars, exposureVars>>

-----------------------------------------------------------------------------
(* The controller around it.                                                 *)

\* A terrestrial run lowers the exposure first while highlights dominate.
Precheck ==
  /\ w.at = "precheck"
  /\ w' \in {[w EXCEPT !.at = "search"]} \cup
            (IF cancel \/ w.attempts >= MaxAttempts THEN {}
             ELSE {[w EXCEPT !.at = "lower"]})
  /\ Still /\ UNCHANGED <<envVars, exposureVars>>

\* The search has ended: a saturated or clipped one is repeated with half the exposure while
\* attempts are left; one that stays clipped goes back to its start.
Decide ==
  /\ w.at = "decide" \/ (w.at = "search" /\ w.path = <<>> /\ w.then = "end")
  /\ \E clipped \in BOOLEAN :
       LET retry == w.saturated \/ clipped
       IN  /\ clipped => w.mode = "terrestrial" /\ w.status \in Curve
           /\ w' = IF retry /\ w.status # "cancelled" /\ w.attempts < MaxAttempts
                   THEN [NoRun EXCEPT !.at = "lower", !.then = "again", !.mode = w.mode,
                                      !.start = w.start, !.attempts = w.attempts,
                                      !.lowered = w.lowered, !.before = w.before]
                   ELSE IF clipped
                   THEN [Go(w, <<w.start>>, "finally") EXCEPT !.at = "search", !.quiet = TRUE,
                                                              !.status = "clipped"]
                   ELSE [w EXCEPT !.at = "finally"]
  /\ Still /\ UNCHANGED <<envVars, exposureVars>>

\* Half the exposure is queued to the GUI thread.
Lower ==
  /\ w.at = "lower"
  /\ queued' = Append(queued, MaxOf(1, exposure - 1))
  /\ w' = [w EXCEPT !.at = "settle", !.before = exposure, !.lowered = TRUE]
  /\ Still /\ UNCHANGED <<envVars, exposure, aePaused>>

\* After a settle time: cancelled, still at the old value (at its minimum, or not yet applied),
\* or lowered. A repeated search first goes back to its start, whatever becomes of that move.
Lowered ==
  /\ w.at = "settle"
  /\ LET again == w.then = "again"
     IN  w' = IF ~cancel /\ exposure < w.before
              THEN IF again THEN [Go(w, <<w.start>>, "restart") EXCEPT !.at = "search",
                                    !.quiet = TRUE, !.attempts = @ + 1]
                   ELSE [w EXCEPT !.at = "precheck", !.attempts = @ + 1]
              ELSE IF ~again THEN [w EXCEPT !.at = "search"]
              ELSE IF cancel THEN [w EXCEPT !.at = "finally", !.status = "cancelled"]
              ELSE IF w.mode = "artificial" THEN [w EXCEPT !.at = "finally", !.status = "no_evidence"]
              ELSE [Go(w, <<w.start>>, "finally") EXCEPT !.at = "search", !.quiet = TRUE,
                                                         !.status = "clipped"]
  /\ Still /\ UNCHANGED <<envVars, exposureVars>>

\* After a return to the start: a new search, or the end.
Returned ==
  /\ w.at = "search" /\ w.path = <<>> /\ w.then \in {"restart", "finally"}
  /\ w' = IF w.then = "finally" THEN [w EXCEPT !.at = "finally"]
          ELSE [NoRun EXCEPT !.at = "search", !.mode = w.mode, !.then = "initial",
                             !.attempts = w.attempts, !.lowered = TRUE, !.before = w.before]
  /\ Still /\ UNCHANGED <<envVars, exposureVars>>

\* Anything the worker calls may raise: the run ends in an error.
Crash ==
  /\ w.at \in {"precheck", "search", "lower", "settle"} /\ w.status # "error"
  /\ w' = [w EXCEPT !.at = "finally", !.status = "error", !.moving = FALSE, !.path = <<>>]
  /\ Still /\ UNCHANGED <<envVars, exposureVars>>

\* MUTANT (of Restored): only a run that did not end in an error puts the exposure back.
RestoredUnlessError ==
  IF w.lowered /\ w.status # "error" THEN Append(queued, Brightest) ELSE queued

\* The exposure at the begin, wherever a lowering was issued.
Restored == IF w.lowered THEN Append(queued, Brightest) ELSE queued

\* However the run ended: the exposure is restored and auto exposure let go, then the outcome
\* published; a missing frame of a cancelled wait is reported as cancelled.
Finally ==
  /\ w.at = "finally"
  /\ queued' = Restored /\ aePaused' = FALSE
  /\ w' = [w EXCEPT !.at = "done", !.status =
              IF cancel /\ @ \in {"no_frame", "no_evidence"} THEN "cancelled" ELSE @]
  /\ Still /\ UNCHANGED <<envVars, exposure>>

-----------------------------------------------------------------------------
Worker ==
  \/ Measure \/ MoveSkips \/ MoveStarts \/ MoveArrives \/ MoveRefused
  \/ Precheck \/ Decide \/ Lower \/ Lowered \/ Returned \/ Crash \/ Finally

FNext ==
  \/ Connect \/ Disconnect \/ Jog \/ JogEnds \/ PollStatus \/ Stop \/ CancelRun
  \/ Begin \/ ApplyExposure \/ TakeOutcome \/ Worker

\* The worker runs on; every move ends.
FFairness == WF_afVars(Worker)

FSpec == FInit /\ [][FNext]_afVars /\ FFairness

-----------------------------------------------------------------------------
(* Properties.                                                               *)

\* Types; the focuser stays within its driver's limits, the search within its number of steps
\* and attempts (compute_search_bounds, BoundedFocusSearcher).
FTypeOK ==
  /\ position \in 0 .. Limit /\ moved \in -1 .. 1 /\ exposure \in 1 .. Brightest
  /\ {connected, inFlight, seenBusy, enabled, afRunning, cancel, aePaused} \subseteq BOOLEAN
  /\ jog \in {"idle", "moving"} /\ w.best \in 0 .. Limit
  /\ w.attempts <= MaxAttempts /\ w.climbs <= MaxSteps

\* The jog's worker and the autofocus worker never move the focuser at the same time, whatever
\* Stops, time-outs, failed polls and reconnects come in between.
OneMover == ~(jog = "moving" /\ w.moving)

\* A run leaves things as it reports: at the best position after a success, where it started
\* after an inconsistent, insufficient or clipped curve (unless the focuser refused a move),
\* with the exposure of its begin and auto exposure let go.
LeftAsReported ==
  /\ w.at = "done" /\ ~w.refused =>
       /\ w.status \in {"success", "limit", "already"} => position = w.best
       /\ w.status \in {"inconsistent", "insufficient", "clipped"} => position = w.start
  /\ ~afRunning => exposure = Brightest /\ queued = <<>> /\ ~aePaused

\* A run goes on.
RunGoesOn == w.at \notin {"idle", "done"}

\* The last move into the best position of a search comes from the final approach direction.
ApproachedFromOneSide ==
  w.at = "done" /\ w.status \in {"success", "limit"} /\ w.dir # 0 => moved = FinalDir
=============================================================================
