------------------------------ MODULE MainWindow ------------------------------
(***************************************************************************)
(* What the main window (ui/main_window.py) keeps consistent between its   *)
(* panels, all on the GUI thread: the operating mode, the registration     *)
(* choice and the collimation target, which change each other; the cameras *)
(* the two camera panels may connect; the calibration of one camera in the *)
(* other's field of view, searched on a worker (ui/fov_calibrator.py); and *)
(* the Stop button, which follows motions that begin and end on other      *)
(* threads (application/mount_motion.py).                                  *)
(***************************************************************************)
EXTENDS Integers, FiniteSets

CONSTANTS
  Devices,     \* the real cameras on the bus
  MaxMotions   \* bound: motions

VARIABLES
  choice,        \* [op, reg, target, focus]: what is selected
  device,        \* the camera each panel is connected to
  offered,       \* the cameras each panel lists
  fov,           \* the calibration: [at, of], of the cameras it is searched for
  pending,       \* the priors of that calibration
  keep,          \* the "Keep calibrating" box
  registration,  \* the last confident result, the cameras it was found for
  prior,         \* the priors kept with it
  motions,       \* motions begun so far
  moving,        \* a motion is in flight
  signals,       \* notifications queued to the GUI thread
  stopEnabled,   \* the Stop button
  shut           \* the window is closed

windowVars == <<choice, device, offered, fov, pending, keep, registration, prior, motions, moving,
                signals, stopEnabled, shut>>
calibration == <<fov, pending, keep, registration, prior>>
motion == <<motions, moving, signals, stopEnabled>>

Panels == {"main", "guide"}
Other(p) == CHOOSE q \in Panels : q # p
NoCameras == [p \in Panels |-> "none"]

-----------------------------------------------------------------------------
(* The choices. A change of one calls the handlers of the others at once.    *)

\* Matching a star field needs one: only in astronomical mode, which selects it.
ApplyOperatingMode(c) ==
  IF c.op = "astronomical" THEN [c EXCEPT !.reg = "star_field"]
  ELSE IF c.reg = "star_field" THEN [c EXCEPT !.reg = "terrestrial"] ELSE c

\* An artificial star is a fixed target.
RequireTerrestrial(c) ==
  IF c.op = "astronomical" THEN ApplyOperatingMode([c EXCEPT !.op = "terrestrial"]) ELSE c

\* The matcher and the autofocus metric follow the target.
TargetChanged(c) ==
  LET focused == [c EXCEPT !.focus = c.target = "artificial"]
  IN  CASE c.target = "artificial" -> RequireTerrestrial([focused EXCEPT !.reg = "artificial"])
        [] c.target = "natural" /\ c.reg = "artificial" ->
             [focused EXCEPT !.reg = IF c.op = "astronomical" THEN "star_field" ELSE "terrestrial"]
        [] OTHER -> focused

SetTarget(c, target) ==
  IF c.target = target THEN c ELSE TargetChanged([c EXCEPT !.target = target])

\* MUTANT (of OperatingModeChanged): an artificial target is kept in astronomical mode.
OperatingModeChangedOnly(c) == ApplyOperatingMode(c)

\* An explicit astronomical mode makes the target a natural star again.
OperatingModeChanged(c) ==
  ApplyOperatingMode(IF c.op = "astronomical" THEN SetTarget(c, "natural") ELSE c)

\* The artificial-star matcher makes the target an artificial star, leaving it a natural one.
RegistrationToggled(c, reg) ==
  CASE reg = "artificial" /\ c.target = "artificial" -> RequireTerrestrial([c EXCEPT !.reg = reg])
    [] reg = "artificial" /\ c.target # "artificial" ->
         SetTarget([c EXCEPT !.reg = reg], "artificial")
    [] reg # "artificial" /\ c.target = "artificial" ->
         SetTarget([c EXCEPT !.reg = reg], "natural")
    [] OTHER -> [c EXCEPT !.reg = reg]

ChooseMode ==
  /\ \E m \in {"terrestrial", "astronomical"} \ {choice.op} :
       choice' = OperatingModeChanged([choice EXCEPT !.op = m])
  /\ UNCHANGED <<device, offered, calibration, motion, shut>>

ChooseTarget ==
  /\ \E t \in {"natural", "artificial"} \ {choice.target} : choice' = SetTarget(choice, t)
  /\ UNCHANGED <<device, offered, calibration, motion, shut>>

\* The star-field button is disabled in terrestrial mode.
ChooseRegistration ==
  /\ \E r \in {"terrestrial", "star_field", "artificial"} \ {choice.reg} :
       /\ r = "star_field" => choice.op = "astronomical"
       /\ choice' = RegistrationToggled(choice, r)
  /\ UNCHANGED <<device, offered, calibration, motion, shut>>

-----------------------------------------------------------------------------
(* The cameras.                                                              *)

\* The other panel's list, without this camera; the overlay of the old one is cleared (the
\* registration behind it is kept).
CameraChanged(p, d) == offered' = [offered EXCEPT ![Other(p)] = Devices \ {d}]

\* A panel connects to a camera of its list, or to the demo camera; also where a failed switch
\* ends with the demo camera.
ConnectCamera(p) ==
  /\ \E d \in offered[p] \cup {"demo"} :
       device' = [device EXCEPT ![p] = d] /\ CameraChanged(p, d)
  /\ UNCHANGED <<choice, calibration, motion, shut>>

-----------------------------------------------------------------------------
(* The calibration of the field of view.                                     *)

\* Begun with the cameras of this moment; their priors are set aside.
Submit(from) ==
  /\ from.at = "idle" /\ fov' = [at |-> "running", of |-> device] /\ pending' = device

\* Calibrate: unless the measurement gate, a missing frame or plate scale forbids it.
CalibrateClicked ==
  /\ Submit(fov)
  /\ UNCHANGED <<choice, device, offered, keep, registration, prior, motion, shut>>

ToggleKeep ==
  /\ keep' = ~keep
  /\ UNCHANGED <<choice, device, offered, fov, pending, registration, prior, motion, shut>>

\* The worker finds a confident match, or none, or crashes.
WorkerEnds ==
  /\ fov.at = "running" /\ \E r \in {"ok", "miss"} : fov' = [fov EXCEPT !.at = r]
  /\ UNCHANGED <<choice, device, offered, pending, keep, registration, prior, motion, shut>>

\* A confident result is kept with the priors of its run.
Confident == registration' = fov.of /\ prior' = pending

\* The poll takes the outcome; while "Keep calibrating" is on the next run begins, if it may.
PollCalibration ==
  /\ fov.at \in {"ok", "miss"} /\ ~shut
  /\ IF fov.at = "ok" THEN Confident ELSE UNCHANGED <<registration, prior>>
  /\ LET idle == [fov EXCEPT !.at = "idle", !.of = NoCameras]
     IN  \/ keep /\ Submit(idle)
         \/ fov' = idle /\ pending' = pending
  /\ UNCHANGED <<choice, device, offered, keep, motion, shut>>

-----------------------------------------------------------------------------
(* The Stop button.                                                          *)

\* A motion begins or ends on a thread of its own; the GUI thread is notified.
MotionClaimed ==
  /\ ~moving /\ motions < MaxMotions
  /\ moving' = TRUE /\ motions' = motions + 1 /\ signals' = signals + 1
  /\ UNCHANGED <<choice, device, offered, calibration, stopEnabled, shut>>

MotionReleased ==
  /\ moving /\ moving' = FALSE /\ signals' = signals + 1
  /\ UNCHANGED <<choice, device, offered, calibration, motions, stopEnabled, shut>>

UpdateStopButton ==
  /\ signals > 0 /\ ~shut
  /\ signals' = signals - 1 /\ stopEnabled' = moving
  /\ UNCHANGED <<choice, device, offered, calibration, motions, moving, shut>>

\* Timers are stopped, a motion in flight is aborted, every panel stopped; a calibration's
\* worker goes on for nobody.
CloseEvent ==
  /\ shut' = TRUE
  /\ UNCHANGED <<choice, device, offered, calibration, motion>>

-----------------------------------------------------------------------------
FirstChoice == [op |-> "terrestrial", reg |-> "terrestrial", target |-> "natural", focus |-> FALSE]

WindowInit ==
  /\ choice = FirstChoice
  /\ device = [p \in Panels |-> "demo"] /\ offered = [p \in Panels |-> Devices]
  /\ fov = [at |-> "idle", of |-> NoCameras] /\ pending = NoCameras /\ keep = FALSE
  /\ registration = NoCameras /\ prior = NoCameras
  /\ motions = 0 /\ moving = FALSE /\ signals = 0 /\ stopEnabled = FALSE /\ shut = FALSE

WindowNext ==
  \/ /\ ~shut
     /\ \/ ChooseMode \/ ChooseTarget \/ ChooseRegistration
        \/ \E p \in Panels : ConnectCamera(p)
        \/ CalibrateClicked \/ ToggleKeep \/ PollCalibration \/ UpdateStopButton \/ CloseEvent
  \/ WorkerEnds \/ MotionClaimed \/ MotionReleased

WindowSpec == WindowInit /\ [][WindowNext]_windowVars

-----------------------------------------------------------------------------
\* Types of the window's choices (CollimationMainWindow).
WindowTypeOK ==
  /\ choice \in [op : {"terrestrial", "astronomical"}, target : {"natural", "artificial"},
                 reg : {"terrestrial", "star_field", "artificial"}, focus : BOOLEAN]
  /\ device \in [Panels -> Devices \cup {"demo"}] /\ fov.at \in {"idle", "running", "ok", "miss"}
  /\ {keep, moving, stopEnabled, shut} \subseteq BOOLEAN

\* The choices agree, in whichever order they are made: an artificial target has its matcher and
\* its focus metric and no other target has them; it is observed in terrestrial mode only, as a
\* star field is in astronomical mode only. No camera is shared by the two panels. The
\* registration and the priors kept with it are of the same cameras. Once the notifications are
\* worked off the Stop button is enabled exactly while a motion is in flight.
WindowConsistent ==
  /\ choice.target = "artificial" <=> choice.reg = "artificial"
  /\ choice.focus = (choice.target = "artificial")
  /\ choice.target = "artificial" => choice.op = "terrestrial"
  /\ choice.reg = "star_field" => choice.op = "astronomical"
  /\ device["main"] = device["guide"] => device["main"] = "demo"
  /\ registration = prior
  /\ signals = 0 => stopEnabled = moving
=============================================================================
