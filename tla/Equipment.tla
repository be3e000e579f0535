------------------------------- MODULE Equipment -------------------------------
(***************************************************************************)
(* The components that work a device, each beside the others at rest: the  *)
(* camera panel, the fresh-frame waits, the focuser panel with its         *)
(* autofocus, the fine-collimation run, park and unpark, the guiding of    *)
(* GuideTool, the guide pulse and the shared OnStep connection.            *)
(*                                                                         *)
(* They share no state here (what they share, MountMotion, TrackingEnforcer*)
(* and the shims' modules model): a behaviour picks one of them (part), the*)
(* others rest in an initial state. GuidePulse and OnStepConnection are    *)
(* extended, the others instantiated.                                      *)
(***************************************************************************)
EXTENDS GuidePulse, OnStepConnection, Sequences

CONSTANTS
  Devices, MaxCams, MaxStreams,                                   \* CameraPanel
  Exposures, Floor, Margin, Cap, Slice, SettleTime, Timeout, FrameSamples, RingLength, MaxBegin,
  MaxTime,                                                        \* Acquisition
  CoarseStep, FineStep, Envelope, Limit, FirstPosition, MaxSteps, MaxNoImprove, MaxAttempts, Brightest,
  Modes, MaxJogs, MaxRuns,                                        \* Autofocus
  StarSamples, Tries, Misses, Reacquisitions, Legs, ProbePulses, Iterations, Diverging,
  FineTolerance, RoughTolerance, Far,                             \* FineCollimation
  MaxActions,                                                     \* ParkPanel
  StarPlaces, Tolerance, Search, LostFrames, Deadband, Fallback   \* GuideTool

VARIABLES
  part,                                                          \* the component that acts
  cams, tec, camera, cooling, stream, threads, joining, quit,    \* CameraPanel
  now, camExposure, mailbox, capture, waiter,                    \* Acquisition
  position, moved, connected, inFlight, seenBusy, enabled, afRunning, jog, afCancel, exposure,
  queued, aePaused, w, jogs, runs,                               \* Autofocus
  running, cancel, aborting, outcome, fineClosed, run, claim, mode, latest, dist, late,
                                                                 \* FineCollimation
  long, mount, owner, stopped, calls, panel, begun,              \* ParkPanel
  measureOnly, star, paused, rebase, guiding, stopSet, loop, tracker, target, bad, shown, window,
  camOpen                                                        \* GuideTool

-------------------------------------------------------------------------------
(* The components *)
Cam == INSTANCE CameraPanel

Acq == INSTANCE Acquisition WITH
  exposure <- camExposure, stream <- mailbox, Samples <- FrameSamples, Settle <- SettleTime

Foc == INSTANCE Autofocus WITH
  cancel <- afCancel, Coarse <- CoarseStep, Fine <- FineStep, Start <- FirstPosition

Col == INSTANCE FineCollimation WITH
  closed <- fineClosed, Samples <- StarSamples, Fine <- FineTolerance, Rough <- RoughTolerance,
  Probes <- ProbePulses

Park == INSTANCE ParkPanel

Guide == INSTANCE GuideTool WITH Places <- StarPlaces

\* What the proofs need of the parameters, and what the code's settings are: numbers, a
\* camera's exposure times, an envelope and a range of the focuser that holds its first position,
\* at least one attempt and one frame, steps of the focuser in both directions.
ASSUME EquipmentAssumption ==
  /\ "demo" \notin Devices
  /\ Exposures \subseteq Nat \ {0} /\ {Floor, Margin, Cap, Slice, SettleTime, Timeout} \subseteq Nat
  /\ {FrameSamples, RingLength} \subseteq Nat \ {0} /\ {MaxBegin, MaxTime} \subseteq Nat
  /\ {CoarseStep, FineStep} \subseteq Nat \ {0} /\ Envelope \in Nat /\ Limit \in Nat
  /\ FirstPosition \in 0 .. Limit
  /\ {MaxSteps, MaxNoImprove, MaxAttempts, Brightest} \subseteq Nat \ {0}
  /\ {StarSamples, Tries, Misses, Reacquisitions, Legs, ProbePulses, Iterations, Diverging,
      FineTolerance, RoughTolerance, Far} \subseteq Nat
  /\ StarPlaces \in Nat \ {0}
  /\ {Tolerance, Search, LostFrames, Deadband, Fallback} \subseteq Nat

-------------------------------------------------------------------------------
(* The composition *)
camVars == <<cams, tec, camera, cooling, stream, threads, joining, quit>>
acqVars == <<now, camExposure, mailbox, capture, waiter>>
afVars == <<position, moved, connected, inFlight, seenBusy, enabled, afRunning, jog, afCancel,
            exposure, queued, aePaused, w, jogs, runs>>
fineVars == <<running, cancel, aborting, outcome, fineClosed, run, claim, mode, latest, dist, late>>
parkVars == <<long, mount, owner, stopped, calls, panel, begun>>
guideVars == <<measureOnly, star, paused, rebase, guiding, stopSet, loop, tracker, target, bad,
               shown, window, camOpen>>
equipmentVars == <<part, camVars, acqVars, afVars, fineVars, parkVars, guideVars, pulseVars,
                   connectionVars>>

EquipmentParts ==
  {"camera", "acquisition", "autofocus", "fine", "park", "guide", "pulse", "link"}

\* A component that rests has one initial state.
EquipmentStart ==
  /\ Cam!CInit /\ (part = "camera" \/ \A d \in Devices : tec[d] = "off")
  /\ Acq!AInit /\ (part = "acquisition" \/ camExposure = CHOOSE e \in Exposures : TRUE)
  /\ Foc!FInit
  /\ Col!FineInit /\ (part = "fine" \/ mode = "terrestrial")
  /\ Park!ParkInit /\ (part = "park" \/ ~(long \/ mount.parked))
  /\ Guide!GuideInit /\ (part = "guide" \/ measureOnly)
  /\ PulseInit /\ ConnectionInit

EquipmentInit == part \in EquipmentParts /\ EquipmentStart

\* p acts, every other component rests.
Acts(p) == part = p
Only(p) ==
  /\ Acts(p) /\ UNCHANGED part
  /\ IF p = "camera" THEN TRUE ELSE UNCHANGED camVars
  /\ IF p = "acquisition" THEN TRUE ELSE UNCHANGED acqVars
  /\ IF p = "autofocus" THEN TRUE ELSE UNCHANGED afVars
  /\ IF p = "fine" THEN TRUE ELSE UNCHANGED fineVars
  /\ IF p = "park" THEN TRUE ELSE UNCHANGED parkVars
  /\ IF p = "guide" THEN TRUE ELSE UNCHANGED guideVars
  /\ IF p = "pulse" THEN TRUE ELSE UNCHANGED pulseVars
  /\ IF p = "link" THEN TRUE ELSE UNCHANGED connectionVars

EquipmentNext ==
  \/ Only("camera") /\ Cam!CNext
  \/ Only("acquisition") /\ Acq!ANext
  \/ Only("autofocus") /\ Foc!FNext
  \/ Only("fine") /\ Col!FineNext
  \/ Only("park") /\ Park!ParkNext
  \/ Only("guide") /\ Guide!GuideNext
  \/ Only("pulse") /\ PulseNext
  \/ Only("link") /\ ConnectionNext

\* What each component is fair to: the fairness of its own module, asked of the part that acts.
EquipmentFairness ==
  /\ \A t \in 1 .. MaxStreams : WF_camVars(Acts("camera") /\ t \in DOMAIN threads
                                           /\ Cam!ThreadStep(t))
  /\ WF_afVars(Acts("autofocus") /\ Foc!Worker)
  /\ WF_fineVars(Acts("fine") /\ Col!FineWorker)
  /\ WF_fineVars(Acts("fine") /\ Col!AbortReached)
  /\ SF_fineVars(Acts("fine") /\ Col!PollRun)
  /\ WF_parkVars(Acts("park") /\ Park!RunAction)
  /\ WF_parkVars(Acts("park") /\ Park!PollStatus)
  /\ WF_parkVars(Acts("park") /\ panel.inFlight /\ Park!PollStatus /\ ~panel'.inFlight)
  /\ WF_guideVars(Acts("guide") /\ Guide!Loop)
  /\ WF_guideVars(Acts("guide") /\ Guide!StopEnds)
  /\ WF_pulseVars(Acts("pulse") /\ PulseStep)
  /\ WF_pulseVars(Acts("pulse") /\ StopWorker)
  /\ \A t \in Workers : WF_connectionVars(Acts("link") /\ WorkerStep(t))

EquipmentSpec == EquipmentInit /\ [][EquipmentNext]_equipmentVars /\ EquipmentFairness

-------------------------------------------------------------------------------
(* The properties: what several components promise under one name. *)

\* Every component's state stays in its types and limits: what a camera may
\* be set to, the focuser's envelope, the counters of the retries.
EquipmentTypeOK ==
  /\ Acts("camera") => Cam!CTypeOK
  /\ Acts("acquisition") => Acq!ATypeOK
  /\ Acts("autofocus") => Foc!FTypeOK
  /\ Acts("fine") => Col!FineTypeOK
  /\ Acts("park") => Park!ParkTypeOK
  /\ Acts("guide") => Guide!GuideTypeOK
  /\ Acts("pulse") => PulseTypeOK
  /\ Acts("link") => ConnectionTypeOK

\* Whatever fails while cameras are opened, switched and closed, none is left
\* open for nobody, or cooling without a lost call to stop it
\* (TouptekCameraAdapter, device_connection.py); the INDI client is open
\* exactly while a shim uses it (OnStepConnection).
DevicesReleased ==
  /\ Acts("camera") => Cam!CamerasReleased
  /\ Acts("link") => ClientShared

\* A frame taken as proof of a motion's end was exposed after it, and the
\* wait for it is bounded (fresh_frame_after_motion.py,
\* motion_aware_acquisition.py).
FreshInTime == Acts("acquisition") => Acq!EvidenceFresh /\ Acq!WaitBounded

\* One command moves a device at a time: the focuser (FocuserPanel,
\* AutofocusController), the mount by park and unpark (MountParkPanel), the
\* guide pulses, sent only for the star of this frame (GuideController). And
\* after a Stop or Cancel at most one command of a fine-collimation run still
\* reaches the mount (CollimationRecenterPolicy, FocusedStarAcquisition).
OneMover ==
  /\ Acts("autofocus") => Foc!OneMover
  /\ Acts("park") => Park!OneParkCall
  /\ Acts("guide") => Guide!PulsesJustified
  /\ Acts("fine") => Col!AtMostOneLate

\* What was reported is so: the focuser and the exposure where the autofocus
\* says it left them, an unpark followed by the tracking policy, what a guide
\* pulse says of the tracking and of what was sent, what the OnStep shims
\* answer while another one operates.
LeftAsReported ==
  /\ Acts("autofocus") => Foc!LeftAsReported
  /\ Acts("park") => Park!UnparkEnforced
  /\ Acts("pulse") => VerdictTruthful /\ MovedAsReported
  /\ Acts("link") => AnswersHonest

\* Work that has begun and is to end: a camera thread that exposes for nobody,
\* an autofocus and a fine-collimation run, a park, a stop of the guiding, an
\* operation or a guide pulse that holds operation_lock. A fresh-frame wait is
\* not among it: its bound is FreshInTime, not fairness.
AtWork ==
  \/ Cam!ExposesForNobody \/ Foc!RunGoesOn \/ Col!RunUnanswered
  \/ Park!ParkPending \/ Guide!StopPending \/ HoldsTheLock \/ LockTaken
===============================================================================
