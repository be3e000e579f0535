----------------------------- MODULE AutoExposure -----------------------------
(***************************************************************************)
(* The automatic exposure and gain of a camera panel                       *)
(* (acquisition/auto_exposure.py, ui/camera_panel.py): one correction per  *)
(* polled frame, exposure first, gain only where exposure is at a limit,   *)
(* the step of the gain estimated from the last two frames, the gain       *)
(* unwound when exposure can take over. Metrics are percents of the range. *)
(***************************************************************************)
EXTENDS Integers

CONSTANTS
  Ceiling,      \* the longest exposure of a live view; the shortest is 1
  DefaultGain,  \* which is also the least gain
  MaxGain,
  GainStep,     \* the step of the gain without an estimate
  MaxGainStep,  \* the largest step of an estimate
  Low, High,    \* the band the metric should be in
  Scenes,       \* brightnesses of the scene
  Delayed,      \* whether a frame may have been exposed before the last correction
  MaxChanges    \* bound: changes by the operator or the scene

VARIABLES
  auto,     \* the "Auto exposure/gain" box
  held,     \* suppressed while a measurement needs stable frames
  cam,      \* [exposure, gain]: the camera's, and the spin boxes'
  older,    \* the same before the last correction
  prev,     \* [metric, gain] of the last correction's frame; metric -1: none
  mail,     \* the metric of the frame to be polled; -1: none
  scene,
  changes

exposureVars == <<auto, held, cam, older, prev, mail, scene, changes>>

Least(a, b) == IF a < b THEN a ELSE b
Most(a, b) == IF a > b THEN a ELSE b
Clamp(lo, hi, x) == Most(lo, Least(hi, x))
Rounded(a, b) == IF b < 0 THEN (-2 * a - b) \div (-2 * b) ELSE (2 * a + b) \div (2 * b)
None == [metric |-> -1, gain |-> 0]
Middle == (Low + High) \div 2

\* The brightest signal of a frame, saturated at the top.
Measure(c) == Least(100, (c.exposure * c.gain * scene) \div 4)

-----------------------------------------------------------------------------
\* By the change of the metric per change of the gain between the last two frames, or the fixed
\* step where that is unknown or says nothing.
AdaptiveGainStep(metric, gain) ==
  LET known == prev.metric # -1 /\ gain # prev.gain /\ metric # prev.metric
      needed == IF known THEN Rounded((Middle - metric) * (gain - prev.gain), metric - prev.metric)
                ELSE 0
      step == Clamp(-MaxGainStep, MaxGainStep, needed)
  IN  IF step # 0 THEN step ELSE IF metric < Middle THEN GainStep ELSE -GainStep

\* Less gain, as far as the exposure can make up for it: at most halved.
UnwindGain(c) ==
  LET halved == (c.gain + 1) \div 2
      floor == (c.gain * c.exposure + Ceiling - 1) \div Ceiling
      candidate == Most(DefaultGain, Most(halved, floor))
  IN  IF c.gain <= DefaultGain \/ candidate >= c.gain THEN c
      ELSE [gain |-> candidate, exposure |-> Least(Ceiling, (c.exposure * c.gain) \div candidate)]

\* One correction: the exposure scaled towards the middle of the band, at most doubled or halved;
\* the gain only where that would pass a limit of the exposure. The spin box keeps the gain in
\* its range.
Compute(c, metric) ==
  LET desired == IF metric = 0 THEN Ceiling
                 ELSE Clamp(c.exposure \div 2, 2 * c.exposure, (c.exposure * Middle) \div metric)
      beyond == (metric < Low /\ desired > Ceiling) \/ (metric > High /\ desired < 1)
  IN  IF metric \in Low..High THEN UnwindGain(c)
      ELSE [exposure |-> Clamp(1, Ceiling, desired),
            gain |-> IF beyond
                     THEN Clamp(DefaultGain, MaxGain, c.gain + AdaptiveGainStep(metric, c.gain))
                     ELSE c.gain]

-----------------------------------------------------------------------------
\* A frame arrives: of the present settings or, delayed, of those before the last correction.
Frame ==
  /\ mail = -1
  /\ mail' \in {Measure(cam)} \cup (IF Delayed THEN {Measure(older)} ELSE {})
  /\ UNCHANGED <<auto, held, cam, older, prev, scene, changes>>

\* The poll shows the frame and, unless suppressed, corrects by it: gain before exposure.
ApplyAutoExposure ==
  /\ mail # -1 /\ mail' = -1
  /\ IF auto /\ ~held
     THEN /\ cam' = Compute(cam, mail) /\ older' = cam
          /\ prev' = [metric |-> mail, gain |-> cam.gain]
     ELSE UNCHANGED <<cam, older, prev>>
  /\ UNCHANGED <<auto, held, scene, changes>>

\* Switching it on starts from the default gain, without a previous pair.
AutoExposureToggled ==
  /\ changes < MaxChanges /\ changes' = changes + 1
  /\ auto' = ~auto
  /\ IF auto' THEN cam' = [cam EXCEPT !.gain = DefaultGain] /\ prev' = None
     ELSE UNCHANGED <<cam, prev>>
  /\ UNCHANGED <<held, older, mail, scene>>

\* The spin boxes are enabled while it is off.
SetByHand ==
  /\ ~auto /\ changes < MaxChanges /\ changes' = changes + 1
  /\ cam' \in [exposure : {1, Ceiling}, gain : {DefaultGain, MaxGain}]
  /\ UNCHANGED <<auto, held, older, prev, mail, scene>>

SetPaused ==
  /\ changes < MaxChanges /\ changes' = changes + 1
  /\ held' = ~held
  /\ UNCHANGED <<auto, cam, older, prev, mail, scene>>

SceneChanges ==
  /\ changes < MaxChanges /\ changes' = changes + 1
  /\ scene' \in Scenes
  /\ UNCHANGED <<auto, held, cam, older, prev, mail>>

-----------------------------------------------------------------------------
ExposureInit ==
  /\ auto = FALSE /\ held = FALSE /\ cam = [exposure |-> 8, gain |-> DefaultGain] /\ older = cam
  /\ prev = None /\ mail = -1 /\ scene \in Scenes /\ changes = 0

ExposureNext ==
  \/ Frame \/ ApplyAutoExposure \/ AutoExposureToggled \/ SetByHand \/ SetPaused \/ SceneChanges

\* The camera delivers and the panel polls.
ExposureFairness == WF_exposureVars(Frame) /\ WF_exposureVars(ApplyAutoExposure)

ExposureSpec == ExposureInit /\ [][ExposureNext]_exposureVars /\ ExposureFairness

-----------------------------------------------------------------------------
\* Exposure and gain stay within the camera's and the live view's limits.
ExposureTypeOK ==
  /\ cam \in [exposure : 1..Ceiling, gain : DefaultGain..MaxGain]
  /\ mail \in -1..100 /\ prev.metric \in -1..100 /\ changes \in 0..MaxChanges

\* The next frame will be corrected.
Correcting == auto /\ ~held /\ Compute(cam, Measure(cam)) # cam
=============================================================================
