------------------------------ MODULE Components ------------------------------
(***************************************************************************)
(* All components that do not interact, on one instance each: those of     *)
(* Equipment, which work a device, and those that choose, show, compute,   *)
(* keep and write. With the filter wheel, whose driver's elements come     *)
(* through the parser. A behaviour picks one of them (part), the others    *)
(* rest in an initial state.                                               *)
(***************************************************************************)
EXTENDS Equipment

CONSTANTS
  Slots, SharedNames, LocalNames, BuiltIn, Prompt, Reconnects, MaxChanges, MaxQueued,
                                                                 \* FilterWheel
  MaxMotions,                                                    \* MainWindow
  Ceiling, DefaultGain, MaxGain, GainStep, MaxGainStep, Low, High, Scenes, Delayed,
                                                                 \* AutoExposure
  Matrices, Shapes, Fractions, LeastMove, MoveCap, GuideMin, Slack, \* AlignPositioning
  Apps, MaxBundles, MaxAge, ClockSteps, MaxClock, MaxCaptures,   \* Diagnostics
  SavedCameras, Gains, TornWrites, MaxSessions,                  \* Settings
  Tokens, MaxTokens,                                             \* IndiParser
  Screws, Truths, Errors, Collimated, Faint, Saturation, MaxTurns, MaxFrames \* Collimation

VARIABLES
  wiring, wheel, up, sent, answers, cache, adapter, wanted, changes, settled, \* FilterWheel
  choice, device, offered, fov, pending, keep, registration, prior, motions, moving, signals,
  stopEnabled, shut,                                             \* MainWindow
  auto, aeHeld, cam, older, prev, mail, scene, sceneChanges,       \* AutoExposure
  posMode, matrix, shape, verified, seen, fraction, refusals, click, \* AlignPositioning
  clock, bundles, app, local, pulled,                            \* Diagnostics
  file, written, shownPanel, found, refused, align, sessions, open, \* Settings
  wire, fed, buffer, fragments,                                  \* IndiParser
  session, truth, error, learned, frame, analysis, analysed, advice, streaming, turns
                                                                 \* Collimation

-------------------------------------------------------------------------------
(* The instances *)
Whl == INSTANCE FilterWheel

Win == INSTANCE MainWindow

Exp == INSTANCE AutoExposure WITH changes <- sceneChanges, held <- aeHeld

Pos == INSTANCE AlignPositioning WITH mode <- posMode, Floor <- LeastMove, Cap <- MoveCap

Diag == INSTANCE Diagnostics WITH MaxTime <- MaxClock

Sets == INSTANCE Settings WITH panel <- shownPanel, Devices <- SavedCameras

Parse == INSTANCE IndiParser

Asst == INSTANCE Collimation WITH outcome <- analysed, shown <- advice

\* What the proofs need of the parameters, and what the code's settings are: a wheel's slots are
\* counted from one, limits are in order, a panel has a frame to divide, a calibration is made of
\* responses, Slack covers the rounding of two lengths (half a unit of each response), and
\* thresholds are positive.
ASSUME ComponentsAssumption ==
  /\ 0 \notin Slots
  /\ Ceiling \in Nat /\ Ceiling >= 8 /\ Low \in Nat /\ High \in Nat /\ Scenes \subseteq Nat
  /\ DefaultGain \in Nat \ {0} /\ MaxGain \in Nat /\ DefaultGain <= MaxGain
  /\ GainStep \in Nat /\ MaxGainStep \in Nat /\ MaxChanges \in Nat
  /\ \A m \in Matrices, d \in {1, -1} : m[1][d] \in [x : Int, y : Int] /\ m[2][d] \in [x : Int, y : Int]
  /\ Shapes \subseteq [w : Nat \ {0}, h : Nat \ {0}] /\ Fractions \subseteq Nat
  /\ LeastMove \in Nat \ {0} /\ GuideMin \in Nat \ {0} /\ MoveCap \in Nat
  /\ LeastMove <= MoveCap /\ GuideMin <= MoveCap /\ Slack \in Nat
  /\ \A m \in Matrices, c, d \in {1, -1} :
       LET across == Asst!Abs(m[1][c].x) + Asst!Abs(m[2][d].x)
           down == Asst!Abs(m[1][c].y) + Asst!Abs(m[2][d].y)
       IN  across * across + down * down <= 4 * Slack
  /\ {MaxBundles, MaxAge} \subseteq Nat /\ MaxClock \in Nat \ {0}
  /\ {"demo", "none"} \cap SavedCameras = {} /\ DefaultGain \in Gains
  /\ {Collimated, Faint, Saturation} \subseteq Nat \ {0} /\ {MaxTurns, MaxFrames} \subseteq Nat
  /\ \A t \in Truths : t \in [Screws -> Int \X Int]
  /\ Errors \subseteq Int \X Int

-------------------------------------------------------------------------------
(* The composition *)
wheelVars == <<wiring, wheel, up, sent, answers, cache, adapter, wanted, changes, settled>>
windowVars == <<choice, device, offered, fov, pending, keep, registration, prior, motions, moving,
                signals, stopEnabled, shut>>
exposureVars == <<auto, aeHeld, cam, older, prev, mail, scene, sceneChanges>>
positionVars == <<posMode, matrix, shape, verified, seen, fraction, refusals, click>>
diagnosticsVars == <<clock, bundles, app, local, pulled>>
settingsVars == <<file, written, shownPanel, found, refused, align, sessions, open>>
parserVars == <<wire, fed, buffer, fragments>>
collimationVars ==
  <<session, truth, error, learned, frame, analysis, analysed, advice, streaming, turns>>
deviceVars == <<camVars, acqVars, afVars, fineVars, parkVars, guideVars, pulseVars,
                connectionVars>>
officeVars == <<wheelVars, windowVars, exposureVars, positionVars, diagnosticsVars, settingsVars,
                parserVars, collimationVars>>
vars == <<part, deviceVars, officeVars>>

\* The session's state machine and the assistant share no variable.
OfficeParts == {"wheel", "window", "exposure", "positioning", "diagnostics", "settings", "parser",
                "session", "assistant"}

\* A component that rests has one initial state.
Any(S) == CHOOSE x \in S : TRUE

Init ==
  /\ part \in EquipmentParts \cup OfficeParts
  /\ EquipmentStart
  /\ Whl!WheelInit /\ (part = "wheel" \/ (wheel.at = Any(Slots)
                                          /\ wiring = Whl!Wiring("on", "on", FALSE)))
  /\ Win!WindowInit
  /\ Exp!ExposureInit /\ (part = "exposure" \/ scene = Any(Scenes))
  /\ Pos!PositionInit /\ (part = "positioning" \/ (shape = Any(Shapes) /\ fraction = Any(Fractions)))
  /\ Diag!DiagnosticsInit
  /\ Sets!SettingsInit
  /\ IF part = "parser" THEN Parse!ParserInit
     ELSE wire = <<>> /\ fed = 0 /\ buffer = <<>> /\ fragments = <<>>
  /\ Asst!CollimationInit
  /\ part = "assistant" \/ (error = Any(Errors) /\ truth = Any(Truths))

\* p acts, every other component rests.
OnlyOffice(p) ==
  /\ Acts(p) /\ UNCHANGED <<part, deviceVars>>
  /\ IF p = "wheel" THEN TRUE ELSE UNCHANGED wheelVars
  /\ IF p = "window" THEN TRUE ELSE UNCHANGED windowVars
  /\ IF p = "exposure" THEN TRUE ELSE UNCHANGED exposureVars
  /\ IF p = "positioning" THEN TRUE ELSE UNCHANGED positionVars
  /\ IF p = "diagnostics" THEN TRUE ELSE UNCHANGED diagnosticsVars
  /\ IF p = "settings" THEN TRUE ELSE UNCHANGED settingsVars
  /\ IF p = "parser" THEN TRUE ELSE UNCHANGED parserVars
  /\ IF p \in {"session", "assistant"} THEN TRUE ELSE UNCHANGED collimationVars

Next ==
  \/ EquipmentNext /\ UNCHANGED officeVars
  \/ OnlyOffice("wheel") /\ Whl!WheelNext
  \/ OnlyOffice("window") /\ Win!WindowNext
  \/ OnlyOffice("exposure") /\ Exp!ExposureNext
  \/ OnlyOffice("positioning") /\ Pos!PositionNext
  \/ OnlyOffice("diagnostics") /\ Diag!DiagnosticsNext
  \/ OnlyOffice("settings") /\ Sets!SettingsNext
  \/ OnlyOffice("parser") /\ Parse!ParserNext
  \/ OnlyOffice("session") /\ Asst!SessionNext
  \/ OnlyOffice("assistant") /\ Asst!AssistantNext

\* What each component is fair to: the fairness of its own module, asked of the
\* part that acts. Of the exposure only the live view's frames would arrive at rest too.
Fairness ==
  /\ EquipmentFairness
  /\ WF_wheelVars(Acts("wheel") /\ Whl!Driver)
  /\ WF_wheelVars(Acts("wheel") /\ Whl!GraceEnds)
  /\ WF_wheelVars(Acts("wheel") /\ Whl!PollOnce(TRUE))
  /\ WF_exposureVars(Acts("exposure") /\ Exp!Frame)
  /\ WF_exposureVars(Acts("exposure") /\ Exp!ApplyAutoExposure)

Spec == Init /\ [][Next]_vars /\ Fairness

-------------------------------------------------------------------------------
(* The properties: what several components promise under one name. *)

\* Every component's state stays in its types and limits: what a camera may
\* be set to, the queue of filter changes, the screws, the bundles kept.
TypesOK ==
  /\ EquipmentTypeOK
  /\ Acts("wheel") => Whl!WheelTypeOK
  /\ Acts("window") => Win!WindowTypeOK
  /\ Acts("exposure") => Exp!ExposureTypeOK
  /\ Acts("positioning") => Pos!PositionTypeOK
  /\ Acts("diagnostics") => Diag!DiagnosticsTypeOK
  /\ Acts("settings") => Sets!SettingsTypeOK
  /\ Acts("session") \/ Acts("assistant") => Asst!CollimationTypeOK

\* What is reported as done or kept is so: a filter change has ended in the
\* slot asked for (IndiFilterWheelAdapter); a bundle that was reported is
\* removed only past its age or behind newer ones, and what a pull returns
\* was transferred whole or reported as failed before (DiagnosticService,
\* pull_bundle); the file holds the settings the panels show, but for what
\* could not be read and an exposure the camera refused (CameraPanelSettings).
SettledAsSaid ==
  /\ Acts("wheel") => Whl!SettledAsSaid
  /\ Acts("diagnostics") => Diag!NewestKept /\ Diag!PullReported
  /\ Acts("settings") => Sets!Remembered

\* The elements of a driver are cut from the stream exactly as they were sent,
\* however the socket cuts it (IncrementalIndiParser).
StreamCut == Acts("parser") => Parse!ParserTypeOK /\ Parse!CutAsSent

\* What the operator is offered agrees with what is selected, calibrated and
\* measured: the main window's choices, the arrows of the alignment panel,
\* the advice of the collimation assistant.
OffersAgree ==
  /\ Acts("window") => Win!WindowConsistent
  /\ Acts("positioning") => Pos!MovesAsAsked /\ Pos!ButtonsTruthful
  /\ Acts("session") => Asst!PausedKnowsWhere
  /\ Acts("assistant") => Asst!AdviceReduces /\ Asst!AnalysedInOrder

\* What has begun ends: the work of the components with a device, a filter
\* change, a correction of the exposure.
Pending == AtWork \/ Whl!ChangePending \/ (part = "exposure" /\ Exp!Correcting)
EverythingEnds == Pending ~> ~Pending
===============================================================================
