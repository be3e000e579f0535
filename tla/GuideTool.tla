------------------------------ MODULE GuideTool ------------------------------
(***************************************************************************)
(* GuideTool: the guiding loop of application/guide_controller.py with the *)
(* tracker of the guide star and the corrections it would send, and the    *)
(* window (guide_tool/ui/main_window.py) that starts and stops it, changes *)
(* its camera between runs and closes over both.                           *)
(***************************************************************************)
EXTENDS Integers

CONSTANTS
  Places,      \* the places 1..Places of the star on the sensor
  Tolerance,   \* how far the locked star may have moved in one frame
  Search,      \* the same while it is lost
  LostFrames,  \* frames lost before the tracker searches
  Deadband,    \* an error not worth a pulse
  Fallback     \* bad frames in a row before the source is called bad

VARIABLES
  measureOnly,  \* pulses are computed and not sent
  star,         \* where the star is; 0: not detected
  paused,       \* the pulses are paused
  rebase,       \* the next frame defines a new target
  guiding,      \* a run: the controller has a thread
  stopSet,      \* the loop is told to end
  loop,         \* the thread: [at, seen, good, pulses]
  tracker,      \* [state, x, streak]
  target,       \* the place to hold; 0: none
  bad,          \* frames in a row that were not good, up to Fallback
  shown,        \* the published status: [state, health]
  window,       \* "open", "joining" (the GUI thread is in stop()), "leaving" (in closeEvent), "shut"
  camOpen       \* the camera in use is connected

guideVars == <<measureOnly, star, paused, rebase, guiding, stopSet, loop, tracker, target, bad,
               shown, window, camOpen>>
controls == <<measureOnly, paused, guiding, stopSet, window, camOpen>>

NoLoop == [at |-> "none", seen |-> 0, good |-> FALSE, pulses |-> 0]
Distance(a, b) == IF a < b THEN b - a ELSE a - b
Capped(n) == IF n > Fallback THEN Fallback ELSE n

-----------------------------------------------------------------------------
(* RoiTracker and the error of one frame.                                    *)

Acquire(x) == [state |-> "locked", x |-> x, streak |-> 0]

\* The star nearest to where it was, within the tolerance, or farther off while it is lost.
Update(t, x) ==
  LET searching == t.state \in {"lost", "searching"}
  IN  IF x # 0 /\ Distance(x, t.x) <= (IF searching THEN Search ELSE Tolerance)
      THEN [state |-> IF searching THEN "reacquired" ELSE "locked", x |-> x, streak |-> 0]
      ELSE IF t.state \in {"locked", "reacquired"} THEN [t EXCEPT !.state = "lost", !.streak = 1]
      ELSE IF t.state = "lost" /\ t.streak + 1 > LostFrames
           THEN [t EXCEPT !.state = "searching", !.streak = 0]
      ELSE IF t.state = "lost" THEN [t EXCEPT !.streak = @ + 1] ELSE t

Accepted(t) == t.state \in {"locked", "reacquired"}

\* One axis, one pulse, unless the error is within the deadband.
WouldPulses(error) == IF Distance(error, 0) <= Deadband THEN 0 ELSE 1

-----------------------------------------------------------------------------
(* The loop's thread.                                                        *)

\* The newest frame, or none in time.
WaitLatest ==
  /\ loop.at = "waiting"
  /\ IF stopSet THEN loop' = NoLoop
     ELSE \/ loop' = [loop EXCEPT !.at = "publishing"]
          \/ loop' = [loop EXCEPT !.at = "measuring", !.seen = star]
  /\ UNCHANGED <<controls, star, rebase, tracker, target, bad, shown>>

\* The target this frame is measured against; a request for a new one forgets it.
Baselined == IF rebase THEN 0 ELSE target

\* The sources are detected first, the request is looked at afterwards. Without a target the star
\* of this frame becomes it. A frame captured too long ago is measured like any other, but not good.
MeasureOne(inTime) ==
  /\ loop.at = "measuring"
  /\ rebase' = FALSE
  /\ IF Baselined = 0 /\ loop.seen = 0
     THEN /\ target' = 0 /\ tracker' = tracker
          /\ loop' = [loop EXCEPT !.at = "sending", !.seen = 0]
     ELSE IF Baselined = 0
     THEN /\ target' = loop.seen /\ tracker' = Acquire(loop.seen)
          /\ loop' = [loop EXCEPT !.at = "sending", !.seen = 0, !.good = inTime]
     ELSE /\ target' = target /\ tracker' = Update(tracker, loop.seen)
          /\ LET error == IF Accepted(tracker') THEN tracker'.x - target ELSE 0
             IN  loop' = [loop EXCEPT !.at = "sending", !.seen = 0,
                                      !.good = Accepted(tracker') /\ inTime,
                                      !.pulses = WouldPulses(error)]
  /\ UNCHANGED <<controls, star, bad, shown>>

\* The measurement raises: a bad frame.
MeasurementFails ==
  /\ loop.at = "measuring"
  /\ loop' = [loop EXCEPT !.at = "publishing", !.seen = 0]
  /\ UNCHANGED <<controls, star, rebase, tracker, target, bad, shown>>

\* Read once, before the pulses of the frame.
Sends == ~measureOnly /\ ~paused /\ loop.pulses > 0

SendPulses ==
  /\ loop.at = "sending"
  /\ loop' = [loop EXCEPT !.at = IF Sends THEN "pulsing" ELSE "publishing", !.pulses = 0]
  /\ UNCHANGED <<controls, star, rebase, tracker, target, bad, shown>>

\* The mount's call returns, with or without an error, which is logged. The star moves.
PulseSent ==
  /\ loop.at = "pulsing"
  /\ loop' = [loop EXCEPT !.at = "publishing"]
  /\ UNCHANGED <<controls, star, rebase, tracker, target, bad, shown>>

\* source_state_from_error: an error of the stream is shown for the frame that met it only.
Publish ==
  /\ loop.at = "publishing"
  /\ bad' = IF loop.good THEN 0 ELSE Capped(bad + 1)
  /\ \E streamError \in BOOLEAN :
       shown' = [state  |-> IF guiding THEN "running" ELSE "idle",
                 health |-> IF streamError THEN "hard_failed"
                            ELSE IF bad' >= Fallback THEN "transient_bad" ELSE "healthy"]
  /\ loop' = [NoLoop EXCEPT !.at = "waiting"]
  /\ UNCHANGED <<controls, star, rebase, tracker, target>>

-----------------------------------------------------------------------------
(* The window, and the sky.                                                  *)

\* A run begins without a target; a pause asked for before it is kept.
Fresh == target' = 0 /\ bad' = 0

Start ==
  /\ window = "open" /\ ~guiding
  /\ guiding' = TRUE /\ stopSet' = FALSE /\ rebase' = FALSE /\ Fresh
  /\ loop' = [NoLoop EXCEPT !.at = "waiting"]
  /\ shown' = [state |-> "running", health |-> "unknown"]
  /\ UNCHANGED <<measureOnly, star, paused, tracker, window, camOpen>>

\* The thread has ended. (Past ten seconds the join gives up; no frame takes that long.)
Joined == loop.at = "none"

\* stop(), from the button or from closeEvent: the loop is told, its stream stopped, and awaited.
StopBegins ==
  /\ window = "open" /\ stopSet' = TRUE
  /\ \/ guiding /\ window' = "joining"
     \/ window' = "leaving"
  /\ UNCHANGED <<measureOnly, star, paused, rebase, guiding, loop, tracker, target, bad, shown,
                 camOpen>>

\* closeEvent disconnects the camera after it.
StopEnds ==
  /\ window \in {"joining", "leaving"} /\ Joined
  /\ guiding' = FALSE /\ shown' = [state |-> "idle", health |-> "unknown"]
  /\ IF window = "leaving" THEN window' = "shut" /\ camOpen' = FALSE
     ELSE window' = "open" /\ camOpen' = camOpen
  /\ UNCHANGED <<measureOnly, star, paused, rebase, stopSet, loop, tracker, target, bad>>

\* Another camera, between runs only: a controller of its own takes its place. A failed switch
\* keeps or restores the camera of before, or ends with the demo camera.
ConnectCamera ==
  /\ window = "open" /\ ~guiding /\ measureOnly
  /\ stopSet' = FALSE /\ paused' = FALSE /\ rebase' = FALSE /\ target' = 0 /\ bad' = 0
  /\ tracker' = [state |-> "initializing", x |-> 0, streak |-> 0]
  /\ shown' = [state |-> "idle", health |-> "unknown"]
  /\ UNCHANGED <<measureOnly, star, guiding, loop, window, camOpen>>

\* Without a mount there is nothing to pause.
PausePulses ==
  /\ ~measureOnly /\ paused' = ~paused
  /\ UNCHANGED <<measureOnly, star, rebase, guiding, stopSet, loop, tracker, target, bad, shown,
                 window, camOpen>>

\* Asked for between runs it is forgotten at the start.
Rebaseline ==
  /\ guiding /\ rebase' = TRUE
  /\ UNCHANGED <<controls, star, loop, tracker, target, bad, shown>>

\* The star moves, is hidden or found.
Drift ==
  /\ star' \in {0} \cup {s \in 1..Places : star = 0 \/ Distance(s, star) <= 1}
  /\ UNCHANGED <<controls, rebase, loop, tracker, target, bad, shown>>

-----------------------------------------------------------------------------
GuideInit ==
  /\ measureOnly \in BOOLEAN /\ star = 1 /\ paused = FALSE /\ rebase = FALSE
  /\ guiding = FALSE /\ stopSet = FALSE /\ loop = NoLoop
  /\ tracker = [state |-> "initializing", x |-> 0, streak |-> 0]
  /\ target = 0 /\ bad = 0 /\ shown = [state |-> "idle", health |-> "unknown"]
  /\ window = "open" /\ camOpen = TRUE

Loop ==
  \/ WaitLatest \/ MeasurementFails \/ SendPulses \/ PulseSent \/ Publish
  \/ \E inTime \in BOOLEAN : MeasureOne(inTime)

GuideNext ==
  \/ Loop \/ StopEnds
  \/ window # "shut" /\ (Start \/ StopBegins \/ ConnectCamera \/ PausePulses \/ Rebaseline \/ Drift)

\* The thread runs, and the join returns.
GuideFairness == WF_guideVars(Loop) /\ WF_guideVars(StopEnds)

GuideSpec == GuideInit /\ [][GuideNext]_guideVars /\ GuideFairness

-----------------------------------------------------------------------------
\* Types of the guiding loop's state (GuideController).
GuideTypeOK ==
  /\ {measureOnly, paused, rebase, guiding, stopSet, camOpen} \subseteq BOOLEAN
  /\ {star, target, tracker.x, loop.seen} \subseteq 0..Places /\ bad \in 0..Fallback
  /\ loop.at \in {"none", "waiting", "measuring", "sending", "pulsing", "publishing"}
  /\ tracker.state \in {"initializing", "locked", "lost", "searching", "reacquired"}
  /\ shown.health \in {"unknown", "healthy", "transient_bad", "hard_failed"}
  /\ window \in {"open", "joining", "leaving", "shut"}

\* A pulse moves the mount only in closed loop, for a star that this frame has found, off the
\* target, and never in the first frame of a run, which defines the target; none is sent, and no
\* frame measured, once stop() has returned or the camera is disconnected.
PulsesJustified ==
  /\ loop.at = "pulsing" => /\ ~measureOnly /\ Accepted(tracker) /\ tracker.x # target
                            /\ shown.health # "unknown"
  /\ (~guiding \/ ~camOpen) => loop.at = "none"

\* stop() is in progress.
StopPending == window \in {"joining", "leaving"}
=============================================================================
