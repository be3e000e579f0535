---------------------------- MODULE Equipment_proofs ----------------------------
(***************************************************************************)
(* What the components that work a device guarantee for all values of      *)
(* their parameters.                                                       *)
(***************************************************************************)
EXTENDS Equipment, MountLink_proofs, SequenceTheorems,
        WellFoundedInduction

-------------------------------------------------------------------------------
(* Park and unpark (MountParkPanel).                                         *)

PanelStates ==
  [linked : BOOLEAN, inFlight : BOOLEAN, pending : {"park", "unpark", "none"}, seen : BOOLEAN,
   worker : {"none", "alive", "dead"}, failed : BOOLEAN, button : {"park", "unpark", "none"},
   said : {"park", "unpark", "none", "stopped", "failed", "timeout"}, blocked : BOOLEAN]
Mounts == [parked : BOOLEAN, tracking : BOOLEAN, goal : {"park", "unpark", "none"}]

\* An unpark that was seen busy and now is not has arrived; a call that has returned leaves
\* nothing on its way; and what was said of an unpark stays so until the next command.
Concluded(m, p) ==
  /\ p.pending = "unpark" /\ p.seen /\ ~m.parked => m.goal = "none"
  /\ p.worker = "dead" /\ p.pending # "none" => m.goal = "none"
  /\ p.said = "unpark" => m.goal = "none" /\ (~m.tracking \/ p.blocked)

ParkInv ==
  /\ long \in BOOLEAN /\ mount \in Mounts /\ panel \in PanelStates
  /\ owner \in {"none", "panel", "other"} /\ calls \in {0, 1}
  /\ (calls = 1 => owner = "panel" /\ long)
  /\ panel.worker # "none" => long
  /\ Concluded(mount, panel)

\* The invariant of the panel holds its types, its one call, and the policy after an unpark.
LEMMA ParkFacts == ParkInv => Park!ParkTypeOK /\ Park!OneParkCall /\ Park!UnparkEnforced
<1> SUFFICES ASSUME ParkInv PROVE Park!ParkTypeOK /\ Park!OneParkCall /\ Park!UnparkEnforced
  OBVIOUS
<1>1. mount \in [parked : BOOLEAN, tracking : BOOLEAN, goal : Park!Actions \cup {"none"}]
  BY DEF ParkInv, Mounts, Park!Actions
<1>2. /\ panel.worker \in {"none", "alive", "dead"}
      /\ panel.pending \in Park!Actions \cup {"none"}
      /\ panel.said \in Park!Actions \cup {"none", "stopped", "failed", "timeout"}
  BY DEF ParkInv, PanelStates, Park!Actions
<1>3. owner \in {"none", "panel", "other"} /\ calls \in Nat /\ Park!OneParkCall
  BY DEF ParkInv, Park!OneParkCall
<1>4. Park!UnparkEnforced
  BY DEF ParkInv, Park!UnparkEnforced, Concluded
<1> QED
  BY <1>1, <1>2, <1>3, <1>4 DEF Park!ParkTypeOK

\* The panel starts idle, in the invariant.
LEMMA ParkStarts == Park!ParkInit => ParkInv
<1> SUFFICES ASSUME Park!ParkInit PROVE ParkInv
  OBVIOUS
<1>1. mount \in Mounts /\ mount.goal = "none"
  BY DEF Park!ParkInit, Mounts
<1>2. panel \in PanelStates
  BY DEF Park!ParkInit, PanelStates
<1>3. panel.said = "none" /\ panel.worker = "none" /\ panel.pending = "none"
  BY DEF Park!ParkInit
<1>4. long \in BOOLEAN /\ owner = "none" /\ calls = 0
  BY DEF Park!ParkInit
<1> QED
  BY <1>1, <1>2, <1>3, <1>4 DEF ParkInv, Concluded

\* Only the button is set, to a word it has.
LEMMA ButtonsOnly ==
  ASSUME NEW p \in PanelStates
  PROVE  /\ Park!UpdateButtons(p) \in PanelStates
         /\ \A m : Concluded(m, p) => Concluded(m, Park!UpdateButtons(p))
         /\ Park!UpdateButtons(p).worker = p.worker
<1>1. \E b \in {"park", "unpark", "none"} : Park!UpdateButtons(p) = [p EXCEPT !.button = b]
  BY DEF Park!UpdateButtons, PanelStates
<1>2. PICK b \in {"park", "unpark", "none"} : Park!UpdateButtons(p) = [p EXCEPT !.button = b]
  BY <1>1
<1> DEFINE q == Park!UpdateButtons(p)
<1>3. q \in PanelStates
  BY <1>2 DEF PanelStates
<1>4. q.pending = p.pending /\ q.seen = p.seen /\ q.worker = p.worker /\ q.said = p.said
        /\ q.blocked = p.blocked
  BY <1>2 DEF PanelStates
<1> HIDE DEF q
<1>5. \A m : Concluded(m, p) => Concluded(m, q)
  BY <1>4 DEF Concluded
<1> QED
  BY <1>3, <1>4, <1>5 DEF q

\* Tracking switched off, or the measurement blocked.
LEMMA Enforced ==
  ASSUME ParkInv, NEW p \in PanelStates, p.worker # "none" => long, p.pending = "none",
         p.said = "unpark" => mount.goal = "none", Park!EnforceTracking(p)
  PROVE  /\ mount' \in Mounts /\ panel' \in PanelStates /\ (panel'.worker # "none" => long)
         /\ Concluded(mount', panel')
<1>1. CASE mount' = [mount EXCEPT !.tracking = FALSE] /\ panel' = Park!UpdateButtons(p)
  <2>1. mount' \in Mounts /\ Concluded(mount', p)
    BY <1>1 DEF ParkInv, Mounts, Concluded
  <2> QED
    BY <1>1, <2>1, ButtonsOnly
<1>2. CASE mount' = mount /\ panel' = Park!UpdateButtons([p EXCEPT !.blocked = TRUE])
  <2> DEFINE q == [p EXCEPT !.blocked = TRUE]
  <2>1. q \in PanelStates /\ Concluded(mount, q) /\ q.worker = p.worker
    BY DEF PanelStates, Concluded
  <2>2. mount \in Mounts
    BY DEF ParkInv
  <2> QED
    BY <1>2, <2>1, <2>2, ButtonsOnly
<1> QED
  BY <1>1, <1>2 DEF Park!EnforceTracking

\* The panel as a poll leaves it.
LEMMA Settles ==
  ASSUME ParkInv, NEW p \in PanelStates, p.worker # "none" => long, Concluded(mount, p),
         mount' = mount /\ panel' = Park!UpdateButtons(p)
  PROVE  /\ mount' \in Mounts /\ panel' \in PanelStates /\ (panel'.worker # "none" => long)
         /\ Concluded(mount', panel')
<1>1. mount \in Mounts
  BY DEF ParkInv
<1> QED
  BY <1>1, ButtonsOnly

\* An action that has succeeded, on a mount that has arrived where it was unparked.
LEMMA Succeeds ==
  ASSUME ParkInv, NEW p \in PanelStates, p.worker # "none" => long, p.pending = "none",
         p.said = panel.pending, panel.pending = "unpark" => mount.goal = "none",
         Park!Conclude(p)
  PROVE  /\ mount' \in Mounts /\ panel' \in PanelStates /\ (panel'.worker # "none" => long)
         /\ Concluded(mount', panel')
<1>1. CASE panel.pending = "unpark"
  BY <1>1, Enforced DEF Park!Conclude
<1>2. CASE panel.pending # "unpark"
  <2>1. Concluded(mount, p)
    BY <1>2 DEF Concluded
  <2> QED
    BY <1>2, <2>1, Settles DEF Park!Conclude
<1> QED
  BY <1>1, <1>2

\* One look at an action whose call returned at once.
LEMMA TransitionObserved ==
  ASSUME ParkInv, NEW read \in BOOLEAN, NEW expired \in BOOLEAN, panel.worker = "none",
         Park!ObserveTransition(panel, read, expired)
  PROVE  /\ mount' \in Mounts /\ panel' \in PanelStates /\ (panel'.worker # "none" => long)
         /\ Concluded(mount', panel')
<1> DEFINE busy == read /\ mount.parked # (panel.pending = "park")
           ended == panel.inFlight /\ read /\ ~busy /\ panel.seen
<1>0. panel \in PanelStates /\ mount \in Mounts /\ Concluded(mount, panel)
  BY DEF ParkInv
<1>1. CASE ended
  <2> DEFINE p == [Park!Idle(panel) EXCEPT !.said = panel.pending]
  <2>1. Park!Conclude(p)
    BY <1>1 DEF Park!ObserveTransition
  <2>2. p \in PanelStates /\ p.worker = "none" /\ p.pending = "none" /\ p.said = panel.pending
    BY <1>0 DEF PanelStates, Park!Idle
  <2>3. panel.pending = "unpark" => mount.goal = "none"
    BY <1>0, <1>1 DEF Concluded, Mounts
  <2> QED
    BY <2>1, <2>2, <2>3, Succeeds
<1>2. CASE ~ended /\ panel.inFlight /\ expired
  <2> DEFINE p == [Park!Idle(panel) EXCEPT !.said = "timeout"]
  <2>1. mount' = mount /\ panel' = Park!UpdateButtons(p)
    BY <1>2 DEF Park!ObserveTransition
  <2>2. p \in PanelStates /\ p.worker = "none" /\ p.pending = "none" /\ p.said = "timeout"
    BY <1>0 DEF PanelStates, Park!Idle
  <2> QED
    BY <2>1, <2>2, Settles DEF Concluded
<1>3. CASE ~ended /\ ~(panel.inFlight /\ expired)
  <2> DEFINE p == [panel EXCEPT !.seen = @ \/ (panel.inFlight /\ busy)]
  <2>1. mount' = mount /\ panel' = Park!UpdateButtons(p)
    BY <1>3 DEF Park!ObserveTransition
  <2>2. p \in PanelStates /\ p.worker = "none"
    BY <1>0 DEF PanelStates
  <2>3. Concluded(mount, p)
    BY <1>0 DEF PanelStates, Mounts, Concluded
  <2> QED
    BY <2>1, <2>2, <2>3, Settles
<1> QED
  BY <1>1, <1>2, <1>3

\* The end of a call made on a thread.
LEMMA WorkerObserved ==
  ASSUME ParkInv, panel.worker = "dead", Park!ObserveWorker(panel)
  PROVE  /\ mount' \in Mounts /\ panel' \in PanelStates /\ (panel'.worker # "none" => long)
         /\ Concluded(mount', panel')
<1> DEFINE settled == [Park!Idle(panel) EXCEPT !.worker = "none"]
<1>0. panel \in PanelStates /\ mount \in Mounts /\ Concluded(mount, panel)
  BY DEF ParkInv
<1>1. ASSUME NEW s \in {"stopped", "failed"},
             mount' = mount /\ panel' = Park!UpdateButtons([settled EXCEPT !.said = s])
      PROVE  /\ mount' \in Mounts /\ panel' \in PanelStates /\ (panel'.worker # "none" => long)
             /\ Concluded(mount', panel')
  <2> DEFINE p == [settled EXCEPT !.said = s]
  <2>1. p \in PanelStates /\ p.worker = "none" /\ p.pending = "none" /\ p.said = s
    BY <1>0 DEF PanelStates, Park!Idle
  <2> QED
    BY <1>1, <2>1, Settles DEF Concluded
<1>2. CASE stopped
  BY <1>1, <1>2 DEF Park!ObserveWorker
<1>3. CASE ~stopped /\ panel.failed
  BY <1>1, <1>3 DEF Park!ObserveWorker
<1>4. CASE ~stopped /\ ~panel.failed
  <2> DEFINE p == [settled EXCEPT !.said = panel.pending]
  <2>1. Park!Conclude(p)
    BY <1>4 DEF Park!ObserveWorker
  <2>2. p \in PanelStates /\ p.worker = "none" /\ p.pending = "none" /\ p.said = panel.pending
    BY <1>0 DEF PanelStates, Park!Idle
  <2>3. panel.pending = "unpark" => mount.goal = "none"
    BY <1>0 DEF Concluded
  <2> QED
    BY <2>1, <2>2, <2>3, Succeeds
<1> QED
  BY <1>2, <1>3, <1>4

\* A click begins an action, the claim with it where the call lasts.
LEMMA ActionBegun ==
  ASSUME ParkInv, NEW a \in Park!Actions, Park!BeginAction(a)
  PROVE  ParkInv'
<1>1. mount' \in Mounts /\ panel' \in PanelStates
  BY DEF ParkInv, Mounts, PanelStates, Park!BeginAction, Park!Actions
<1>2. panel'.worker # "none" => long'
  BY DEF ParkInv, PanelStates, Park!BeginAction
<1>3. Concluded(mount', panel')
  <2>1. panel'.said = "none" /\ panel'.seen = FALSE /\ panel'.worker # "dead"
    BY DEF ParkInv, PanelStates, Park!BeginAction
  <2> QED
    BY <2>1 DEF Concluded
<1>4. /\ long' \in BOOLEAN /\ owner' \in {"none", "panel", "other"} /\ calls' \in {0, 1}
      /\ (calls' = 1 => owner' = "panel" /\ long')
  BY DEF ParkInv, Park!BeginAction, Park!Free
<1> QED
  BY <1>1, <1>2, <1>3, <1>4 DEF ParkInv, Concluded

\* Every action of the panel, its worker and its polls keeps the invariant.
LEMMA ParkStep ==
  ASSUME ParkInv, [Park!ParkNext]_parkVars
  PROVE  ParkInv'
<1>0. panel \in PanelStates /\ mount \in Mounts /\ Concluded(mount, panel)
  BY DEF ParkInv
<1>1. CASE Park!PollStatus
  <2>1. /\ mount' \in Mounts /\ panel' \in PanelStates /\ (panel'.worker # "none" => long)
        /\ Concluded(mount', panel')
    <3>1. PICK expired \in BOOLEAN :
            \/ Park!PollOnce(panel, expired)
            \/ panel.worker = "none" /\ Park!ObserveTransition(panel, FALSE, expired)
      BY <1>1 DEF Park!PollStatus
    <3>2. CASE panel.worker = "alive" /\ Park!PollOnce(panel, expired)
      <4>1. mount' = mount /\ panel' = Park!UpdateButtons(panel)
        BY <3>2 DEF Park!PollOnce
      <4> QED
        BY <1>0, <4>1, Settles DEF ParkInv
    <3>3. CASE panel.worker = "dead" /\ Park!PollOnce(panel, expired)
      BY <3>3, WorkerObserved DEF Park!PollOnce
    <3>4. CASE panel.worker = "none"
      BY <3>1, <3>4, TransitionObserved DEF Park!PollOnce
    <3> QED
      BY <1>0, <3>1, <3>2, <3>3, <3>4 DEF PanelStates
  <2> QED
    BY <1>1, <2>1 DEF ParkInv, Concluded, Park!PollStatus
<1>2. CASE Park!Arrive
  <2>1. PICK tracking \in IF mount.goal = "unpark" THEN BOOLEAN ELSE {FALSE} :
          mount' = [parked |-> mount.goal = "park", tracking |-> tracking, goal |-> "none"]
    BY <1>2 DEF Park!Arrive
  <2>2. mount' \in Mounts /\ mount'.goal = "none" /\ tracking \in BOOLEAN
    BY <2>1 DEF Mounts
  <2>3. Concluded(mount', panel)
    BY <1>0, <1>2, <2>2 DEF Concluded, Park!Arrive
  <2> QED
    BY <1>2, <2>2, <2>3 DEF ParkInv, Concluded, Park!Arrive
<1>3. CASE Park!RunAction
  <2>1. PICK failed \in BOOLEAN : panel' = [panel EXCEPT !.worker = "dead", !.failed = failed]
    BY <1>3 DEF Park!RunAction
  <2>2. mount' = [mount EXCEPT !.goal = "none"] /\ mount' \in Mounts /\ mount'.goal = "none"
    BY <1>0, <1>3 DEF Park!RunAction, Mounts
  <2>3. panel' \in PanelStates
    BY <1>0, <2>1 DEF PanelStates
  <2>4. Concluded(mount', panel')
    BY <1>0, <2>1, <2>2 DEF Concluded, PanelStates, Mounts
  <2>5. /\ long' = long /\ long /\ owner' \in {"none", "panel", "other"} /\ calls' = 0
    BY <1>3 DEF ParkInv, Park!RunAction
  <2> QED
    BY <2>2, <2>3, <2>4, <2>5 DEF ParkInv, Concluded
<1>4. CASE Park!OtherMotion
  BY <1>4 DEF ParkInv, Concluded, Park!OtherMotion
<1>5. CASE Park!StopMotion
  BY <1>5 DEF ParkInv, Concluded, Park!StopMotion
<1>6. CASE Park!Connect
  <2> DEFINE p == [Park!Idle(panel) EXCEPT !.linked = TRUE, !.said = "none", !.blocked = FALSE,
                                           !.worker = IF @ = "dead" THEN "none" ELSE @]
  <2>1. p \in PanelStates /\ p.pending = "none" /\ p.said = "none" /\ (p.worker # "none" => long)
    BY <1>0 DEF ParkInv, PanelStates, Park!Idle
  <2>2. CASE Park!EnforceTracking(p)
    <3>1. /\ mount' \in Mounts /\ panel' \in PanelStates /\ (panel'.worker # "none" => long)
          /\ Concluded(mount', panel')
      BY <2>1, <2>2, Enforced
    <3> QED
      BY <1>6, <3>1 DEF ParkInv, Concluded, Park!Connect
  <2>3. CASE UNCHANGED <<mount, panel>>
    BY <1>6, <2>3 DEF ParkInv, Concluded, Park!Connect
  <2> QED
    BY <1>6, <2>2, <2>3 DEF Park!Connect
<1>7. CASE Park!Disconnect
  <2> DEFINE p == [Park!Idle(panel) EXCEPT !.linked = FALSE, !.said = "none"]
  <2>1. p \in PanelStates /\ p.pending = "none" /\ p.said = "none" /\ p.worker = panel.worker
    BY <1>0 DEF PanelStates, Park!Idle
  <2>2. /\ mount' \in Mounts /\ panel' \in PanelStates /\ (panel'.worker # "none" => long)
        /\ Concluded(mount', panel')
    BY <1>7, <2>1, Settles DEF ParkInv, Concluded, Park!Disconnect
  <2> QED
    BY <1>7, <2>2 DEF ParkInv, Concluded, Park!Disconnect
<1>8. CASE \E a \in Park!Actions : Park!BeginAction(a)
  BY <1>8, ActionBegun
<1>9. CASE UNCHANGED parkVars
  BY <1>9 DEF ParkInv, Concluded, parkVars
<1> QED
  BY <1>1, <1>2, <1>3, <1>4, <1>5, <1>6, <1>7, <1>8, <1>9 DEF Park!ParkNext

-------------------------------------------------------------------------------
(* The guiding of GuideTool (GuideController and its window).                *)

Loops ==
  [at : {"none", "waiting", "measuring", "sending", "pulsing", "publishing"},
   seen : 0 .. StarPlaces, good : BOOLEAN, pulses : {0, 1}]
Trackers ==
  [state : {"initializing", "locked", "lost", "searching", "reacquired"},
   x : 0 .. StarPlaces, streak : Nat]
Healths == {"unknown", "healthy", "transient_bad", "hard_failed"}

\* The star was found in this frame, off the target, and not in the first frame of a run.
Justified(t, g, s) == Guide!Accepted(t) /\ t.x # g /\ s.health # "unknown"

\* Until a frame was measured there is no target, and only the frame that was measured asks for
\* pulses; the thread lives within a run, and no window closes over it.
LoopInv ==
  /\ loop \in Loops /\ tracker \in Trackers /\ shown \in [state : {"idle", "running"}, health : Healths]
  /\ target \in 0 .. StarPlaces /\ star \in 0 .. StarPlaces /\ bad \in 0 .. Fallback
  /\ shown.health = "unknown" /\ loop.at \in {"waiting", "measuring"} => target = 0
  /\ loop.pulses = 1 => loop.at = "sending" /\ Justified(tracker, target, shown)
  /\ loop.at = "pulsing" => ~measureOnly /\ Justified(tracker, target, shown)
  /\ (~guiding \/ window = "shut") => loop.at = "none"
ControlInv ==
  /\ measureOnly \in BOOLEAN /\ paused \in BOOLEAN /\ rebase \in BOOLEAN /\ guiding \in BOOLEAN
  /\ stopSet \in BOOLEAN /\ camOpen \in BOOLEAN
  /\ window \in {"open", "joining", "leaving", "shut"}
  /\ ~camOpen => window = "shut"
GuideInv == LoopInv /\ ControlInv

\* Nothing counted and nowhere are among the counts and the places.
LEMMA GuideZeros ==
  /\ 0 \in 0 .. StarPlaces /\ 1 \in 0 .. StarPlaces /\ 0 \in 0 .. Fallback
  /\ Fallback \in Nat /\ Deadband \in Nat
<1>1. StarPlaces \in Nat /\ StarPlaces # 0 /\ Fallback \in Nat /\ Deadband \in Nat
  BY EquipmentAssumption
<1> QED
  BY <1>1

\* The invariant of the guiding holds its types, and a pulse only for the star of its frame.
LEMMA GuideFacts == GuideInv => Guide!GuideTypeOK /\ Guide!PulsesJustified
<1> SUFFICES ASSUME GuideInv PROVE Guide!GuideTypeOK /\ Guide!PulsesJustified
  OBVIOUS
<1>1. /\ tracker.x \in 0 .. StarPlaces /\ loop.seen \in 0 .. StarPlaces
      /\ loop.at \in {"none", "waiting", "measuring", "sending", "pulsing", "publishing"}
      /\ tracker.state \in {"initializing", "locked", "lost", "searching", "reacquired"}
      /\ shown.health \in {"unknown", "healthy", "transient_bad", "hard_failed"}
  BY DEF GuideInv, LoopInv, Loops, Trackers, Healths
<1>2. Guide!GuideTypeOK
  BY <1>1 DEF GuideInv, LoopInv, ControlInv, Guide!GuideTypeOK
<1>3. Guide!PulsesJustified
  BY DEF GuideInv, LoopInv, ControlInv, Justified, Guide!PulsesJustified
<1> QED
  BY <1>2, <1>3

\* The guiding starts with nothing measured, in the invariant.
LEMMA GuideStarts == Guide!GuideInit => GuideInv
<1> SUFFICES ASSUME Guide!GuideInit PROVE GuideInv
  OBVIOUS
<1> USE GuideZeros
<1>1. loop \in Loops /\ loop.at = "none" /\ loop.pulses = 0
  BY DEF Guide!GuideInit, Guide!NoLoop, Loops
<1>2. tracker \in Trackers /\ shown \in [state : {"idle", "running"}, health : Healths]
  BY DEF Guide!GuideInit, Trackers, Healths
<1>3. target \in 0 .. StarPlaces /\ star \in 0 .. StarPlaces /\ bad \in 0 .. Fallback
  BY DEF Guide!GuideInit
<1>4. LoopInv
  BY <1>1, <1>2, <1>3 DEF LoopInv
<1>5. ControlInv
  BY DEF Guide!GuideInit, ControlInv
<1> QED
  BY <1>4, <1>5 DEF GuideInv

\* An update keeps the tracker among its states.
LEMMA TrackerUpdates ==
  ASSUME NEW t \in Trackers, NEW x \in 0 .. StarPlaces
  PROVE  Guide!Update(t, x) \in Trackers
<1> DEFINE searching == t.state \in {"lost", "searching"}
           found == x # 0 /\ Guide!Distance(x, t.x) <= (IF searching THEN Search ELSE Tolerance)
<1>1. CASE found
  <2>1. Guide!Update(t, x) =
          [state |-> IF searching THEN "reacquired" ELSE "locked", x |-> x, streak |-> 0]
    BY <1>1 DEF Guide!Update
  <2> QED
    BY <2>1 DEF Trackers
<1>2. CASE ~found
  <2>1. Guide!Update(t, x) \in
          {[t EXCEPT !.state = "lost", !.streak = 1], [t EXCEPT !.state = "searching", !.streak = 0],
           [t EXCEPT !.streak = @ + 1], t}
    BY <1>2 DEF Guide!Update
  <2>2. [t EXCEPT !.state = "lost", !.streak = 1] \in Trackers
    BY DEF Trackers
  <2>3. [t EXCEPT !.state = "searching", !.streak = 0] \in Trackers
    BY DEF Trackers
  <2>4. [t EXCEPT !.streak = @ + 1] \in Trackers
    BY DEF Trackers
  <2> QED
    BY <2>1, <2>2, <2>3, <2>4
<1> QED
  BY <1>1, <1>2

\* One frame: only a star that it found, off the target of a frame before it, asks for pulses.
LEMMA FrameMeasured ==
  ASSUME GuideInv, NEW inTime \in BOOLEAN, Guide!MeasureOne(inTime)
  PROVE  LoopInv'
<1> USE GuideZeros
<1>0. /\ loop \in Loops /\ loop.at = "measuring" /\ loop.pulses = 0 /\ guiding /\ window # "shut"
      /\ tracker \in Trackers /\ target \in 0 .. StarPlaces
      /\ (shown.health = "unknown" => target = 0)
  BY DEF GuideInv, LoopInv, ControlInv, Loops, Guide!MeasureOne
<1>1. /\ shown' = shown /\ star' = star /\ bad' = bad /\ guiding' = guiding
      /\ window' = window /\ measureOnly' = measureOnly
  BY DEF Guide!MeasureOne, Guide!controls
<1>2. CASE Guide!Baselined = 0 /\ loop.seen = 0
  <2>1. /\ target' = 0 /\ tracker' = tracker
        /\ loop' = [loop EXCEPT !.at = "sending", !.seen = 0]
    BY <1>2 DEF Guide!MeasureOne
  <2>2. loop' \in Loops /\ loop'.at = "sending" /\ loop'.pulses = 0
    BY <1>0, <2>1 DEF Loops
  <2> QED
    BY <1>0, <1>1, <2>1, <2>2 DEF GuideInv, LoopInv
<1>3. CASE Guide!Baselined = 0 /\ loop.seen # 0
  <2>1. /\ target' = loop.seen /\ tracker' = Guide!Acquire(loop.seen)
        /\ loop' = [loop EXCEPT !.at = "sending", !.seen = 0, !.good = inTime]
    BY <1>3 DEF Guide!MeasureOne
  <2>2. loop' \in Loops /\ loop'.at = "sending" /\ loop'.pulses = 0 /\ target' \in 0 .. StarPlaces
    BY <1>0, <2>1 DEF Loops
  <2>3. tracker' \in Trackers
    BY <1>0, <2>1 DEF Trackers, Loops, Guide!Acquire
  <2> QED
    BY <1>0, <1>1, <2>1, <2>2, <2>3 DEF GuideInv, LoopInv
<1>4. CASE Guide!Baselined # 0
  <2> DEFINE error == IF Guide!Accepted(tracker') THEN tracker'.x - target ELSE 0
             good == Guide!Accepted(tracker') /\ inTime
  <2>1. /\ target' = target /\ tracker' = Guide!Update(tracker, loop.seen)
        /\ loop' = [loop EXCEPT !.at = "sending", !.seen = 0, !.good = good,
                                !.pulses = Guide!WouldPulses(error)]
    BY <1>4 DEF Guide!MeasureOne
  <2>2. tracker' \in Trackers
    <3>1. loop.seen \in 0 .. StarPlaces
      BY <1>0 DEF Loops
    <3> QED
      BY <1>0, <2>1, <3>1, TrackerUpdates
  <2>3. Guide!WouldPulses(error) \in {0, 1}
    BY DEF Guide!WouldPulses
  <2>4. Guide!WouldPulses(error) = 1 => error # 0
    BY DEF Guide!WouldPulses, Guide!Distance
  <2>5. error # 0 => Guide!Accepted(tracker') /\ tracker'.x # target
    BY <1>0, <2>2 DEF Trackers
  <2>6. good \in BOOLEAN
    BY DEF Guide!Accepted
  <2>7. target # 0
    BY <1>4 DEF Guide!Baselined
  <2> HIDE DEF error, good
  <2>8. loop' \in Loops /\ loop'.at = "sending" /\ loop'.pulses = Guide!WouldPulses(error)
    BY <1>0, <2>1, <2>3, <2>6 DEF Loops
  <2>9. loop'.pulses = 1 => Justified(tracker', target', shown')
    BY <1>0, <1>1, <2>1, <2>4, <2>5, <2>7, <2>8 DEF Justified
  <2> QED
    BY <1>0, <1>1, <2>1, <2>2, <2>8, <2>9 DEF GuideInv, LoopInv, Justified
<1> QED
  BY <1>2, <1>3, <1>4

\* A pass of the guiding loop keeps the invariant.
LEMMA LoopStep ==
  ASSUME GuideInv, Guide!Loop
  PROVE  GuideInv'
<1> USE GuideZeros
<1>0. /\ loop \in Loops /\ tracker \in Trackers /\ star \in 0 .. StarPlaces /\ bad \in 0 .. Fallback
      /\ shown \in [state : {"idle", "running"}, health : Healths]
  BY DEF GuideInv, LoopInv
<1>1. ControlInv'
  <2>1. rebase' \in BOOLEAN
    BY DEF GuideInv, ControlInv, Guide!Loop, Guide!WaitLatest, Guide!MeasureOne,
           Guide!MeasurementFails, Guide!SendPulses, Guide!PulseSent, Guide!Publish
  <2>2. UNCHANGED Guide!controls
    BY DEF Guide!Loop, Guide!WaitLatest, Guide!MeasureOne, Guide!MeasurementFails,
           Guide!SendPulses, Guide!PulseSent, Guide!Publish
  <2> QED
    BY <2>1, <2>2 DEF GuideInv, ControlInv, Guide!controls
<1>2. CASE Guide!WaitLatest
  <2>1. loop' \in {Guide!NoLoop, [loop EXCEPT !.at = "publishing"],
                   [loop EXCEPT !.at = "measuring", !.seen = star]}
    BY <1>2 DEF Guide!WaitLatest
  <2>2. loop' \in Loops /\ loop'.at \in {"none", "publishing", "measuring"} /\ loop'.pulses = 0
    <3>1. loop.pulses = 0
      BY <1>0, <1>2 DEF GuideInv, LoopInv, Loops, Guide!WaitLatest
    <3>2. CASE loop' = Guide!NoLoop
      BY <3>2 DEF Loops, Guide!NoLoop
    <3>3. CASE loop' = [loop EXCEPT !.at = "publishing"]
      BY <1>0, <3>1, <3>3 DEF Loops
    <3>4. CASE loop' = [loop EXCEPT !.at = "measuring", !.seen = star]
      BY <1>0, <3>1, <3>4 DEF Loops
    <3> QED
      BY <2>1, <3>2, <3>3, <3>4
  <2>3. loop.at = "waiting" /\ UNCHANGED <<Guide!controls, star, tracker, target, bad, shown>>
    BY <1>2 DEF Guide!WaitLatest
  <2>4. LoopInv'
    BY <2>2, <2>3 DEF GuideInv, LoopInv, Guide!controls
  <2> QED
    BY <1>1, <2>4 DEF GuideInv
<1>3. CASE Guide!MeasurementFails
  <2>1. loop' \in Loops /\ loop'.at = "publishing" /\ loop'.pulses = 0 /\ loop.at = "measuring"
    BY <1>0, <1>3 DEF GuideInv, LoopInv, Loops, Guide!MeasurementFails
  <2>2. LoopInv'
    BY <1>3, <2>1 DEF GuideInv, LoopInv, Guide!controls, Guide!MeasurementFails
  <2> QED
    BY <1>1, <2>2 DEF GuideInv
<1>4. CASE Guide!SendPulses
  <2>1. loop' \in Loops /\ loop'.at \in {"pulsing", "publishing"} /\ loop'.pulses = 0
    BY <1>0, <1>4 DEF Loops, Guide!SendPulses
  <2>2. loop'.at = "pulsing" => ~measureOnly /\ Justified(tracker, target, shown)
    <3>1. loop'.at = "pulsing" => Guide!Sends
      BY <1>0, <1>4 DEF Loops, Guide!SendPulses
    <3>2. Guide!Sends => ~measureOnly /\ loop.pulses = 1
      BY <1>0 DEF Guide!Sends, Loops
    <3> QED
      BY <3>1, <3>2 DEF GuideInv, LoopInv
  <2>3. loop.at = "sending" /\ UNCHANGED <<Guide!controls, star, tracker, target, bad, shown>>
    BY <1>4 DEF Guide!SendPulses
  <2>4. LoopInv'
    BY <2>1, <2>2, <2>3 DEF GuideInv, LoopInv, Guide!controls
  <2> QED
    BY <1>1, <2>4 DEF GuideInv
<1>5. CASE Guide!PulseSent
  <2>1. loop' \in Loops /\ loop'.at = "publishing" /\ loop'.pulses = 0 /\ loop.at = "pulsing"
    BY <1>0, <1>5 DEF GuideInv, LoopInv, Loops, Guide!PulseSent
  <2>2. LoopInv'
    BY <1>5, <2>1 DEF GuideInv, LoopInv, Guide!controls, Guide!PulseSent
  <2> QED
    BY <1>1, <2>2 DEF GuideInv
<1>6. CASE Guide!Publish
  <2>1. loop' \in Loops /\ loop'.at = "waiting" /\ loop'.pulses = 0
    BY <1>6 DEF Loops, Guide!Publish, Guide!NoLoop
  <2>2. bad' \in 0 .. Fallback
    BY <1>0, <1>6 DEF Guide!Publish, Guide!Capped
  <2>3. PICK streamError \in BOOLEAN :
          shown' = [state  |-> IF guiding THEN "running" ELSE "idle",
                    health |-> IF streamError THEN "hard_failed"
                               ELSE IF bad' >= Fallback THEN "transient_bad" ELSE "healthy"]
    BY <1>6 DEF Guide!Publish
  <2>4. shown' \in [state : {"idle", "running"}, health : Healths] /\ shown'.health # "unknown"
    BY <2>3 DEF Healths
  <2>5. /\ loop.at = "publishing"
        /\ UNCHANGED <<Guide!controls, star, tracker, target>>
    BY <1>6 DEF Guide!Publish
  <2>6. LoopInv'
    BY <2>1, <2>2, <2>4, <2>5 DEF GuideInv, LoopInv, Guide!controls
  <2> QED
    BY <1>1, <2>6 DEF GuideInv
<1>7. CASE \E inTime \in BOOLEAN : Guide!MeasureOne(inTime)
  BY <1>1, <1>7, FrameMeasured DEF GuideInv
<1> QED
  BY <1>2, <1>3, <1>4, <1>5, <1>6, <1>7 DEF Guide!Loop

\* So does every other step: Start, Stop, the camera, the star.
LEMMA GuideStep ==
  ASSUME GuideInv, [Guide!GuideNext]_guideVars
  PROVE  GuideInv'
<1> USE GuideZeros
<1>0. /\ loop \in Loops /\ tracker \in Trackers /\ star \in 0 .. StarPlaces /\ bad \in 0 .. Fallback
      /\ shown \in [state : {"idle", "running"}, health : Healths]
  BY DEF GuideInv, LoopInv
<1>1. CASE Guide!Loop
  BY <1>1, LoopStep
<1>2. CASE Guide!StopEnds
  <2>1. loop.at = "none" /\ loop' = loop /\ loop.pulses = 0
    BY <1>2 DEF GuideInv, LoopInv, Loops, Guide!StopEnds, Guide!Joined
  <2>2. shown' \in [state : {"idle", "running"}, health : Healths]
    BY <1>2 DEF Guide!StopEnds, Healths
  <2>3. LoopInv'
    BY <1>2, <2>1, <2>2 DEF GuideInv, LoopInv, Guide!StopEnds
  <2>4. ControlInv'
    BY <1>2 DEF GuideInv, ControlInv, Guide!StopEnds
  <2> QED
    BY <2>3, <2>4 DEF GuideInv
<1>3. CASE Guide!Start
  <2>1. loop' \in Loops /\ loop'.at = "waiting" /\ loop'.pulses = 0
    BY <1>3 DEF Guide!Start, Loops, Guide!NoLoop
  <2>2. shown' \in [state : {"idle", "running"}, health : Healths]
    BY <1>3 DEF Guide!Start, Healths
  <2>3. LoopInv'
    BY <1>3, <2>1, <2>2 DEF GuideInv, LoopInv, Guide!Start, Guide!Fresh
  <2>4. ControlInv'
    BY <1>3 DEF GuideInv, ControlInv, Guide!Start
  <2> QED
    BY <2>3, <2>4 DEF GuideInv
<1>4. CASE Guide!StopBegins
  BY <1>4 DEF GuideInv, LoopInv, ControlInv, Justified, Guide!StopBegins
<1>5. CASE Guide!ConnectCamera
  <2>1. loop' = loop /\ loop.at = "none" /\ loop.pulses = 0
    BY <1>0, <1>5 DEF GuideInv, LoopInv, Loops, Guide!ConnectCamera
  <2>2. /\ shown' \in [state : {"idle", "running"}, health : Healths] /\ tracker' \in Trackers
    BY <1>5 DEF Guide!ConnectCamera, Healths, Trackers
  <2>3. LoopInv'
    BY <1>0, <1>5, <2>1, <2>2 DEF GuideInv, LoopInv, Guide!ConnectCamera
  <2>4. ControlInv'
    BY <1>5 DEF GuideInv, ControlInv, Guide!ConnectCamera
  <2> QED
    BY <2>3, <2>4 DEF GuideInv
<1>6. CASE Guide!PausePulses
  BY <1>6 DEF GuideInv, LoopInv, ControlInv, Justified, Guide!PausePulses
<1>7. CASE Guide!Rebaseline
  BY <1>7 DEF GuideInv, LoopInv, ControlInv, Justified, Guide!Rebaseline, Guide!controls
<1>8. CASE Guide!Drift
  <2>1. star' \in 0 .. StarPlaces
    BY <1>8 DEF Guide!Drift
  <2> QED
    BY <1>8, <2>1 DEF GuideInv, LoopInv, ControlInv, Justified, Guide!Drift, Guide!controls
<1>9. CASE UNCHANGED guideVars
  BY <1>9 DEF GuideInv, LoopInv, ControlInv, Justified, guideVars
<1> QED
  BY <1>1, <1>2, <1>3, <1>4, <1>5, <1>6, <1>7, <1>8, <1>9 DEF Guide!GuideNext

-------------------------------------------------------------------------------
(* The camera panel (CameraPanel, TouptekCameraAdapter).                     *)

Handles == {"none", "open", "dead"}
Adapters == [dev : Devices \cup {"demo"}, abort : BOOLEAN, handle : Handles]
Captures ==
  [cam : Nat, at : {"loop", "entering", "exposing", "done"}, stop : BOOLEAN, error : BOOLEAN]

\* The adapters, the demo camera's first.
Fleet(h) ==
  /\ h \in Seq(Adapters) /\ Len(h) >= 1
  /\ \A c \in 1 .. Len(h) : c # 1 => h[c].dev # "demo"

Coolers == [Devices -> {"off", "on", "left"}]

\* Only the panel's camera has an open handle, and what cools as it was told to is that camera,
\* shown so.
Owned(h, coolers, c, shownOn) ==
  /\ \A d \in 1 .. Len(h) : h[d].handle = "open" => d = c
  /\ \A v \in Devices : coolers[v] = "on" => shownOn /\ h[c].dev = v /\ h[c].handle = "open"

StreamsInv ==
  /\ threads \in Seq(Captures) /\ \A t \in 1 .. Len(threads) : threads[t].cam \in 1 .. Len(cams)
  /\ stream \in 0 .. Len(threads) /\ joining \in 0 .. Len(threads)
HandlesInv ==
  /\ Fleet(cams) /\ tec \in Coolers /\ camera \in 1 .. Len(cams)
  /\ cooling \in BOOLEAN /\ quit \in BOOLEAN
  /\ Owned(cams, tec, camera, cooling)
  /\ quit /\ joining = 0 => cams[camera].handle # "open"
CamInv == StreamsInv /\ HandlesInv

\* The invariant of the cameras holds their types, and no handle or cooler of nobody.
LEMMA CamFacts == CamInv => Cam!CTypeOK /\ Cam!CamerasReleased
<1> SUFFICES ASSUME CamInv PROVE Cam!CTypeOK /\ Cam!CamerasReleased
  OBVIOUS
<1>1. DOMAIN cams = 1 .. Len(cams) /\ \A c \in DOMAIN cams : cams[c] \in Adapters
  BY ElementOfSeq, LenProperties DEF CamInv, HandlesInv, Fleet
<1>2. DOMAIN threads = 1 .. Len(threads) /\ \A t \in DOMAIN threads : threads[t] \in Captures
  BY ElementOfSeq, LenProperties DEF CamInv, StreamsInv
<1>3. \A t \in DOMAIN threads : threads[t].at \in {"loop", "entering", "exposing", "done"}
  BY <1>2 DEF Captures
<1>4. \A c \in DOMAIN cams : cams[c] \in [dev : Devices \cup {"demo"}, abort : BOOLEAN,
                                         handle : {"none", "open", "dead"}]
  BY <1>1 DEF Adapters, Handles
<1>5. Cam!CTypeOK
  BY <1>1, <1>3, <1>4 DEF CamInv, StreamsInv, HandlesInv, Coolers, Cam!CTypeOK
<1>6. Cam!CamerasReleased
  BY <1>1 DEF CamInv, HandlesInv, Owned, Cam!CamerasReleased
<1> QED
  BY <1>5, <1>6

\* The panel starts on the demo camera, in the invariant.
LEMMA CamStarts == Cam!CInit => CamInv
<1> SUFFICES ASSUME Cam!CInit PROVE CamInv
  OBVIOUS
<1> DEFINE demo == [dev |-> "demo", handle |-> "none", abort |-> FALSE]
<1>1. demo \in Adapters
  BY DEF Adapters, Handles
<1> HIDE DEF demo
<1>2. cams = <<demo>> /\ camera = 1 /\ threads = <<>>
  BY DEF Cam!CInit, Cam!Adapter, Cam!Demo, demo
<1>3. cams \in Seq(Adapters) /\ Len(cams) = 1 /\ cams[1] = demo
  BY <1>1, <1>2
<1>4. cams[1].handle = "none"
  BY <1>3 DEF demo
<1>5. HandlesInv
  <2>1. Fleet(cams)
    BY <1>3 DEF Fleet
  <2>2. camera \in 1 .. Len(cams) /\ cams[camera].handle = "none"
    BY <1>2, <1>3, <1>4
  <2>4. tec \in Coolers /\ (\A v \in Devices : tec[v] # "on") /\ cooling \in BOOLEAN /\ quit \in BOOLEAN
    BY DEF Cam!CInit, Coolers
  <2>3. Owned(cams, tec, camera, cooling)
    BY <1>2, <1>3, <1>4, <2>4 DEF Owned
  <2> QED
    BY <2>1, <2>2, <2>3, <2>4 DEF HandlesInv
<1>6. threads \in Seq(Captures) /\ Len(threads) = 0
  BY <1>2
<1>7. StreamsInv
  BY <1>6 DEF Cam!CInit, StreamsInv
<1> QED
  BY <1>5, <1>7 DEF CamInv

\* One adapter's handle is set.
LEMMA HandleSet ==
  ASSUME NEW h, Fleet(h), NEW c \in 1 .. Len(h), NEW k \in Handles, NEW g,
         g = [h EXCEPT ![c].handle = k]
  PROVE  /\ Fleet(g) /\ Len(g) = Len(h) /\ g[c].handle = k /\ g[c].dev = h[c].dev
         /\ \A d \in 1 .. Len(h) : d # c => g[d] = h[d]
<1>1. h \in Seq(Adapters) /\ Len(h) \in Nat /\ DOMAIN h = 1 .. Len(h) /\ h[c] \in Adapters
  BY ElementOfSeq, LenProperties DEF Fleet
<1>2. [h[c] EXCEPT !.handle = k] \in Adapters
  BY <1>1 DEF Adapters
<1>3. g = [h EXCEPT ![c] = [h[c] EXCEPT !.handle = k]]
  OBVIOUS
<1>4. g \in Seq(Adapters) /\ Len(g) = Len(h) /\ \A d \in 1 .. Len(h) :
        g[d] = IF d = c THEN [h[c] EXCEPT !.handle = k] ELSE h[d]
  BY <1>1, <1>2, <1>3, ExceptSeq
<1>5. g[c].handle = k /\ g[c].dev = h[c].dev
  BY <1>1, <1>4 DEF Adapters
<1>6. \A d \in 1 .. Len(h) : d # c => g[d] = h[d]
  BY <1>4
<1>7. Fleet(g)
  BY <1>4, <1>5, <1>6 DEF Fleet
<1> QED
  BY <1>4, <1>5, <1>6, <1>7

\* The abort flag of one capture is set or cleared: no handle changes.
LEMMA AbortSet ==
  ASSUME NEW h, Fleet(h), NEW c \in 1 .. Len(h), NEW g,
         \/ g = [h EXCEPT ![c].abort = TRUE]
         \/ g = [h EXCEPT ![c].abort = FALSE]
  PROVE  /\ Fleet(g) /\ Len(g) = Len(h)
         /\ \A d \in 1 .. Len(h) : g[d].handle = h[d].handle /\ g[d].dev = h[d].dev
<1>1. h \in Seq(Adapters) /\ Len(h) \in Nat /\ DOMAIN h = 1 .. Len(h) /\ h[c] \in Adapters
  BY ElementOfSeq, LenProperties DEF Fleet
<1>2. PICK a \in Adapters :
        a.handle = h[c].handle /\ a.dev = h[c].dev /\ g = [h EXCEPT ![c] = a]
  <2>1. CASE g = [h EXCEPT ![c].abort = TRUE]
    <3> DEFINE a == [h[c] EXCEPT !.abort = TRUE]
    <3>1. a \in Adapters /\ a.handle = h[c].handle /\ a.dev = h[c].dev /\ g = [h EXCEPT ![c] = a]
      BY <1>1, <2>1 DEF Adapters
    <3> QED
      BY <3>1
  <2>2. CASE g = [h EXCEPT ![c].abort = FALSE]
    <3> DEFINE a == [h[c] EXCEPT !.abort = FALSE]
    <3>1. a \in Adapters /\ a.handle = h[c].handle /\ a.dev = h[c].dev /\ g = [h EXCEPT ![c] = a]
      BY <1>1, <2>2 DEF Adapters
    <3> QED
      BY <3>1
  <2> QED
    BY <2>1, <2>2
<1>4. g \in Seq(Adapters) /\ Len(g) = Len(h) /\ \A d \in 1 .. Len(h) :
        g[d] = IF d = c THEN a ELSE h[d]
  BY <1>1, <1>2, ExceptSeq
<1>5. g[c].handle = h[c].handle /\ g[c].dev = h[c].dev
  BY <1>2, <1>4
<1>6. \A d \in 1 .. Len(h) : g[d].handle = h[d].handle /\ g[d].dev = h[d].dev
  BY <1>4, <1>5
<1>7. Fleet(g)
  BY <1>4, <1>6 DEF Fleet
<1> QED
  BY <1>4, <1>6, <1>7

\* What opening or closing adapter c of h leaves: the others as they are, no cooler switched on,
\* and none on behind c's handle when that has changed.
Touches(h, coolers, c, r) ==
  /\ Fleet(r.cams) /\ Len(r.cams) = Len(h) /\ r.tec \in Coolers
  /\ \A d \in 1 .. Len(h) : d # c => r.cams[d] = h[d]
  /\ r.cams[c].dev = h[c].dev
  /\ \A v \in Devices : r.tec[v] = "on" =>
       coolers[v] = "on" /\ (v = h[c].dev => r.cams[c].handle = h[c].handle)

\* A cooler was told to stop: it is not on any more, and no other one is switched on.
Stilled(coolers, dev, after) ==
  after \in Coolers /\ \A v \in Devices : after[v] = "on" => coolers[v] = "on" /\ v # dev

LEMMA CoolerStops ==
  ASSUME NEW h, NEW coolers \in Coolers, NEW c, NEW after \in Cam!TurnedOff(h, coolers, c)
  PROVE  Stilled(coolers, h[c].dev, after)
<1>1. PICK off \in {"off", "left"} :
        after = [d \in Devices |-> IF d = h[c].dev /\ coolers[d] # "off" THEN off ELSE coolers[d]]
  BY DEF Cam!TurnedOff
<1>2. \A d \in Devices : coolers[d] \in {"off", "on", "left"}
  BY DEF Coolers
<1> QED
  BY <1>1, <1>2 DEF Coolers, Stilled

\* Closing a camera touches no other one, and leaves it not open.
LEMMA Closes ==
  ASSUME NEW h, Fleet(h), NEW coolers \in Coolers, NEW c \in 1 .. Len(h),
         NEW r \in Cam!Closed(h, coolers, c)
  PROVE  Touches(h, coolers, c, r) /\ r.cams[c].handle # "open"
<1>1. CASE h[c].handle = "none"
  <2>1. r = [ok |-> TRUE, cams |-> h, tec |-> coolers]
    BY <1>1 DEF Cam!Closed, Cam!Result
  <2> QED
    BY <1>1, <2>1 DEF Touches
<1>2. CASE h[c].handle # "none"
  <2>1. PICK ok \in BOOLEAN, after \in Cam!TurnedOff(h, coolers, c) :
          r = [ok |-> ok, cams |-> [h EXCEPT ![c].handle = IF ok THEN "none" ELSE "dead"], tec |-> after]
    BY <1>2 DEF Cam!Closed, Cam!Result
  <2>2. Stilled(coolers, h[c].dev, r.tec)
    <3>1. r.tec = after
      BY <2>1
    <3> QED
      BY <3>1, CoolerStops
  <2>3. PICK k \in {"none", "dead"} : r.cams = [h EXCEPT ![c].handle = k]
    BY <2>1
  <2>4. k \in Handles /\ k # "open"
    BY DEF Handles
  <2>5. /\ Fleet(r.cams) /\ Len(r.cams) = Len(h) /\ r.cams[c].handle = k /\ r.cams[c].dev = h[c].dev
        /\ \A d \in 1 .. Len(h) : d # c => r.cams[d] = h[d]
    BY <2>3, <2>4, HandleSet
  <2> QED
    BY <2>2, <2>4, <2>5 DEF Touches, Stilled
<1> QED
  BY <1>1, <1>2

\* Opening a camera touches no other one, and starts no cooler.
LEMMA Opens ==
  ASSUME NEW h, Fleet(h), NEW coolers \in Coolers, NEW c \in 1 .. Len(h),
         NEW r \in Cam!Opened(h, coolers, c)
  PROVE  Touches(h, coolers, c, r)
<1> DEFINE lit == [h EXCEPT ![c].handle = "open"]
<1>0. /\ Fleet(lit) /\ Len(lit) = Len(h) /\ lit[c].dev = h[c].dev
      /\ \A d \in 1 .. Len(h) : d # c => lit[d] = h[d]
  BY HandleSet DEF Handles
<1> HIDE DEF lit
<1>1. CASE r.cams = h /\ r.tec = coolers
  BY <1>1 DEF Touches
<1>2. CASE ~(r.cams = h /\ r.tec = coolers)
  <2>0. r \in Cam!Configured(h, coolers, c)
    <3>1. h[c].handle = "none" /\ r # Cam!Result(FALSE, h, coolers)
      BY <1>2 DEF Cam!Opened, Cam!Result
    <3> QED
      BY <3>1 DEF Cam!Opened
  <2>1. PICK after \in Cam!TurnedOff(lit, coolers, c) :
          \/ r = [ok |-> TRUE, cams |-> lit, tec |-> after]
          \/ r = [ok |-> FALSE, cams |-> h, tec |-> after]
    BY <2>0 DEF Cam!Configured, Cam!Result, lit
  <2>2. Stilled(coolers, lit[c].dev, r.tec)
    <3>1. r.tec = after
      BY <2>1
    <3> QED
      BY <3>1, CoolerStops
  <2>3. r.cams = lit \/ r.cams = h
    BY <2>1
  <2> QED
    BY <1>0, <2>2, <2>3 DEF Touches, Stilled
<1> QED
  BY <1>1, <1>2

\* A device opened and started; where that fails it is not left open.
LEMMA OpensDevice ==
  ASSUME NEW h, Fleet(h), NEW coolers \in Coolers, NEW c \in 1 .. Len(h),
         NEW r \in Cam!OpenDevice(h, coolers, c)
  PROVE  /\ Touches(h, coolers, c, r)
         /\ ~r.ok => r.cams[c].handle # "open"
<1>1. CASE r.ok /\ r \in Cam!Opened(h, coolers, c)
  BY <1>1, Opens
<1>2. ASSUME NEW o \in Cam!Opened(h, coolers, c), NEW s \in Cam!Closed(o.cams, o.tec, c),
             r = [s EXCEPT !.ok = FALSE]
      PROVE  Touches(h, coolers, c, r) /\ r.cams[c].handle # "open"
  <2>1. Touches(h, coolers, c, o)
    BY Opens
  <2>2. Fleet(o.cams) /\ c \in 1 .. Len(o.cams) /\ o.tec \in Coolers
    BY <2>1 DEF Touches
  <2>3. Touches(o.cams, o.tec, c, s) /\ s.cams[c].handle # "open"
    BY <2>2, Closes
  <2>4. r.cams = s.cams /\ r.tec = s.tec
    BY <1>2 DEF Cam!Closed, Cam!Result
  <2> QED
    BY <2>1, <2>3, <2>4 DEF Touches
<1> QED
  BY <1>1, <1>2 DEF Cam!OpenDevice

\* Opening or closing the panel's camera leaves it the only one that is open, or cools.
LEMMA StaysOwned ==
  ASSUME NEW h, NEW coolers, NEW c \in 1 .. Len(h), NEW on, Owned(h, coolers, c, on), NEW r,
         Touches(h, coolers, c, r)
  PROVE  Owned(r.cams, r.tec, c, on)
BY DEF Owned, Touches

\* Once it is closed, none is.
LEMMA AllClosed ==
  ASSUME NEW h, NEW coolers, NEW c \in 1 .. Len(h), NEW r, Touches(h, coolers, c, r),
         r.cams[c].handle # "open", \A d \in 1 .. Len(h) : h[d].handle = "open" => d = c
  PROVE  \A d \in 1 .. Len(r.cams) : r.cams[d].handle # "open"
  BY DEF Touches

\* A step that starts no thread and drops no adapter.
LEMMA StreamsKept ==
  ASSUME StreamsInv, UNCHANGED threads, Len(cams) \in Nat, Len(cams') \in Nat,
         Len(cams') >= Len(cams), stream' \in 0 .. Len(threads), joining' \in 0 .. Len(threads)
  PROVE  StreamsInv'
<1>1. \A t \in 1 .. Len(threads) : threads[t].cam \in 1 .. Len(cams')
  BY DEF StreamsInv
<1> QED
  BY <1>1 DEF StreamsInv

\* One thread of its adapter goes on, is told to stop or ends.
LEMMA ThreadSet ==
  ASSUME StreamsInv, NEW t \in 1 .. Len(threads), NEW th \in Captures, th.cam = threads[t].cam,
         threads' = [threads EXCEPT ![t] = th], Len(cams') = Len(cams),
         stream' \in 0 .. Len(threads), joining' \in 0 .. Len(threads)
  PROVE  StreamsInv'
<1>1. threads \in Seq(Captures) /\ Len(threads) \in Nat
  BY LenProperties DEF StreamsInv
<1>2. threads' \in Seq(Captures) /\ Len(threads') = Len(threads) /\ \A u \in 1 .. Len(threads) :
        threads'[u] = IF u = t THEN th ELSE threads[u]
  BY <1>1, ExceptSeq
<1>3. \A u \in 1 .. Len(threads') : threads'[u].cam = threads[u].cam
  BY <1>2
<1> QED
  BY <1>2, <1>3 DEF StreamsInv

\* The stream's thread is told to stop, or there is none.
LEMMA StreamEnded ==
  ASSUME CamInv, NEW leaving \in BOOLEAN, Cam!EndStream(leaving), Len(cams') = Len(cams)
  PROVE  StreamsInv' /\ quit' = leaving
<1>0. Len(threads) \in Nat /\ Len(cams) \in Nat
  BY LenProperties DEF CamInv, StreamsInv, HandlesInv, Fleet
<1>1. stream' = 0 /\ joining' = stream /\ quit' = leaving /\ stream \in 0 .. Len(threads)
  BY DEF CamInv, StreamsInv, Cam!EndStream
<1>2. stream' \in 0 .. Len(threads) /\ joining' \in 0 .. Len(threads)
  BY <1>0, <1>1
<1>3. CASE stream = 0
  <2>1. UNCHANGED threads
    BY <1>3 DEF Cam!EndStream
  <2> QED
    BY <1>0, <1>1, <1>2, <2>1, StreamsKept DEF CamInv
<1>4. CASE stream # 0
  <2>1. stream \in 1 .. Len(threads)
    BY <1>0, <1>1, <1>4
  <2>2. threads[stream] \in Captures
    BY <2>1, ElementOfSeq DEF CamInv, StreamsInv
  <2> DEFINE th == [threads[stream] EXCEPT !.stop = TRUE]
  <2>3. th \in Captures /\ th.cam = threads[stream].cam
    BY <2>2 DEF Captures
  <2>4. threads' = [threads EXCEPT ![stream] = th]
    BY <1>4 DEF Cam!EndStream
  <2> HIDE DEF th
  <2> QED
    BY <1>1, <1>2, <2>1, <2>3, <2>4, ThreadSet DEF CamInv
<1> QED
  BY <1>3, <1>4

\* A capture's abort flag changes no handle.
LEMMA HandlesKept ==
  ASSUME HandlesInv, NEW c \in 1 .. Len(cams),
         \/ cams' = [cams EXCEPT ![c].abort = TRUE]
         \/ cams' = [cams EXCEPT ![c].abort = FALSE],
         UNCHANGED <<tec, camera, cooling>>,
         quit' \in BOOLEAN, quit' /\ joining' = 0 => quit /\ joining = 0
  PROVE  HandlesInv' /\ Len(cams') = Len(cams)
<1>0. Fleet(cams)
  BY DEF HandlesInv
<1>1. /\ Fleet(cams') /\ Len(cams') = Len(cams)
      /\ \A d \in 1 .. Len(cams) : cams'[d].handle = cams[d].handle /\ cams'[d].dev = cams[d].dev
  BY <1>0, AbortSet
<1>2. camera \in 1 .. Len(cams) /\ Owned(cams, tec, camera, cooling)
  BY DEF HandlesInv
<1>3. Owned(cams', tec, camera, cooling)
  BY <1>1, <1>2 DEF Owned
<1> QED
  BY <1>1, <1>2, <1>3 DEF HandlesInv

\* A capture thread goes on: at most the abort flag of its adapter is cleared.
LEMMA ThreadGoesOn ==
  ASSUME CamInv, NEW t \in DOMAIN threads, Cam!ThreadStep(t)
  PROVE  CamInv'
<1>0. /\ Len(threads) \in Nat /\ Len(cams) \in Nat /\ t \in 1 .. Len(threads)
      /\ threads[t] \in Captures /\ threads[t].cam \in 1 .. Len(cams)
  BY ElementOfSeq, LenProperties DEF CamInv, StreamsInv, HandlesInv, Fleet
<1>1. UNCHANGED <<tec, camera, cooling, stream, joining, quit>>
  BY DEF Cam!ThreadStep, Cam!ThreadChecks, Cam!ThreadTriggers, Cam!ThreadDelivers,
         Cam!ThreadAborts, Cam!ThreadFails, Cam!hardware, Cam!panel
<1>2. cams' = cams \/ cams' = [cams EXCEPT ![threads[t].cam].abort = FALSE]
  BY DEF Cam!ThreadStep, Cam!ThreadChecks, Cam!ThreadTriggers, Cam!ThreadDelivers,
         Cam!ThreadAborts, Cam!ThreadFails, Cam!hardware, Cam!panel
<1>3. HandlesInv' /\ Len(cams') = Len(cams)
  <2>1. CASE cams' = cams
    BY <1>1, <2>1 DEF CamInv, HandlesInv, Owned
  <2>2. CASE cams' = [cams EXCEPT ![threads[t].cam].abort = FALSE]
    BY <1>0, <1>1, <2>2, HandlesKept DEF CamInv, HandlesInv
  <2> QED
    BY <1>2, <2>1, <2>2
<1>4. \/ \E a \in {"loop", "entering", "exposing", "done"} :
           threads' = [threads EXCEPT ![t].at = a]
      \/ threads' = [threads EXCEPT ![t].at = "done", ![t].error = TRUE]
  BY DEF Cam!ThreadStep, Cam!ThreadChecks, Cam!ThreadTriggers, Cam!ThreadDelivers,
         Cam!ThreadAborts, Cam!ThreadFails, Cam!Reach
<1>5. PICK th \in Captures : th.cam = threads[t].cam /\ threads' = [threads EXCEPT ![t] = th]
  <2>1. CASE \E a \in {"loop", "entering", "exposing", "done"} :
               threads' = [threads EXCEPT ![t].at = a]
    <3>1. PICK a \in {"loop", "entering", "exposing", "done"} :
            threads' = [threads EXCEPT ![t].at = a]
      BY <2>1
    <3> DEFINE th == [threads[t] EXCEPT !.at = a]
    <3>2. th \in Captures /\ th.cam = threads[t].cam
      BY <1>0 DEF Captures
    <3>3. threads' = [threads EXCEPT ![t] = th]
      BY <3>1
    <3> QED
      BY <3>2, <3>3
  <2>2. CASE threads' = [threads EXCEPT ![t].at = "done", ![t].error = TRUE]
    <3> DEFINE th == [threads[t] EXCEPT !.at = "done", !.error = TRUE]
    <3>2. th \in Captures /\ th.cam = threads[t].cam
      BY <1>0 DEF Captures
    <3>3. threads' = [threads EXCEPT ![t] = th]
      BY <1>0, <2>2, LenProperties DEF CamInv, StreamsInv
    <3> QED
      BY <3>2, <3>3
  <2> QED
    BY <1>4, <2>1, <2>2
<1>6. StreamsInv'
  BY <1>0, <1>1, <1>3, <1>5, ThreadSet DEF CamInv, StreamsInv
<1> QED
  BY <1>3, <1>6 DEF CamInv


\* The adapters a step of the operator leaves, owned and typed, the streams as they are.
LEMMA Installed ==
  ASSUME CamInv, NEW r, Cam!Becomes(r), Fleet(r.cams), r.tec \in Coolers,
         Len(r.cams) \in Nat, Len(r.cams) >= Len(cams), Owned(r.cams, r.tec, camera', cooling'),
         camera' \in 1 .. Len(r.cams), cooling' \in BOOLEAN, UNCHANGED <<stream, joining, quit, threads>>,
         quit /\ joining = 0 => r.cams[camera'].handle # "open"
  PROVE  CamInv'
<1>1. cams' = r.cams /\ tec' = r.tec
  BY DEF Cam!Becomes
<1>2. HandlesInv'
  BY <1>1 DEF CamInv, HandlesInv
<1>3. Len(cams) \in Nat
  BY LenProperties DEF CamInv, HandlesInv, Fleet
<1>4. StreamsInv'
  BY <1>1, <1>3, StreamsKept DEF CamInv, StreamsInv
<1> QED
  BY <1>2, <1>4 DEF CamInv

\* An adapter of another device, after the panel's camera was released.
LEMMA NewAdapter ==
  ASSUME CamInv, NEW dev \in Devices, NEW new \in Cam!Candidates(dev)
  PROVE  /\ Fleet(new.cams) /\ new.tec \in Coolers /\ Len(new.cams) = Len(cams) + 1
         /\ \A d \in 1 .. Len(cams) : new.cams[d].handle # "open"
         /\ \A v \in Devices : new.tec[v] # "on"
         /\ new.cams[Len(cams) + 1].handle = "open" => new.ok
<1>0. /\ Fleet(cams) /\ Len(cams) \in Nat /\ camera \in 1 .. Len(cams) /\ tec \in Coolers
      /\ Owned(cams, tec, camera, cooling)
      /\ \A d \in 1 .. Len(cams) : cams[d].handle = "open" => d = camera
  BY LenProperties DEF CamInv, HandlesInv, Fleet, Owned
<1>1. PICK r \in Cam!Closed(cams, tec, camera) :
        new \in Cam!OpenDevice(Append(r.cams, Cam!Adapter(dev)), r.tec, Len(r.cams) + 1)
  BY DEF Cam!Candidates
<1> DEFINE n == Len(cams) + 1
           adapter == [dev |-> dev, handle |-> "none", abort |-> FALSE]
           h == Append(r.cams, adapter)
<1>2. Touches(cams, tec, camera, r) /\ r.cams[camera].handle # "open"
  BY <1>0, Closes
<1>3. \A d \in 1 .. Len(r.cams) : r.cams[d].handle # "open"
  BY <1>0, <1>2, AllClosed
<1>4. Fleet(r.cams) /\ Len(r.cams) = Len(cams) /\ r.tec \in Coolers
  BY <1>0, <1>2 DEF Touches
<1>b. \A v \in Devices : r.tec[v] # "on"
  <2>1. Owned(r.cams, r.tec, camera, cooling)
    BY <1>0, <1>2, StaysOwned
  <2> QED
    BY <1>2, <2>1 DEF Owned
<1>5. adapter \in Adapters /\ adapter.dev # "demo" /\ adapter.handle = "none"
  BY EquipmentAssumption DEF Adapters, Handles
<1> HIDE DEF adapter
<1>6. /\ h \in Seq(Adapters) /\ Len(h) = n /\ h[n] = adapter
      /\ \A d \in 1 .. Len(cams) : h[d] = r.cams[d]
  <2>1. r.cams \in Seq(Adapters)
    BY <1>4 DEF Fleet
  <2> QED
    BY <1>0, <1>4, <1>5, <2>1, AppendProperties
<1>7. Fleet(h)
  <2>1. \A c \in 1 .. n : c \in 1 .. Len(cams) \/ c = n
    BY <1>0
  <2>2. \A c \in 1 .. n : c # 1 => h[c].dev # "demo"
    BY <1>4, <1>5, <1>6, <2>1 DEF Fleet
  <2> QED
    BY <1>0, <1>6, <2>2 DEF Fleet
<1>8. h[n].handle = "none" /\ n \in 1 .. Len(h) /\ new \in Cam!OpenDevice(h, r.tec, n)
  BY <1>0, <1>1, <1>4, <1>5, <1>6 DEF Cam!Adapter, adapter
<1> HIDE DEF h
<1>9. Touches(h, r.tec, n, new) /\ (~new.ok => new.cams[n].handle # "open")
  BY <1>4, <1>7, <1>8, OpensDevice
<1>10. Fleet(new.cams) /\ new.tec \in Coolers /\ Len(new.cams) = n
  BY <1>4, <1>6, <1>9 DEF Touches
<1>11. \A d \in 1 .. Len(cams) : new.cams[d].handle # "open"
  <2>1. \A d \in 1 .. Len(cams) : d \in 1 .. Len(h) /\ d # n
    BY <1>0, <1>6
  <2> QED
    BY <1>3, <1>4, <1>6, <1>9, <2>1 DEF Touches
<1>12. \A v \in Devices : new.tec[v] # "on"
  BY <1>9, <1>b DEF Touches
<1> QED
  BY <1>9, <1>10, <1>11, <1>12

\* A switch of the camera, which may fail and be restored.
LEMMA CameraSwitched ==
  ASSUME CamInv, Cam!SwitchCamera
  PROVE  CamInv'
<1>0. /\ Fleet(cams) /\ Len(cams) \in Nat /\ camera \in 1 .. Len(cams)
      /\ 1 <= Len(cams) /\ UNCHANGED <<stream, joining, quit, threads>> /\ ~quit
      /\ cooling \in BOOLEAN
  BY LenProperties DEF CamInv, HandlesInv, Fleet, Cam!SwitchCamera, Cam!Idle
<1>a. PICK dev \in Devices : \E new \in Cam!Candidates(dev) :
        IF new.ok THEN Cam!Becomes(new) /\ Cam!Activate(Len(new.cams)) ELSE Cam!Restore(new)
  BY DEF Cam!SwitchCamera
<1>1. PICK new \in Cam!Candidates(dev) :
        IF new.ok THEN Cam!Becomes(new) /\ Cam!Activate(Len(new.cams)) ELSE Cam!Restore(new)
  BY <1>a
<1> DEFINE n == Len(cams) + 1
<1>2. /\ Fleet(new.cams) /\ new.tec \in Coolers /\ Len(new.cams) = n
      /\ \A d \in 1 .. Len(cams) : new.cams[d].handle # "open"
      /\ \A v \in Devices : new.tec[v] # "on"
      /\ new.cams[n].handle = "open" => new.ok
  BY NewAdapter
<1>3. \A d \in 1 .. n : d \in 1 .. Len(cams) \/ d = n
  BY <1>0
<1>4. CASE new.ok
  <2>1. Cam!Becomes(new) /\ camera' = n /\ cooling' = FALSE
    BY <1>1, <1>2, <1>4 DEF Cam!Activate
  <2>2. Owned(new.cams, new.tec, camera', cooling')
    BY <1>2, <1>3, <2>1 DEF Owned
  <2>3. camera' \in 1 .. Len(new.cams)
    BY <1>0, <1>2, <2>1
  <2>5. cooling' \in BOOLEAN
    BY <2>1
  <2>4. Len(new.cams) \in Nat /\ Len(new.cams) >= Len(cams)
    BY <1>0, <1>2
  <2> QED
    BY <1>0, <1>2, <2>1, <2>2, <2>3, <2>4, <2>5, Installed
<1>5. CASE ~new.ok
  <2>1. \A d \in 1 .. Len(new.cams) : new.cams[d].handle # "open"
    BY <1>2, <1>3, <1>5
  <2>2. Cam!Restore(new)
    BY <1>1, <1>5
  <2>3. CASE camera = Cam!Demo
    <3>1. Cam!Becomes(new) /\ UNCHANGED <<camera, cooling>>
      BY <2>2, <2>3 DEF Cam!Restore
    <3>2. camera \in 1 .. Len(new.cams)
      BY <1>0, <1>2
    <3>3. Owned(new.cams, new.tec, camera, cooling)
      BY <1>2, <2>1, <3>2 DEF Owned
    <3> QED
      BY <1>0, <1>2, <3>1, <3>2, <3>3, Installed
  <2>4. CASE camera # Cam!Demo
    <3>1. PICK old \in Cam!OpenDevice(new.cams, new.tec, camera) :
            Cam!Becomes(old) /\ Cam!Activate(IF old.ok THEN camera ELSE Cam!Demo)
      BY <2>2, <2>4 DEF Cam!Restore
    <3>2. camera \in 1 .. Len(new.cams)
      BY <1>0, <1>2
    <3>3. /\ Touches(new.cams, new.tec, camera, old)
          /\ ~old.ok => old.cams[camera].handle # "open"
      BY <1>2, <3>2, OpensDevice
    <3>4. Owned(new.cams, new.tec, camera, FALSE)
      BY <1>2, <2>1, <3>2 DEF Owned
    <3>5. Owned(old.cams, old.tec, camera, FALSE)
      BY <3>2, <3>3, <3>4, StaysOwned
    <3>6. Fleet(old.cams) /\ Len(old.cams) = n /\ old.tec \in Coolers
      BY <1>2, <3>3 DEF Touches
    <3>7. cooling' = FALSE /\ Cam!Becomes(old)
      BY <3>1 DEF Cam!Activate
    <3>10. /\ Len(old.cams) \in Nat /\ Len(old.cams) >= Len(cams)
           /\ camera \in 1 .. Len(old.cams)
      BY <1>0, <3>6
    <3>11. cooling' \in BOOLEAN
      BY <3>7
    <3>8. CASE old.ok
      <4>1. camera' = camera
        BY <3>1, <3>8 DEF Cam!Activate
      <4> QED
        BY <1>0, <3>5, <3>6, <3>7, <3>10, <3>11, <4>1, Installed
    <3>9. CASE ~old.ok
      <4>1. camera' = 1
        BY <3>1, <3>9 DEF Cam!Activate, Cam!Demo
      <4>2. \A d \in 1 .. Len(old.cams) : old.cams[d].handle # "open"
        BY <3>3, <3>5, <3>9 DEF Owned
      <4>3. 1 \in 1 .. Len(old.cams)
        BY <1>0, <3>6
      <4>4. Owned(old.cams, old.tec, 1, FALSE)
        BY <3>5, <4>2, <4>3 DEF Owned
      <4> QED
        BY <1>0, <3>6, <3>7, <3>10, <3>11, <4>1, <4>3, <4>4, Installed
    <3> QED
      BY <3>8, <3>9
  <2> QED
    BY <2>3, <2>4
<1> QED
  BY <1>4, <1>5


\* Every action of the panel and its threads keeps the invariant.
LEMMA CamStep ==
  ASSUME CamInv, [Cam!CNext]_camVars
  PROVE  CamInv'
<1>0. /\ Fleet(cams) /\ Len(cams) \in Nat /\ Len(threads) \in Nat /\ camera \in 1 .. Len(cams)
      /\ tec \in Coolers /\ 1 <= Len(cams) /\ Owned(cams, tec, camera, cooling)
      /\ stream \in 0 .. Len(threads) /\ joining \in 0 .. Len(threads)
  BY LenProperties DEF CamInv, HandlesInv, StreamsInv, Fleet
<1>a. cooling \in BOOLEAN /\ quit \in BOOLEAN
  BY DEF CamInv, HandlesInv
<1>b. ASSUME NEW r, Touches(cams, tec, camera, r)
      PROVE  /\ Fleet(r.cams) /\ r.tec \in Coolers /\ Len(r.cams) \in Nat
             /\ Len(r.cams) >= Len(cams) /\ camera \in 1 .. Len(r.cams) /\ 1 \in 1 .. Len(r.cams)
  BY <1>0, <1>b DEF Touches
<1>1. CASE Cam!StartStream
  <2>1. PICK r \in Cam!OpenDevice(cams, tec, camera) :
          /\ Cam!Becomes(r)
          /\ IF r.ok THEN threads' = Append(threads, Cam!Thread(camera)) /\ stream' = Len(threads) + 1
             ELSE UNCHANGED <<threads, stream>>
    BY <1>1 DEF Cam!StartStream
  <2>2. Touches(cams, tec, camera, r)
    BY <1>0, OpensDevice
  <2>3. Owned(r.cams, r.tec, camera, cooling)
    BY <1>0, <2>2, StaysOwned
  <2>4. UNCHANGED <<camera, cooling, joining, quit>> /\ ~quit
    BY <1>1 DEF Cam!StartStream, Cam!Idle
  <2>5. CASE ~r.ok
    BY <1>a, <1>b, <2>1, <2>2, <2>3, <2>4, <2>5, Installed
  <2>6. CASE r.ok
    <3> DEFINE th == [cam |-> camera, at |-> "loop", stop |-> FALSE, error |-> FALSE]
    <3>1. th \in Captures /\ th.cam = camera
      BY <1>0 DEF Captures
    <3>2. threads' = Append(threads, th) /\ stream' = Len(threads) + 1
      BY <2>1, <2>6 DEF Cam!Thread
    <3> HIDE DEF th
    <3>3. cams' = r.cams /\ tec' = r.tec /\ Len(r.cams) = Len(cams)
      BY <2>1, <2>2 DEF Cam!Becomes, Touches
    <3>4. HandlesInv'
      BY <1>a, <1>b, <2>2, <2>3, <2>4, <3>3 DEF HandlesInv
    <3>5. /\ threads' \in Seq(Captures) /\ Len(threads') = Len(threads) + 1
          /\ threads'[Len(threads) + 1] = th
          /\ \A t \in 1 .. Len(threads) : threads'[t] = threads[t]
      BY <3>1, <3>2, AppendProperties DEF CamInv, StreamsInv
    <3>6. \A t \in 1 .. Len(threads') : t \in 1 .. Len(threads) \/ t = Len(threads) + 1
      BY <1>0, <3>5
    <3>7. \A t \in 1 .. Len(threads') : threads'[t].cam \in 1 .. Len(cams')
      BY <1>0, <3>1, <3>3, <3>5, <3>6 DEF CamInv, StreamsInv
    <3>8. stream' \in 0 .. Len(threads') /\ joining' \in 0 .. Len(threads')
      BY <1>0, <2>4, <3>2, <3>5
    <3> QED
      BY <3>4, <3>5, <3>7, <3>8 DEF CamInv, StreamsInv
  <2> QED
    BY <2>5, <2>6
<1>2. CASE Cam!StopStream
  <2>1. stream \in 1 .. Len(threads) /\ ~quit
    BY <1>0, <1>2 DEF Cam!StopStream, Cam!Idle
  <2>2. threads[stream].cam \in 1 .. Len(cams)
    BY <2>1 DEF CamInv, StreamsInv
  <2>3. /\ cams' = [cams EXCEPT ![threads[stream].cam].abort = TRUE]
        /\ UNCHANGED <<tec, camera, cooling>> /\ Cam!EndStream(FALSE)
    BY <1>2 DEF Cam!StopStream, Cam!Aborted
  <2>4. quit' = FALSE
    BY <2>3 DEF Cam!EndStream
  <2>5. HandlesInv' /\ Len(cams') = Len(cams)
    BY <2>2, <2>3, <2>4, HandlesKept DEF CamInv
  <2>6. StreamsInv'
    BY <2>3, <2>5, StreamEnded
  <2> QED
    BY <2>5, <2>6 DEF CamInv
<1>3. CASE Cam!JoinEnds
  <2>1. PICK r \in IF quit THEN Cam!Closed(cams, tec, camera)
                   ELSE {Cam!Result(TRUE, cams, tec)} : Cam!Becomes(r)
    BY <1>3 DEF Cam!JoinEnds
  <2>2. Touches(cams, tec, camera, r) /\ (quit => r.cams[camera].handle # "open")
    <3>1. CASE quit
      BY <1>0, <2>1, <3>1, Closes
    <3>2. CASE ~quit
      <4>1. r.cams = cams /\ r.tec = tec
        BY <2>1, <3>2 DEF Cam!Result
      <4> QED
        BY <1>0, <3>2, <4>1 DEF Touches
    <3> QED
      BY <3>1, <3>2
  <2>3. Owned(r.cams, r.tec, camera, cooling)
    BY <1>0, <2>2, StaysOwned
  <2>4. UNCHANGED <<camera, cooling, stream, threads, quit>> /\ joining' = 0
    BY <1>3 DEF Cam!JoinEnds
  <2>5. cams' = r.cams /\ tec' = r.tec
    BY <2>1 DEF Cam!Becomes
  <2>6. HandlesInv'
    BY <1>a, <1>b, <2>2, <2>3, <2>4, <2>5 DEF HandlesInv
  <2>7. StreamsInv'
    BY <1>0, <1>b, <2>2, <2>4, <2>5, StreamsKept DEF CamInv
  <2> QED
    BY <2>6, <2>7 DEF CamInv
<1>4. CASE Cam!SwitchToDemo
  <2>1. PICK r \in Cam!Closed(cams, tec, camera) : Cam!Becomes(r)
    BY <1>4 DEF Cam!SwitchToDemo
  <2>2. Touches(cams, tec, camera, r) /\ r.cams[camera].handle # "open"
    BY <1>0, Closes
  <2>3. camera' = 1 /\ cooling' = FALSE /\ UNCHANGED <<stream, joining, quit, threads>> /\ ~quit
    BY <1>4 DEF Cam!SwitchToDemo, Cam!Activate, Cam!Demo, Cam!Idle
  <2>4. \A d \in 1 .. Len(r.cams) : r.cams[d].handle # "open"
    BY <1>0, <2>2, AllClosed DEF Owned
  <2>7. Owned(r.cams, r.tec, camera, cooling)
    BY <1>0, <2>2, StaysOwned
  <2>5. Owned(r.cams, r.tec, 1, FALSE)
    BY <2>2, <2>4, <2>7 DEF Owned
  <2>6. cooling' \in BOOLEAN
    BY <2>3
  <2> QED
    BY <1>b, <2>1, <2>2, <2>3, <2>5, <2>6, Installed
<1>5. CASE Cam!SwitchCamera
  BY <1>5, CameraSwitched
<1>6. CASE Cam!ToggleCooling
  <2>1. /\ cooling' = ~cooling /\ UNCHANGED <<cams, camera, stream, joining, quit, threads>>
        /\ camera # 1 /\ ~quit
    BY <1>6 DEF Cam!ToggleCooling, Cam!Idle, Cam!Demo
  <2>2. Cam!SetCooling(camera, ~cooling)
    BY <1>6 DEF Cam!ToggleCooling
  <2>3. cams[camera].dev \in Devices
    <3>1. cams[camera] \in Adapters
      BY <1>0, ElementOfSeq DEF Fleet
    <3>2. cams[camera].dev # "demo"
      BY <1>0, <2>1 DEF Fleet
    <3> QED
      BY <3>1, <3>2 DEF Adapters
  <2>4. /\ tec' \in Coolers
        /\ \A v \in Devices : tec'[v] = "on" =>
             cooling' /\ cams[camera].dev = v /\ cams[camera].handle = "open"
    <3>1. CASE tec' = tec /\ (cams[camera].handle # "open" \/ ~cooling)
      BY <1>0, <2>1, <3>1 DEF Owned
    <3>2. CASE ~cooling /\ cams[camera].handle = "open" /\ tec' = [tec EXCEPT ![cams[camera].dev] = "on"]
      BY <1>0, <2>1, <2>3, <3>2 DEF Owned, Coolers
    <3>3. CASE tec' \in Cam!TurnedOff(cams, tec, camera)
      <4>1. Stilled(tec, cams[camera].dev, tec')
        BY <1>0, <3>3, CoolerStops
      <4> QED
        BY <1>0, <4>1 DEF Owned, Stilled
    <3> QED
      BY <2>2, <3>1, <3>2, <3>3 DEF Cam!SetCooling, Cam!TurnedOn
  <2>6. Owned(cams, tec', camera, cooling')
    BY <1>0, <2>4 DEF Owned
  <2>7. cooling' \in BOOLEAN
    BY <2>1
  <2>8. HandlesInv'
    BY <1>0, <1>a, <2>1, <2>4, <2>6, <2>7 DEF HandlesInv
  <2>9. StreamsInv'
    BY <2>1 DEF CamInv, StreamsInv
  <2> QED
    BY <2>8, <2>9 DEF CamInv
<1>7. CASE Cam!Quit
  <2>1. /\ Cam!EndStream(TRUE) /\ UNCHANGED <<camera, cooling>> /\ quit' = TRUE /\ joining' = stream
        /\ ~quit
    BY <1>7 DEF Cam!Quit, Cam!EndStream, Cam!Idle
  <2>2. CASE stream = 0
    <3>1. PICK r \in Cam!Closed(cams, tec, camera) : Cam!Becomes(r)
      BY <1>7, <2>2 DEF Cam!Quit
    <3>2. Touches(cams, tec, camera, r) /\ r.cams[camera].handle # "open"
      BY <1>0, Closes
    <3>3. Owned(r.cams, r.tec, camera, cooling)
      BY <1>0, <3>2, StaysOwned
    <3>4. cams' = r.cams /\ tec' = r.tec /\ Len(r.cams) = Len(cams)
      BY <3>1, <3>2 DEF Cam!Becomes, Touches
    <3>5. quit' \in BOOLEAN
      BY <2>1
    <3>6. HandlesInv'
      BY <1>a, <1>b, <2>1, <3>2, <3>3, <3>4, <3>5 DEF HandlesInv
    <3>7. StreamsInv'
      BY <2>1, <3>4, StreamEnded
    <3> QED
      BY <3>6, <3>7 DEF CamInv
  <2>3. CASE stream # 0
    <3>1. stream \in 1 .. Len(threads)
      BY <1>0, <2>3
    <3>2. threads[stream].cam \in 1 .. Len(cams)
      BY <3>1 DEF CamInv, StreamsInv
    <3>3. cams' = [cams EXCEPT ![threads[stream].cam].abort = TRUE] /\ tec' = tec
      BY <1>7, <2>3 DEF Cam!Quit, Cam!Aborted
    <3>4. quit' \in BOOLEAN
      BY <2>1
    <3>5. HandlesInv' /\ Len(cams') = Len(cams)
      BY <2>1, <2>3, <3>2, <3>3, <3>4, HandlesKept DEF CamInv
    <3>6. StreamsInv'
      BY <2>1, <3>5, StreamEnded
    <3> QED
      BY <3>5, <3>6 DEF CamInv
  <2> QED
    BY <2>2, <2>3
<1>8. CASE Cam!PollError
  <2>1. stream \in 1 .. Len(threads) /\ UNCHANGED <<tec, camera, cooling, joining, quit>> /\ ~quit
    BY <1>0, <1>8 DEF Cam!PollError, Cam!Idle
  <2>2. threads[stream].cam \in 1 .. Len(cams) /\ threads[stream] \in Captures
    BY <2>1, ElementOfSeq DEF CamInv, StreamsInv
  <2>3. cams' = [cams EXCEPT ![threads[stream].cam].abort = TRUE] /\ stream' = 0
    BY <1>8 DEF Cam!PollError, Cam!Aborted
  <2>4. HandlesInv' /\ Len(cams') = Len(cams)
    BY <1>a, <2>1, <2>2, <2>3, HandlesKept DEF CamInv
  <2> DEFINE th == [threads[stream] EXCEPT !.error = FALSE, !.stop = TRUE]
  <2>5. th \in Captures /\ th.cam = threads[stream].cam
    BY <2>2 DEF Captures
  <2>6. threads' = [threads EXCEPT ![stream] = th]
    <3>1. threads' = [threads EXCEPT ![stream].error = FALSE, ![stream].stop = TRUE]
      BY <1>8 DEF Cam!PollError
    <3> QED
      BY <2>1, <3>1, LenProperties DEF CamInv, StreamsInv
  <2> HIDE DEF th
  <2>7. stream' \in 0 .. Len(threads) /\ joining' \in 0 .. Len(threads)
    BY <1>0, <2>1, <2>3
  <2>8. StreamsInv'
    BY <2>1, <2>4, <2>5, <2>6, <2>7, ThreadSet DEF CamInv
  <2> QED
    BY <2>4, <2>8 DEF CamInv
<1>9. CASE \E t \in DOMAIN threads : Cam!ThreadStep(t)
  BY <1>9, ThreadGoesOn
<1>10. CASE UNCHANGED camVars
  BY <1>10 DEF CamInv, HandlesInv, StreamsInv, camVars
<1> QED
  BY <1>1, <1>2, <1>3, <1>4, <1>5, <1>6, <1>7, <1>8, <1>9, <1>10 DEF Cam!CNext

-------------------------------------------------------------------------------
(* The wait for a frame exposed after a motion (Acquisition).                *)

CaptureStates == [at : {"idle", "read", "exposing"}, read : Nat, start : Nat, real : Nat]
Frames == [seq : Nat, captured : Int, exp : Nat, start : Nat]
Mailboxes == [on : BOOLEAN, ring : Seq(Frames), seq : Nat]
Shots == [start : Nat, taken : Nat]
Waits ==
  [kind : {"fresh", "verified"}, at : {"idle", "outer", "inner", "pause", "done"}, ended : Nat,
   reference : Nat, anchor : Nat, deadline : Nat, timeout : Nat, known : Nat, cursor : Nat,
   overlapped : BOOLEAN, samples : Seq(Shots),
   status : {"none", "timeout", "overlapped", "ok", "cancelled", "unavailable", "not_stable",
             "invalid"},
   judged : BOOLEAN, longest : Nat]

\* A frame's time, less its exposure, is never later than the moment the exposure began.
Stamped(ring) == \A k \in 1 .. Len(ring) : ring[k].captured - ring[k].exp <= ring[k].start

\* The frames that were taken: each began after the motion, and after the one before was taken.
Ordered(s, ended) ==
  /\ \A k \in 1 .. Len(s) : s[k].start >= ended
  /\ \A k \in 1 .. Len(s) - 1 : s[k + 1].start >= s[k].taken
TakenBy(s, time) == Len(s) > 0 => s[Len(s)].taken <= time

\* The wait's own evidence: the next frame has to be newer than the last one taken.
Witnessed(w0, time) ==
  /\ w0.reference >= w0.ended /\ (w0.kind = "verified" => w0.ended <= time)
  /\ Ordered(w0.samples, w0.ended)
  /\ w0.at \in {"outer", "inner"} => TakenBy(w0.samples, w0.reference)
  /\ w0.at = "pause" => TakenBy(w0.samples, time)

\* Its patience: a fresh wait has budgeted for every exposure it knows of, up to the cap; a look at
\* the mailbox ends with the wait.
Patient(w0, time) ==
  /\ w0.at \in {"outer", "inner"} =>
       /\ time <= w0.anchor + (IF w0.kind = "fresh" THEN Cap ELSE Timeout + 1)
       /\ w0.kind = "fresh" => w0.timeout <= Cap /\ w0.timeout >= Acq!Budget(w0.known)
       /\ w0.kind = "verified" => w0.timeout = Timeout
  /\ w0.at = "inner" => w0.deadline <= w0.anchor + w0.timeout
  /\ w0.at = "outer" /\ w0.kind = "fresh" => w0.longest <= w0.known
  /\ w0.at = "pause" =>
       w0.kind = "verified" /\ w0.timeout = Timeout /\ time <= w0.anchor + Timeout
  /\ w0.kind = "fresh" /\ w0.at = "done" /\ w0.status \in {"timeout", "overlapped"} =>
       time >= w0.anchor + Acq!MinOf(Cap, Acq!MaxOf(Floor, IF w0.longest = 0 THEN 0
                                                           ELSE 2 * w0.longest + Margin))

CaptureInv ==
  /\ now \in 0 .. MaxTime /\ camExposure \in Exposures
  /\ capture \in CaptureStates /\ mailbox \in Mailboxes
  /\ Len(mailbox.ring) <= RingLength /\ (~mailbox.on => capture = Acq!NotCapturing)
  /\ Stamped(mailbox.ring)
WaitInv == waiter \in Waits /\ Witnessed(waiter, now) /\ Patient(waiter, now)
AcqInv == CaptureInv /\ WaitInv

\* The invariant of the acquisition holds its types, fresh evidence, and bounded waits.
LEMMA AcqFacts == AcqInv => Acq!ATypeOK /\ Acq!EvidenceFresh /\ Acq!WaitBounded
<1> SUFFICES ASSUME AcqInv PROVE Acq!ATypeOK /\ Acq!EvidenceFresh /\ Acq!WaitBounded
  OBVIOUS
<1>1. /\ capture.at \in {"idle", "read", "exposing"}
      /\ waiter.at \in {"idle", "outer", "inner", "pause", "done"}
      /\ waiter.status \in {"none", "timeout", "overlapped", "ok", "cancelled", "unavailable",
                            "not_stable", "invalid"}
  BY DEF AcqInv, CaptureInv, WaitInv, CaptureStates, Waits
<1>2. Acq!ATypeOK
  BY <1>1 DEF AcqInv, CaptureInv, Acq!ATypeOK
<1>3. Acq!EvidenceFresh
  <2>1. waiter.samples \in Seq(Shots)
    BY DEF AcqInv, WaitInv, Waits
  <2>2. DOMAIN waiter.samples = 1 .. Len(waiter.samples)
    BY <2>1, LenProperties
  <2>3. Ordered(waiter.samples, waiter.ended)
    BY DEF AcqInv, WaitInv, Witnessed
  <2> QED
    BY <2>2, <2>3 DEF Ordered, Acq!EvidenceFresh
<1>4. Acq!WaitBounded
  BY DEF AcqInv, WaitInv, Patient, Acq!WaitBounded
<1> QED
  BY <1>2, <1>3, <1>4

\* The times the settings give are numbers.
LEMMA Ticks ==
  /\ Exposures \subseteq Nat \ {0} /\ Floor \in Nat /\ Margin \in Nat /\ Cap \in Nat /\ Slice \in Nat
  /\ SettleTime \in Nat /\ Timeout \in Nat /\ MaxTime \in Nat /\ FrameSamples \in Nat /\ FrameSamples >= 1
  /\ RingLength \in Nat /\ RingLength >= 1
<1>1. {Floor, Margin, Cap, Slice, SettleTime, Timeout} \subseteq Nat /\ {MaxBegin, MaxTime} \subseteq Nat
      /\ Exposures \subseteq Nat \ {0} /\ {FrameSamples, RingLength} \subseteq Nat \ {0}
  BY EquipmentAssumption
<1> QED
  BY <1>1

\* The acquisition starts with nothing taken, in the invariant.
LEMMA AcqStarts == Acq!AInit => AcqInv
<1> SUFFICES ASSUME Acq!AInit PROVE AcqInv
  OBVIOUS
<1>1. capture \in CaptureStates /\ capture = Acq!NotCapturing
  BY DEF Acq!AInit, Acq!NotCapturing, CaptureStates
<1>2. mailbox \in Mailboxes /\ mailbox.ring = <<>>
  BY DEF Acq!AInit, Acq!Newly, Mailboxes
<1>3. CaptureInv
  BY <1>1, <1>2, Ticks DEF Acq!AInit, CaptureInv, Stamped
<1>4. /\ waiter.at = "idle" /\ waiter.kind = "fresh" /\ waiter.samples = <<>>
      /\ waiter.reference = 0 /\ waiter.ended = 0
  BY DEF Acq!AInit, Acq!NoWaiter
<1>5. waiter \in Waits
  <2>1. <<>> \in Seq(Shots)
    OBVIOUS
  <2> QED
    BY <2>1 DEF Acq!AInit, Acq!NoWaiter, Waits
<1>6. Witnessed(waiter, now) /\ Patient(waiter, now)
  BY <1>4 DEF Witnessed, Patient, Ordered, TakenBy
<1> QED
  BY <1>3, <1>5, <1>6 DEF AcqInv, WaitInv

\* A budget is a time, within the cap, and no shorter for a longer exposure.
LEMMA Budgeted ==
  ASSUME NEW e \in Nat
  PROVE  Acq!Budget(e) \in Nat /\ Acq!Budget(e) <= Cap
  BY Ticks DEF Acq!Budget, Acq!MinOf, Acq!MaxOf

\* The budget of an exposure covers what any shorter one asks for.
LEMMA BudgetCovers ==
  ASSUME NEW e \in Nat, NEW longest \in 0 .. e
  PROVE  Acq!Budget(e) >= Acq!MinOf(Cap, Acq!MaxOf(Floor, IF longest = 0 THEN 0
                                                         ELSE 2 * longest + Margin))
<1>1. CASE longest = 0
  BY <1>1, Ticks DEF Acq!Budget, Acq!MinOf, Acq!MaxOf
<1>2. CASE longest # 0
  BY <1>2, Ticks DEF Acq!Budget, Acq!MinOf, Acq!MaxOf
<1> QED
  BY <1>1, <1>2


\* A nonempty set of naturals has a least member.
LEMMA LeastMember ==
  ASSUME NEW T, T \subseteq Nat, T # {}
  PROVE  \E x \in T : \A y \in T : x <= y
<1> DEFINE R == {ss \in Nat \X Nat : ss[1] < ss[2]}
<1>1. R = OpToRel(<, Nat)
  BY DEF OpToRel
<1>2. IsWellFoundedOn(R, Nat)
  BY <1>1, NatLessThanWellFounded
<1>3. ASSUME NEW x \in Nat, NEW y \in Nat, ~(<<y, x>> \in R) PROVE x <= y
  BY <1>3
<1> HIDE DEF R
<1>4. \E x \in T : \A y \in T : ~ (<<y, x>> \in R)
  BY <1>2, WFMin
<1> QED
  BY <1>3, <1>4

\* The capture loop and the stream.
LEMMA CaptureStep ==
  ASSUME AcqInv,
         \/ Acq!SetExposure \/ Acq!CaptureReads \/ Acq!CaptureTriggers \/ Acq!CaptureDelivers
         \/ Acq!StreamStops \/ Acq!StreamStarts
  PROVE  AcqInv'
<1>0. /\ now \in 0 .. MaxTime /\ camExposure \in Exposures /\ camExposure \in Nat /\ now \in Nat
      /\ capture \in CaptureStates /\ mailbox \in Mailboxes /\ Len(mailbox.ring) <= RingLength
      /\ Stamped(mailbox.ring) /\ (~mailbox.on => capture = Acq!NotCapturing)
  BY Ticks DEF AcqInv, CaptureInv
<1>1. UNCHANGED <<now, waiter>>
  BY DEF Acq!SetExposure, Acq!CaptureReads, Acq!CaptureTriggers, Acq!CaptureDelivers,
         Acq!StreamStops, Acq!StreamStarts
<1>2. WaitInv'
  BY <1>1 DEF AcqInv, WaitInv, Witnessed, Patient
<1>a. Acq!NotCapturing \in CaptureStates
  BY DEF Acq!NotCapturing, CaptureStates
<1>3. CASE Acq!SetExposure
  <2>1. camExposure' \in Exposures /\ UNCHANGED <<mailbox, capture>>
    BY <1>3 DEF Acq!SetExposure
  <2>2. CaptureInv'
    BY <1>0, <1>1, <2>1 DEF CaptureInv
  <2> QED
    BY <1>2, <2>2 DEF AcqInv
<1>4. CASE Acq!CaptureReads
  <2>1. capture' \in CaptureStates
    BY <1>0, <1>4 DEF Acq!CaptureReads, CaptureStates
  <2>2. mailbox.on /\ UNCHANGED <<camExposure, mailbox>>
    BY <1>4 DEF Acq!CaptureReads
  <2>3. CaptureInv'
    BY <1>0, <1>1, <2>1, <2>2 DEF CaptureInv
  <2> QED
    BY <1>2, <2>3 DEF AcqInv
<1>5. CASE Acq!CaptureTriggers
  <2>1. capture' \in CaptureStates
    BY <1>0, <1>5 DEF Acq!CaptureTriggers, CaptureStates
  <2>2. mailbox.on /\ UNCHANGED <<camExposure, mailbox>>
    BY <1>0, <1>5 DEF Acq!CaptureTriggers, Acq!NotCapturing
  <2>3. CaptureInv'
    BY <1>0, <1>1, <2>1, <2>2 DEF CaptureInv
  <2> QED
    BY <1>2, <2>3 DEF AcqInv
<1>6. CASE Acq!CaptureDelivers
  <2> DEFINE frame == [seq |-> mailbox.seq + 1, captured |-> Acq!CapturedAt(capture),
                       exp |-> capture.read, start |-> capture.start]
             ring == Append(mailbox.ring, frame)
             kept == IF Len(ring) > RingLength THEN Tail(ring) ELSE ring
  <2>1. capture' = Acq!NotCapturing /\ camExposure' = camExposure
        /\ mailbox' = [mailbox EXCEPT !.seq = mailbox.seq + 1, !.ring = kept]
    BY <1>6 DEF Acq!CaptureDelivers
  <2>2. /\ mailbox.ring \in Seq(Frames) /\ mailbox.seq \in Nat /\ mailbox.on \in BOOLEAN
        /\ capture.read \in Nat /\ capture.start \in Nat /\ Len(mailbox.ring) \in Nat
    BY <1>0, LenProperties DEF Mailboxes, CaptureStates
  <2>3. /\ Acq!CapturedAt(capture) \in Int
        /\ Acq!CapturedAt(capture) - capture.read <= capture.start
    BY <1>0, <2>2 DEF Acq!CapturedAt, Acq!MinOf
  <2>4. frame \in Frames /\ frame.captured - frame.exp <= frame.start
    BY <2>2, <2>3 DEF Frames
  <2> HIDE DEF frame
  <2>5. /\ ring \in Seq(Frames) /\ ring # <<>> /\ Len(ring) = Len(mailbox.ring) + 1
        /\ \A k \in 1 .. Len(mailbox.ring) : ring[k] = mailbox.ring[k]
        /\ ring[Len(mailbox.ring) + 1] = frame
    BY <2>2, <2>4, AppendProperties
  <2> HIDE DEF ring
  <2>6. \A k \in 1 .. Len(ring) : k \in 1 .. Len(mailbox.ring) \/ k = Len(mailbox.ring) + 1
    BY <2>2, <2>5
  <2>7. Stamped(ring)
    BY <1>0, <2>4, <2>5, <2>6 DEF Stamped
  <2>8. kept \in Seq(Frames) /\ Len(kept) <= RingLength /\ Stamped(kept)
    <3>1. CASE Len(ring) > RingLength
      <4>1. /\ Tail(ring) \in Seq(Frames) /\ Len(Tail(ring)) = Len(ring) - 1
            /\ \A k \in 1 .. Len(Tail(ring)) : Tail(ring)[k] = ring[k + 1]
        BY <2>5, HeadTailProperties
      <4>2. \A k \in 1 .. Len(ring) - 1 : k + 1 \in 1 .. Len(ring)
        BY <2>2, <2>5
      <4>3. Stamped(Tail(ring))
        BY <2>7, <4>1, <4>2 DEF Stamped
      <4>4. Len(Tail(ring)) <= RingLength
        BY <1>0, <2>2, <2>5, <4>1, Ticks
      <4> QED
        BY <3>1, <4>1, <4>3, <4>4
    <3>2. CASE ~(Len(ring) > RingLength)
      BY <2>2, <2>5, <2>7, <3>2, Ticks
    <3> QED
      BY <3>1, <3>2
  <2> HIDE DEF kept
  <2>9. mailbox' \in Mailboxes /\ mailbox'.ring = kept /\ mailbox'.on = mailbox.on
    <3>1. mailbox' = [on |-> mailbox.on, ring |-> kept, seq |-> mailbox.seq + 1]
      BY <1>0, <2>1 DEF Mailboxes
    <3>2. kept \in Seq(Frames) /\ mailbox.on \in BOOLEAN /\ mailbox.seq + 1 \in Nat
      BY <2>2, <2>8
    <3> QED
      BY <3>1, <3>2 DEF Mailboxes
  <2>10. CaptureInv'
    BY <1>0, <1>1, <1>a, <2>1, <2>8, <2>9 DEF CaptureInv
  <2> QED
    BY <1>2, <2>10 DEF AcqInv
<1>7. CASE Acq!StreamStops
  <2>1. mailbox' \in Mailboxes /\ mailbox'.ring = <<>> /\ capture' = Acq!NotCapturing
        /\ camExposure' = camExposure
    <3>1. mailbox' = [on |-> FALSE, ring |-> <<>>, seq |-> mailbox.seq] /\ mailbox.seq \in Nat
      BY <1>0, <1>7 DEF Acq!StreamStops, Mailboxes
    <3>2. <<>> \in Seq(Frames)
      OBVIOUS
    <3> QED
      BY <1>7, <3>1, <3>2 DEF Acq!StreamStops, Mailboxes
  <2>2. Len(mailbox'.ring) = 0
    BY <2>1
  <2>3. CaptureInv'
    BY <1>0, <1>1, <1>a, <2>1, <2>2, Ticks DEF CaptureInv, Stamped
  <2> QED
    BY <1>2, <2>3 DEF AcqInv
<1>8. CASE Acq!StreamStarts
  <2>1. mailbox' \in Mailboxes /\ mailbox'.ring = <<>> /\ mailbox'.on /\ UNCHANGED <<camExposure, capture>>
    BY <1>8 DEF Acq!StreamStarts, Acq!Newly, Mailboxes
  <2>2. Len(mailbox'.ring) = 0
    BY <2>1
  <2>3. CaptureInv'
    BY <1>0, <1>1, <2>1, <2>2, Ticks DEF CaptureInv, Stamped
  <2> QED
    BY <1>2, <2>3 DEF AcqInv
<1> QED
  BY <1>3, <1>4, <1>5, <1>6, <1>7, <1>8

\* The frame a look at the mailbox meets.
LEMMA NextFrame ==
  ASSUME CaptureInv, Acq!Unseen # {}
  PROVE  LET frame == mailbox.ring[Acq!Oldest]
         IN  frame \in Frames /\ frame.captured - frame.exp <= frame.start
<1>1. mailbox.ring \in Seq(Frames) /\ DOMAIN mailbox.ring = 1 .. Len(mailbox.ring)
      /\ Len(mailbox.ring) \in Nat
  BY LenProperties DEF CaptureInv, Mailboxes
<1>2. Acq!Unseen \subseteq 1 .. Len(mailbox.ring)
  BY <1>1 DEF Acq!Unseen
<1>3. Acq!Unseen \subseteq Nat
  BY <1>1, <1>2
<1>4. \E k \in Acq!Unseen : \A j \in Acq!Unseen : k <= j
  BY <1>3, LeastMember
<1>5. Acq!Oldest \in Acq!Unseen
  BY <1>4 DEF Acq!Oldest
<1> QED
  BY <1>1, <1>2, <1>5, ElementOfSeq DEF CaptureInv, Stamped

\* One more frame, taken now, exposed after the reference.
LEMMA OneMoreFrame ==
  ASSUME NEW s \in Seq(Shots), NEW ended \in Nat, NEW reference \in Nat, NEW shot \in Shots,
         NEW ws, ws = Acq!Window(Append(s, shot)),
         Ordered(s, ended), TakenBy(s, reference), reference >= ended, shot.start >= reference
  PROVE  ws \in Seq(Shots) /\ Ordered(ws, ended) /\ TakenBy(ws, shot.taken)
<1> DEFINE q == Append(s, shot)
<1>1. /\ q \in Seq(Shots) /\ q # <<>> /\ Len(q) = Len(s) + 1 /\ Len(s) \in Nat
      /\ \A k \in 1 .. Len(s) : q[k] = s[k]
      /\ q[Len(s) + 1] = shot
  BY AppendProperties, LenProperties
<1> HIDE DEF q
<1>a. /\ shot.start \in Nat /\ shot.taken \in Nat
      /\ \A k \in 1 .. Len(s) : s[k].start \in Nat /\ s[k].taken \in Nat
  <2>1. \A k \in 1 .. Len(s) : s[k] \in Shots
    BY ElementOfSeq
  <2> QED
    BY <2>1 DEF Shots
<1>2. \A k \in 1 .. Len(q) : k \in 1 .. Len(s) \/ k = Len(s) + 1
  BY <1>1
<1>3. \A k \in 1 .. Len(q) : q[k].start >= ended
  BY <1>1, <1>2, <1>a DEF Ordered
<1>4. ASSUME NEW k \in 1 .. Len(q) - 1
      PROVE  q[k + 1].start >= q[k].taken
  <2>1. CASE k = Len(s)
    <3>1. Len(s) > 0 /\ q[k] = s[Len(s)] /\ q[k + 1] = shot
      BY <1>1, <2>1
    <3>2. s[Len(s)].taken <= reference /\ s[Len(s)].taken \in Nat
      BY <1>1, <1>a, <3>1 DEF TakenBy
    <3> QED
      BY <1>a, <3>1, <3>2
  <2>2. CASE k # Len(s)
    <3>1. k \in 1 .. Len(s) - 1 /\ k \in 1 .. Len(s) /\ k + 1 \in 1 .. Len(s)
      BY <1>1, <2>2
    <3>2. q[k] = s[k] /\ q[k + 1] = s[k + 1]
      BY <1>1, <3>1
    <3> QED
      BY <3>1, <3>2 DEF Ordered
  <2> QED
    BY <2>1, <2>2
<1>5. Ordered(q, ended)
  BY <1>3, <1>4 DEF Ordered
<1>6. TakenBy(q, shot.taken)
  BY <1>1, <1>a DEF TakenBy
<1>7. CASE Len(q) > FrameSamples
  <2>1. ws = Tail(q)
    BY <1>7 DEF Acq!Window, q
  <2>2. /\ ws \in Seq(Shots) /\ Len(ws) = Len(q) - 1
        /\ \A k \in 1 .. Len(ws) : ws[k] = q[k + 1]
    BY <1>1, <2>1, HeadTailProperties
  <2>3. \A k \in 1 .. Len(ws) : k + 1 \in 1 .. Len(q)
    BY <1>1, <2>2
  <2>4. \A k \in 1 .. Len(ws) : ws[k].start >= ended
    BY <1>5, <2>2, <2>3 DEF Ordered
  <2>5. ASSUME NEW k \in 1 .. Len(ws) - 1
        PROVE  ws[k + 1].start >= ws[k].taken
    <3>1. k \in 1 .. Len(ws) /\ k + 1 \in 1 .. Len(ws) /\ k + 1 \in 1 .. Len(q) - 1
      BY <1>1, <2>2
    <3>2. ws[k] = q[k + 1] /\ ws[k + 1] = q[(k + 1) + 1]
      BY <2>2, <3>1
    <3> QED
      BY <1>5, <3>1, <3>2 DEF Ordered
  <2>6. Len(ws) > 0 => ws[Len(ws)] = q[Len(q)]
    <3>1. Len(ws) > 0 => Len(ws) \in 1 .. Len(ws) /\ Len(ws) + 1 = Len(q)
      BY <1>1, <2>2
    <3> QED
      BY <2>2, <3>1
  <2> QED
    BY <1>1, <1>6, <2>2, <2>4, <2>5, <2>6 DEF Ordered, TakenBy
<1>8. CASE ~(Len(q) > FrameSamples)
  <2>1. ws = q
    BY <1>8 DEF Acq!Window, q
  <2> QED
    BY <1>1, <1>5, <1>6, <2>1
<1> QED
  BY <1>7, <1>8


\* The times of a wait are numbers.
LEMMA WaitNumbers ==
  ASSUME NEW w0 \in Waits
  PROVE  /\ w0.ended \in Nat /\ w0.reference \in Nat /\ w0.anchor \in Nat /\ w0.deadline \in Nat
         /\ w0.timeout \in Nat /\ w0.known \in Nat /\ w0.cursor \in Nat /\ w0.longest \in Nat
         /\ w0.samples \in Seq(Shots) /\ w0.kind \in {"fresh", "verified"}
         /\ w0.at \in {"idle", "outer", "inner", "pause", "done"}
  BY DEF Waits

\* A step of the waiting worker leaves the camera as it is.
LEMMA CameraKept ==
  ASSUME AcqInv, UNCHANGED <<now, camExposure, mailbox, capture>>
  PROVE  CaptureInv'
  BY DEF AcqInv, CaptureInv, Stamped

\* A wait ends: one that ran out of time was patient enough.
LEMMA WaitEnds ==
  ASSUME AcqInv, UNCHANGED <<now, camExposure, mailbox, capture>>,
         NEW status \in {"timeout", "overlapped", "cancelled", "unavailable", "not_stable",
                         "invalid", "none", "ok"},
         waiter' = [waiter EXCEPT !.at = "done", !.status = status],
         waiter.kind = "fresh" /\ status \in {"timeout", "overlapped"} =>
           now >= waiter.anchor
             + Acq!MinOf(Cap, Acq!MaxOf(Floor, IF waiter.longest = 0 THEN 0
                                                ELSE 2 * waiter.longest + Margin))
  PROVE  AcqInv'
<1>1. waiter \in Waits /\ Witnessed(waiter, now)
  BY DEF AcqInv, WaitInv
<1>2. waiter' \in Waits
  BY <1>1 DEF Waits
<1>3. /\ waiter'.at = "done" /\ waiter'.status = status /\ waiter'.kind = waiter.kind
      /\ waiter'.anchor = waiter.anchor /\ waiter'.longest = waiter.longest
      /\ waiter'.samples = waiter.samples /\ waiter'.ended = waiter.ended
      /\ waiter'.reference = waiter.reference
  BY <1>1 DEF Waits
<1>4. Witnessed(waiter', now)
  BY <1>1, <1>3 DEF Witnessed
<1>5. Patient(waiter', now)
  BY <1>3 DEF Patient
<1> QED
  BY <1>2, <1>4, <1>5, CameraKept DEF AcqInv, WaitInv

\* A wait that begins has no evidence yet, and its whole budget.
LEMMA WaitBegins ==
  ASSUME AcqInv, Acq!BeginFresh \/ Acq!BeginVerified
  PROVE  AcqInv'
<1>0. now \in Nat
  BY Ticks DEF AcqInv, CaptureInv
<1>1. UNCHANGED <<now, camExposure, mailbox, capture>>
  BY DEF Acq!BeginFresh, Acq!BeginVerified
<1>e. <<>> \in Seq(Shots) /\ Len(<<>>) = 0
  OBVIOUS
<1>2. CASE Acq!BeginFresh
  <2>1. PICK ended \in {now} \cup {Acq!MaxOf(0, now - 1)}, hint \in Exposures \cup {0} :
          waiter' = [Acq!NoWaiter EXCEPT !.at = "outer", !.ended = ended + SettleTime,
                       !.reference = ended + SettleTime, !.anchor = Acq!MaxOf(now, ended + SettleTime),
                       !.known = hint, !.timeout = Acq!Budget(hint), !.status = "timeout"]
    BY <1>2 DEF Acq!BeginFresh
  <2>2. ended \in Nat /\ hint \in Nat /\ Acq!MaxOf(now, ended + SettleTime) \in Nat
        /\ Acq!MaxOf(now, ended + SettleTime) >= now /\ ended + SettleTime \in Nat
    BY <1>0, Ticks DEF Acq!MaxOf
  <2>3. Acq!Budget(hint) \in Nat /\ Acq!Budget(hint) <= Cap
    BY <2>2, Budgeted
  <2>4. waiter' = [kind |-> "fresh", at |-> "outer", ended |-> ended + SettleTime,
                   reference |-> ended + SettleTime, anchor |-> Acq!MaxOf(now, ended + SettleTime),
                   deadline |-> 0, timeout |-> Acq!Budget(hint), known |-> hint, cursor |-> 0,
                   overlapped |-> FALSE, samples |-> <<>>, status |-> "timeout",
                   judged |-> FALSE, longest |-> 0]
    BY <2>1 DEF Acq!NoWaiter
  <2>5. waiter' \in Waits
    BY <1>e, <2>2, <2>3, <2>4 DEF Waits
  <2>6. Witnessed(waiter', now)
    BY <1>e, <2>2, <2>4 DEF Witnessed, Ordered, TakenBy
  <2>7. Patient(waiter', now)
    BY <1>0, <2>2, <2>3, <2>4, Ticks DEF Patient
  <2> QED
    BY <1>1, <2>5, <2>6, <2>7, CameraKept DEF AcqInv, WaitInv
<1>3. CASE Acq!BeginVerified
  <2>1. waiter' = [kind |-> "verified", at |-> "outer", ended |-> now,
                   reference |-> now, anchor |-> now, deadline |-> 0, timeout |-> Timeout,
                   known |-> 0, cursor |-> 0, overlapped |-> FALSE, samples |-> <<>>,
                   status |-> "none", judged |-> FALSE, longest |-> 0]
    BY <1>3 DEF Acq!BeginVerified, Acq!NoWaiter
  <2>2. waiter' \in Waits
    BY <1>0, <1>e, <2>1, Ticks DEF Waits
  <2>3. Witnessed(waiter', now)
    BY <1>0, <1>e, <2>1 DEF Witnessed, Ordered, TakenBy
  <2>4. Patient(waiter', now)
    BY <1>0, <2>1, Ticks DEF Patient
  <2> QED
    BY <1>1, <2>2, <2>3, <2>4, CameraKept DEF AcqInv, WaitInv
<1> QED
  BY <1>2, <1>3

\* The outer loop: it ends, or looks at the mailbox once more, for no longer than is left.
LEMMA WaitCalls ==
  ASSUME AcqInv, Acq!WaiterCalls
  PROVE  AcqInv'
<1>0. now \in Nat /\ waiter \in Waits /\ Witnessed(waiter, now) /\ Patient(waiter, now)
      /\ waiter.at = "outer"
  BY Ticks DEF AcqInv, CaptureInv, WaitInv, Acq!WaiterCalls
<1>1. UNCHANGED <<now, camExposure, mailbox, capture>>
  BY DEF Acq!WaiterCalls
<1>n. /\ waiter.anchor \in Nat /\ waiter.timeout \in Nat /\ waiter.known \in Nat
      /\ waiter.longest \in Nat /\ waiter.kind \in {"fresh", "verified"}
  BY <1>0, WaitNumbers
<1> DEFINE left == waiter.anchor + waiter.timeout - now
           status == IF waiter.kind = "fresh" THEN waiter.status
                     ELSE IF waiter.judged THEN "not_stable" ELSE "timeout"
<1>2. CASE Acq!Finish("cancelled")
  BY <1>1, <1>2, WaitEnds DEF Acq!Finish
<1>3. CASE Acq!Finish("unavailable")
  BY <1>1, <1>3, WaitEnds DEF Acq!Finish
<1>4. CASE left <= 0 /\ Acq!Finish(status)
  <2>1. status \in {"timeout", "overlapped", "cancelled", "unavailable", "not_stable",
                    "invalid", "none", "ok"}
    BY <1>0 DEF Waits
  <2>2. ASSUME waiter.kind = "fresh"
        PROVE  now >= waiter.anchor
                 + Acq!MinOf(Cap, Acq!MaxOf(Floor, IF waiter.longest = 0 THEN 0
                                                    ELSE 2 * waiter.longest + Margin))
    <3> DEFINE needed == Acq!MinOf(Cap, Acq!MaxOf(Floor, IF waiter.longest = 0 THEN 0
                                                         ELSE 2 * waiter.longest + Margin))
    <3>1. waiter.longest \in 0 .. waiter.known /\ waiter.timeout >= Acq!Budget(waiter.known)
      BY <1>0, <1>n, <2>2 DEF Patient
    <3>2. Acq!Budget(waiter.known) >= needed /\ Acq!Budget(waiter.known) \in Nat
      BY <1>n, <3>1, Budgeted, BudgetCovers
    <3>3. needed \in Int
      BY <1>n, Ticks DEF Acq!MinOf, Acq!MaxOf
    <3> HIDE DEF needed
    <3>4. waiter.anchor + needed <= now
      BY <1>0, <1>4, <1>n, <3>1, <3>2, <3>3
    <3> QED
      BY <1>0, <1>n, <3>3, <3>4 DEF needed
  <2> HIDE DEF status
  <2> QED
    BY <1>1, <1>4, <2>1, <2>2, WaitEnds DEF Acq!Finish
<1>5. CASE /\ left > 0 /\ mailbox.on
           /\ waiter' = [waiter EXCEPT !.at = "inner", !.cursor = 0, !.overlapped = FALSE,
                           !.deadline = now + (IF waiter.kind = "fresh" THEN Acq!MinOf(left, Slice)
                                               ELSE left)]
  <2> DEFINE look == IF waiter.kind = "fresh" THEN Acq!MinOf(left, Slice) ELSE left
             deadline == now + look
  <2>1. look \in Nat /\ look <= left
    BY <1>0, <1>5, <1>n, Ticks DEF Acq!MinOf
  <2>2. deadline \in Nat /\ deadline <= waiter.anchor + waiter.timeout
    BY <1>0, <1>n, <2>1
  <2>3. waiter' = [waiter EXCEPT !.at = "inner", !.cursor = 0, !.overlapped = FALSE,
                                 !.deadline = deadline]
    BY <1>5
  <2> HIDE DEF look, deadline
  <2>4. waiter' \in Waits
    BY <1>0, <2>2, <2>3 DEF Waits
  <2>5. /\ waiter'.at = "inner" /\ waiter'.deadline = deadline /\ waiter'.kind = waiter.kind
        /\ waiter'.anchor = waiter.anchor /\ waiter'.timeout = waiter.timeout
        /\ waiter'.known = waiter.known /\ waiter'.samples = waiter.samples
        /\ waiter'.ended = waiter.ended /\ waiter'.reference = waiter.reference
    BY <1>0, <2>3 DEF Waits
  <2>6. Witnessed(waiter', now)
    BY <1>0, <2>5 DEF Witnessed
  <2>7. Patient(waiter', now)
    BY <1>0, <2>2, <2>5 DEF Patient
  <2> QED
    BY <1>1, <2>4, <2>6, <2>7, CameraKept DEF AcqInv, WaitInv
<1> QED
  BY <1>2, <1>3, <1>4, <1>5 DEF Acq!WaiterCalls

\* A frame that overlaps the motion is passed over.
LEMMA WaitRejects ==
  ASSUME AcqInv, Acq!WaiterRejects
  PROVE  AcqInv'
<1>0. now \in Nat /\ waiter \in Waits /\ Witnessed(waiter, now) /\ Patient(waiter, now)
      /\ waiter.at = "inner"
  BY Ticks DEF AcqInv, CaptureInv, WaitInv, Acq!WaiterRejects
<1>1. UNCHANGED <<now, camExposure, mailbox, capture>>
  BY DEF Acq!WaiterRejects
<1> DEFINE frame == mailbox.ring[Acq!Oldest]
           longest == Acq!MaxOf(waiter.longest, frame.exp)
<1>2. frame \in Frames
  BY NextFrame DEF AcqInv, Acq!WaiterRejects
<1>3. waiter' = [waiter EXCEPT !.cursor = frame.seq, !.overlapped = TRUE, !.longest = longest]
  BY DEF Acq!WaiterRejects
<1>4. frame.seq \in Nat /\ longest \in Nat
  BY <1>0, <1>2, WaitNumbers DEF Frames, Acq!MaxOf
<1> HIDE DEF frame, longest
<1>5. waiter' \in Waits
  BY <1>0, <1>3, <1>4 DEF Waits
<1>6. /\ waiter'.at = "inner" /\ waiter'.deadline = waiter.deadline /\ waiter'.kind = waiter.kind
      /\ waiter'.anchor = waiter.anchor /\ waiter'.timeout = waiter.timeout
      /\ waiter'.known = waiter.known /\ waiter'.samples = waiter.samples
      /\ waiter'.ended = waiter.ended /\ waiter'.reference = waiter.reference
  BY <1>0, <1>3 DEF Waits
<1>7. Witnessed(waiter', now)
  BY <1>0, <1>6 DEF Witnessed
<1>8. Patient(waiter', now)
  BY <1>0, <1>6 DEF Patient
<1> QED
  BY <1>1, <1>5, <1>7, <1>8, CameraKept DEF AcqInv, WaitInv

\* The frame is taken: its exposure began after the reference.
LEMMA WaitAccepts ==
  ASSUME AcqInv, Acq!WaiterAccepts
  PROVE  AcqInv'
<1>0. now \in Nat /\ waiter \in Waits /\ Witnessed(waiter, now) /\ Patient(waiter, now)
      /\ waiter.at = "inner" /\ now < waiter.deadline
  BY Ticks DEF AcqInv, CaptureInv, WaitInv, Acq!WaiterAccepts
<1>1. UNCHANGED <<now, camExposure, mailbox, capture>>
  BY DEF Acq!WaiterAccepts
<1>n. /\ waiter.anchor \in Nat /\ waiter.timeout \in Nat /\ waiter.deadline \in Nat
      /\ waiter.ended \in Nat /\ waiter.reference \in Nat /\ waiter.samples \in Seq(Shots)
      /\ waiter.kind \in {"fresh", "verified"}
  BY <1>0, WaitNumbers
<1> DEFINE frame == mailbox.ring[Acq!Oldest]
           shot == [start |-> frame.start, taken |-> now]
           samples == Acq!Window(Append(waiter.samples, shot))
<1>2. frame \in Frames /\ frame.captured - frame.exp <= frame.start
  BY NextFrame DEF AcqInv, Acq!WaiterAccepts
<1>3. frame.captured - frame.exp >= waiter.reference
  BY DEF Acq!WaiterAccepts, Acq!Proves
<1>4. shot \in Shots /\ shot.start >= waiter.reference /\ shot.taken = now
  BY SMTT(30), <1>0, <1>2, <1>3, <1>n DEF Frames, Shots
<1>5. Acq!Window(Acq!Sampled(frame)) = samples
  BY DEF Acq!Sampled
<1>6. \/ waiter.kind = "fresh"
           /\ waiter' = [waiter EXCEPT !.at = "done", !.status = "ok", !.samples = samples]
      \/ waiter.kind = "verified"
           /\ waiter' = [waiter EXCEPT !.at = "done", !.status = "ok", !.samples = samples]
      \/ waiter.kind = "verified"
           /\ waiter' = [waiter EXCEPT !.at = "pause", !.samples = samples,
                           !.judged = @ \/ Len(samples) = FrameSamples]
  BY <1>5, <1>n DEF Acq!WaiterAccepts
<1> HIDE DEF frame, shot
<1>7. samples \in Seq(Shots) /\ Ordered(samples, waiter.ended) /\ TakenBy(samples, now)
  <2>1. Ordered(waiter.samples, waiter.ended) /\ TakenBy(waiter.samples, waiter.reference)
        /\ waiter.reference >= waiter.ended
    BY <1>0 DEF Witnessed
  <2>2. samples = Acq!Window(Append(waiter.samples, shot))
    OBVIOUS
  <2> HIDE DEF samples
  <2> QED
    BY <1>4, <1>n, <2>1, <2>2, OneMoreFrame
<1> HIDE DEF samples
<1>8. CASE waiter' = [waiter EXCEPT !.at = "done", !.status = "ok", !.samples = samples]
  <2>1. waiter' \in Waits
    BY <1>0, <1>7, <1>8 DEF Waits
  <2>2. /\ waiter'.at = "done" /\ waiter'.status = "ok" /\ waiter'.kind = waiter.kind
        /\ waiter'.samples = samples /\ waiter'.ended = waiter.ended
        /\ waiter'.reference = waiter.reference
    BY <1>0, <1>8 DEF Waits
  <2>3. Witnessed(waiter', now)
    BY <1>0, <1>7, <2>2 DEF Witnessed
  <2>4. Patient(waiter', now)
    BY <2>2 DEF Patient
  <2> QED
    BY <1>1, <2>1, <2>3, <2>4, CameraKept DEF AcqInv, WaitInv
<1>9. CASE /\ waiter.kind = "verified"
           /\ waiter' = [waiter EXCEPT !.at = "pause", !.samples = samples,
                           !.judged = @ \/ Len(samples) = FrameSamples]
  <2>1. waiter' \in Waits
    BY <1>0, <1>7, <1>9 DEF Waits
  <2>2. /\ waiter'.at = "pause" /\ waiter'.kind = "verified" /\ waiter'.anchor = waiter.anchor
        /\ waiter'.samples = samples /\ waiter'.ended = waiter.ended
        /\ waiter'.reference = waiter.reference
    BY <1>0, <1>9 DEF Waits
  <2>3. Witnessed(waiter', now)
    BY <1>0, <1>7, <1>9, <2>2 DEF Witnessed
  <2>4. waiter.deadline <= waiter.anchor + waiter.timeout /\ waiter.timeout = Timeout
    BY <1>0, <1>9 DEF Patient
  <2>5. now <= waiter.anchor + Timeout
    BY <1>0, <1>n, <2>4
  <2>6. waiter'.timeout = waiter.timeout
    BY <1>0, <1>9 DEF Waits
  <2>7. Patient(waiter', now)
    BY <2>2, <2>4, <2>5, <2>6 DEF Patient
  <2> QED
    BY <1>1, <2>1, <2>3, <2>7, CameraKept DEF AcqInv, WaitInv
<1> QED
  BY <1>6, <1>8, <1>9

\* After a pause the next frame has to be newer than now.
LEMMA WaitPauses ==
  ASSUME AcqInv, waiter.at = "pause", NEW time \in Nat, time \in {now, now + 1},
         waiter' = [waiter EXCEPT !.at = "outer", !.reference = time]
  PROVE  waiter' \in Waits /\ Witnessed(waiter', time) /\ Patient(waiter', time)
<1>0. now \in Nat /\ waiter \in Waits /\ Witnessed(waiter, now) /\ Patient(waiter, now)
  BY Ticks DEF AcqInv, CaptureInv, WaitInv
<1>n. /\ waiter.anchor \in Nat /\ waiter.ended \in Nat /\ waiter.samples \in Seq(Shots)
  BY <1>0, WaitNumbers
<1>1. waiter' \in Waits
  BY <1>0 DEF Waits
<1>2. /\ waiter'.at = "outer" /\ waiter'.kind = "verified" /\ waiter'.reference = time
      /\ waiter'.anchor = waiter.anchor /\ waiter'.ended = waiter.ended
      /\ waiter'.samples = waiter.samples /\ waiter'.timeout = waiter.timeout
  BY <1>0 DEF Waits, Patient
<1>3. TakenBy(waiter.samples, now) /\ Ordered(waiter.samples, waiter.ended) /\ waiter.ended <= now
  BY <1>0 DEF Witnessed, Patient
<1>4. TakenBy(waiter.samples, time)
  <2>1. Len(waiter.samples) > 0 => waiter.samples[Len(waiter.samples)].taken \in Nat
    <3>1. Len(waiter.samples) > 0 => waiter.samples[Len(waiter.samples)] \in Shots
      BY <1>n, ElementOfSeq, LenProperties
    <3> QED
      BY <3>1 DEF Shots
  <2> QED
    BY <1>0, <1>3, <2>1 DEF TakenBy
<1>5. Witnessed(waiter', time)
  BY <1>0, <1>2, <1>3, <1>4, <1>n DEF Witnessed
<1>6. waiter.timeout = Timeout /\ now <= waiter.anchor + Timeout
  BY <1>0 DEF Patient
<1>7. time <= waiter.anchor + (Timeout + 1)
  BY SMTT(30), <1>0, <1>6, <1>n, Ticks
<1>8. Patient(waiter', time)
  BY <1>2, <1>6, <1>7 DEF Patient
<1> QED
  BY <1>1, <1>5, <1>8


\* A look ends without a frame: a fresh wait budgets for the exposures it has seen meanwhile.
LEMMA WaitMisses ==
  ASSUME AcqInv, Acq!WaiterMisses
  PROVE  AcqInv'
<1>0. now \in Nat /\ waiter \in Waits /\ Witnessed(waiter, now) /\ Patient(waiter, now)
      /\ waiter.at = "inner"
  BY Ticks DEF AcqInv, CaptureInv, WaitInv, Acq!WaiterMisses
<1>1. UNCHANGED <<now, camExposure, mailbox, capture>>
  BY DEF Acq!WaiterMisses
<1>n. /\ waiter.known \in Nat /\ waiter.longest \in Nat /\ waiter.timeout \in Nat
      /\ waiter.kind \in {"fresh", "verified"}
  BY <1>0, WaitNumbers
<1> DEFINE known == Acq!MaxOf(waiter.known, waiter.longest)
           status == IF waiter.status = "overlapped" THEN waiter.status
                     ELSE IF waiter.overlapped THEN "overlapped" ELSE "timeout"
           timeout == IF known > waiter.known THEN Acq!MaxOf(waiter.timeout, Acq!Budget(known))
                      ELSE waiter.timeout
<1>2. CASE waiter.kind = "verified"
  <2>1. Acq!Finish("invalid")
    BY <1>2 DEF Acq!WaiterMisses
  <2> QED
    BY <1>1, <2>1, WaitEnds DEF Acq!Finish
<1>3. CASE waiter.kind = "fresh"
  <2>1. waiter' = [waiter EXCEPT !.at = "outer", !.known = known, !.status = status,
                                 !.timeout = timeout]
    BY <1>3 DEF Acq!WaiterMisses
  <2>2. known \in Nat /\ known >= waiter.known /\ waiter.longest <= known
    BY <1>n DEF Acq!MaxOf
  <2>3. status \in {"timeout", "overlapped"}
    OBVIOUS
  <2>4. Acq!Budget(known) \in Nat /\ Acq!Budget(known) <= Cap
    BY <2>2, Budgeted
  <2>5. waiter.timeout <= Cap /\ waiter.timeout >= Acq!Budget(waiter.known)
    BY <1>0, <1>3 DEF Patient
  <2>6. known > waiter.known \/ known = waiter.known
    BY <1>n, <2>2
  <2> HIDE DEF known, status
  <2>7. timeout \in Nat /\ timeout <= Cap /\ timeout >= Acq!Budget(known)
    <3>1. CASE known > waiter.known
      BY <1>n, <2>4, <2>5, <3>1, Ticks DEF Acq!MaxOf
    <3>2. CASE known = waiter.known
      BY <1>n, <2>2, <2>5, <3>2
    <3> QED
      BY <2>6, <3>1, <3>2
  <2> HIDE DEF timeout
  <2>8. waiter' \in Waits
    BY <1>0, <2>1, <2>2, <2>3, <2>7 DEF Waits
  <2>9. /\ waiter'.at = "outer" /\ waiter'.kind = "fresh" /\ waiter'.anchor = waiter.anchor
        /\ waiter'.timeout = timeout /\ waiter'.known = known /\ waiter'.longest = waiter.longest
        /\ waiter'.samples = waiter.samples /\ waiter'.ended = waiter.ended
        /\ waiter'.reference = waiter.reference
    BY <1>0, <1>3, <2>1 DEF Waits
  <2>10. Witnessed(waiter', now)
    BY <1>0, <1>3, <2>9 DEF Witnessed
  <2>11. Patient(waiter', now)
    BY <1>0, <1>3, <2>2, <2>7, <2>9 DEF Patient
  <2> QED
    BY <1>1, <2>8, <2>10, <2>11, CameraKept DEF AcqInv, WaitInv
<1> QED
  BY <1>2, <1>3, <1>n

\* Time passes for a worker that has nothing to do.
LEMMA TimePasses ==
  ASSUME AcqInv, Acq!Tick
  PROVE  AcqInv'
<1>0. now \in Nat /\ waiter \in Waits /\ Witnessed(waiter, now) /\ Patient(waiter, now)
  BY Ticks DEF AcqInv, CaptureInv, WaitInv
<1>1. now' = now + 1 /\ now < MaxTime /\ UNCHANGED <<camExposure, mailbox, capture>>
  BY DEF Acq!Tick
<1>2. CaptureInv'
  <2>1. now' \in 0 .. MaxTime
    BY <1>0, <1>1, Ticks
  <2> QED
    BY <1>1, <2>1 DEF AcqInv, CaptureInv, Stamped
<1>n. /\ waiter.anchor \in Nat /\ waiter.timeout \in Nat /\ waiter.deadline \in Nat
      /\ waiter.ended \in Nat /\ waiter.kind \in {"fresh", "verified"}
  BY <1>0, WaitNumbers
<1>3. CASE waiter.at = "idle" /\ waiter' = waiter
  <2>1. Witnessed(waiter, now')
    BY <1>0, <1>1, <1>3, <1>n DEF Witnessed
  <2>2. Patient(waiter, now')
    BY <1>3 DEF Patient
  <2> QED
    BY <1>0, <1>2, <1>3, <2>1, <2>2 DEF AcqInv, WaitInv
<1>4. CASE waiter.at = "pause" /\ waiter' = [waiter EXCEPT !.at = "outer", !.reference = now + 1]
  <2>1. now + 1 \in Nat /\ now + 1 \in {now, now + 1}
    BY <1>0
  <2>2. waiter' \in Waits /\ Witnessed(waiter', now + 1) /\ Patient(waiter', now + 1)
    BY <1>4, <2>1, WaitPauses
  <2> QED
    BY <1>1, <1>2, <2>2 DEF AcqInv, WaitInv
<1>5. CASE waiter.at = "inner" /\ now < waiter.deadline /\ waiter' = waiter
  <2>1. Witnessed(waiter, now')
    BY <1>0, <1>1, <1>5, <1>n DEF Witnessed
  <2>2. waiter.deadline <= waiter.anchor + waiter.timeout
        /\ (waiter.kind = "fresh" => waiter.timeout <= Cap)
        /\ (waiter.kind = "verified" => waiter.timeout = Timeout)
    BY <1>0, <1>5 DEF Patient
  <2>3. now' <= waiter.anchor + (IF waiter.kind = "fresh" THEN Cap ELSE Timeout + 1)
    BY <1>0, <1>1, <1>5, <1>n, <2>2, Ticks
  <2>4. Patient(waiter, now')
    BY <1>0, <1>5, <2>3 DEF Patient
  <2> QED
    BY <1>0, <1>2, <1>5, <2>1, <2>4 DEF AcqInv, WaitInv
<1> QED
  BY <1>3, <1>4, <1>5 DEF Acq!Tick

\* Every step of the stream, the clock and the wait keeps the invariant.
LEMMA AcqStep ==
  ASSUME AcqInv, [Acq!ANext]_acqVars
  PROVE  AcqInv'
<1>1. CASE \/ Acq!SetExposure \/ Acq!CaptureReads \/ Acq!CaptureTriggers \/ Acq!CaptureDelivers
           \/ Acq!StreamStops \/ Acq!StreamStarts
  BY <1>1, CaptureStep
<1>2. CASE Acq!BeginFresh \/ Acq!BeginVerified
  BY <1>2, WaitBegins
<1>3. CASE Acq!WaiterCalls
  BY <1>3, WaitCalls
<1>4. CASE Acq!WaiterRejects
  BY <1>4, WaitRejects
<1>5. CASE Acq!WaiterAccepts
  BY <1>5, WaitAccepts
<1>6. CASE Acq!WaiterPauses
  <2>1. /\ waiter.at = "pause" /\ waiter' = [waiter EXCEPT !.at = "outer", !.reference = now]
        /\ UNCHANGED <<now, camExposure, mailbox, capture>>
    BY <1>6 DEF Acq!WaiterPauses
  <2>2. now \in Nat /\ now \in {now, now + 1}
    BY Ticks DEF AcqInv, CaptureInv
  <2>3. waiter' \in Waits /\ Witnessed(waiter', now) /\ Patient(waiter', now)
    BY <2>1, <2>2, WaitPauses
  <2> QED
    BY <2>1, <2>3, CameraKept DEF AcqInv, WaitInv
<1>7. CASE Acq!WaiterMisses
  BY <1>7, WaitMisses
<1>8. CASE Acq!Tick
  BY <1>8, TimePasses
<1>9. CASE UNCHANGED acqVars
  BY <1>9 DEF AcqInv, CaptureInv, WaitInv, Stamped, Witnessed, Patient, acqVars
<1> QED
  BY <1>1, <1>2, <1>3, <1>4, <1>5, <1>6, <1>7, <1>8, <1>9 DEF Acq!ANext

-------------------------------------------------------------------------------
(* The fine-collimation run.                                                 *)

Recentring == {"looping", "measuring", "checking", "returning"}
Watching == {"sampling", "building"}
FineRuns ==
  [at : {"idle", "deciding", "claiming", "sending"} \cup Watching \cup Recentring,
   samples : 0 .. StarSamples, tries : 0 .. Tries, misses : Int, selected : BOOLEAN,
   reacquired : Int, pulses : BOOLEAN, why : {"loop", "before", "after", "probe", "step", "final"},
   leg : Int, probe : Int, loops : 0 .. Iterations, prev : Int, diverged : Int, steps : Int]

\* Whether the run that goes on is to stop.
ToStop(r, c, cl, m) == c \/ cl = "stopped" \/ (r.pulses /\ m # "astronomical")

\* A move that is late was past its check: none is late before the first move and when one is
\* about to be sent, and none goes out after it.
Checked(r, c, cl, m, sent) ==
  /\ r.at \in {"deciding", "claiming", "sending"} => sent = 0
  /\ r.at \in Watching => c \/ sent = 0
  /\ r.at \in Recentring => ToStop(r, c, cl, m) \/ sent = 0

\* Only a run that brings the star back holds a claim, and it has samples still to take.
Claimed(r, cl) ==
  /\ r.at \in {"idle", "deciding", "claiming"} \cup Watching => cl = "none"
  /\ r.at \in {"idle"} \cup Watching => ~r.pulses
  /\ r.at \notin {"idle"} \cup Watching => r.samples < StarSamples

FineInv ==
  /\ running \in BOOLEAN /\ cancel \in BOOLEAN /\ aborting \in BOOLEAN /\ fineClosed \in BOOLEAN
  /\ outcome \in {"none", "success", "failed", "cancelled"}
  /\ claim \in {"none", "held", "stopped"}
  /\ run \in FineRuns /\ dist \in 0 .. Far /\ late \in {0, 1}
  /\ Claimed(run, claim) /\ Checked(run, cancel, claim, mode, late)

\* The settings of a run are numbers.
LEMMA FineNumbers ==
  /\ StarSamples \in Nat /\ Tries \in Nat /\ Iterations \in Nat /\ Far \in Nat
  /\ Misses \in Nat /\ Reacquisitions \in Nat /\ Legs \in Nat /\ ProbePulses \in Nat
  BY EquipmentAssumption

\* The invariant implies the run's properties.
LEMMA FineFacts == FineInv => Col!FineTypeOK /\ Col!AtMostOneLate
<1> SUFFICES ASSUME FineInv PROVE Col!FineTypeOK /\ Col!AtMostOneLate
  OBVIOUS
<1>1. /\ run.samples \in 0 .. StarSamples /\ run.tries \in 0 .. Tries
      /\ run.loops \in 0 .. Iterations
  BY DEF FineInv, FineRuns
<1>2. run.at = "idle" => claim = "none"
  BY DEF FineInv, Claimed
<1>3. Col!AtMostOneLate
  BY DEF FineInv, Col!AtMostOneLate
<1> QED
  BY <1>1, <1>2, <1>3 DEF FineInv, Col!FineTypeOK

\* The initial states of the run satisfy its invariant.
LEMMA FineStarts == Col!FineInit => FineInv
<1> SUFFICES ASSUME Col!FineInit PROVE FineInv
  OBVIOUS
<1>1. run \in FineRuns /\ run.at = "idle" /\ ~run.pulses
  BY FineNumbers DEF Col!FineInit, Col!Resting, FineRuns
<1>2. /\ claim = "none" /\ late = 0 /\ dist = Far /\ outcome = "none"
      /\ running = FALSE /\ cancel = FALSE /\ aborting = FALSE /\ fineClosed = FALSE
  BY DEF Col!FineInit
<1>3. /\ running \in BOOLEAN /\ cancel \in BOOLEAN /\ aborting \in BOOLEAN /\ fineClosed \in BOOLEAN
  BY <1>2
<1>5. dist \in 0 .. Far
  BY <1>2, FineNumbers
<1>4. Claimed(run, claim) /\ Checked(run, cancel, claim, mode, late)
  BY <1>1, <1>2 DEF Claimed, Checked, Watching, Recentring
<1> QED
  BY <1>1, <1>2, <1>3, <1>4, <1>5 DEF FineInv

\* The end of a run gives everything back.
LEMMA FineEnds ==
  ASSUME FineInv, NEW r \in {"success", "failed", "cancelled"}, Col!End(r)
  PROVE  FineInv'
<1>1. run' \in FineRuns /\ run'.at = "idle" /\ ~run'.pulses
  BY FineNumbers DEF Col!End, Col!Resting, FineRuns
<1>2. /\ claim' = "none" /\ UNCHANGED <<running, cancel, aborting, fineClosed, mode, dist, late>>
      /\ outcome' = r
  BY DEF Col!End, Col!scene
<1> QED
  BY <1>1, <1>2 DEF FineInv, Claimed, Checked, Watching, Recentring

\* A step of the worker alone keeps the claim's rules as long as it neither starts to use guide
\* pulses nor checks a move against anything but the present.
LEMMA FineGoes ==
  ASSUME FineInv, NEW r, Col!Go(r), r \in FineRuns, Claimed(r, claim),
         Checked(r, cancel, claim, mode, late)
  PROVE  FineInv'
<1>1. run' = r /\ UNCHANGED <<running, cancel, aborting, outcome, fineClosed, claim, mode, dist, late>>
  BY DEF Col!Go, Col!gui, Col!scene
<1> QED
  BY <1>1 DEF FineInv

\* The panel and the surroundings can only make a run stop, or let it go on.
LEMMA FineAround ==
  ASSUME FineInv, UNCHANGED <<run, dist>>, claim' \in {claim, "stopped"}, claim = "none" => claim' = claim,
         cancel => cancel', late' \in {0, late},
         cancel' \in BOOLEAN, running' \in BOOLEAN, aborting' \in BOOLEAN, fineClosed' \in BOOLEAN,
         outcome' \in {outcome, "none"},
         ToStop(run, cancel', claim', mode') \/ late' = 0 \/ ~ToStop(run, cancel, claim, mode)
  PROVE  FineInv'
<1>1. Claimed(run', claim')
  BY DEF FineInv, Claimed
<1>2. Checked(run', cancel', claim', mode', late')
  BY DEF FineInv, Checked
<1>3. run' \in FineRuns /\ dist' \in 0 .. Far /\ late' \in {0, 1} /\ claim' \in {"none", "held", "stopped"}
  BY DEF FineInv
<1> QED
  BY <1>1, <1>2, <1>3 DEF FineInv

\* A frame looked at.
LEMMA FineLooks ==
  ASSUME FineInv, Col!Sample
  PROVE  FineInv'
<1>0. /\ run \in FineRuns /\ run.at = "sampling" /\ ~run.pulses /\ claim = "none"
      /\ (cancel \/ late = 0)
  BY DEF FineInv, Claimed, Checked, Watching, Col!Sample
<1>1. CASE \E r \in {"success", "failed", "cancelled"} : Col!End(r)
  BY <1>1, FineEnds
<1>2. CASE run.samples >= StarSamples /\ Col!Go([run EXCEPT !.at = "building"])
  <2> DEFINE r == [run EXCEPT !.at = "building"]
  <2>1. r \in FineRuns /\ r.at = "building" /\ ~r.pulses
    BY <1>0 DEF FineRuns, Watching
  <2> HIDE DEF r
  <2>2. Claimed(r, claim) /\ Checked(r, cancel, claim, mode, late)
    BY <1>0, <2>1 DEF Claimed, Checked, Watching, Recentring
  <2>3. Col!Go(r)
    BY <1>2 DEF r
  <2> QED
    BY <2>1, <2>2, <2>3, FineGoes
<1>3. CASE /\ run.samples < StarSamples /\ ~cancel /\ run.tries < Tries
           /\ Col!Look([run EXCEPT !.tries = @ + 1])
  <2> DEFINE tried == [run EXCEPT !.tries = @ + 1]
  <2>1. /\ tried \in FineRuns /\ tried.at = "sampling" /\ ~tried.pulses
        /\ tried.samples = run.samples
    BY <1>0, <1>3, FineNumbers DEF FineRuns
  <2> HIDE DEF tried
  <2> DEFINE seen == [tried EXCEPT !.selected = TRUE]
  <2>2. /\ seen \in FineRuns /\ seen.at = "sampling" /\ ~seen.pulses
        /\ seen.samples = run.samples
    BY <2>1 DEF FineRuns
  <2> HIDE DEF seen
  <2>3. late = 0
    BY <1>0, <1>3
  <2>4. \/ \E r \in {"success", "failed", "cancelled"} : Col!End(r)
        \/ \E r \in {tried, seen, [seen EXCEPT !.samples = @ + 1, !.misses = 0],
                     [seen EXCEPT !.samples = @ + 1], [seen EXCEPT !.misses = @ + 1],
                     [seen EXCEPT !.misses = @ + 1, !.reacquired = @ + 1, !.at = "deciding"]} :
             Col!Go(r)
    BY <1>3 DEF Col!Look, tried, seen
  <2>5. ASSUME NEW r \in FineRuns, Col!Go(r), r.at \in {"sampling", "deciding"}, ~r.pulses,
               r.at = "deciding" => r.samples = run.samples
        PROVE  FineInv'
    <3>1. Claimed(r, claim) /\ Checked(r, cancel, claim, mode, late)
      BY <1>0, <1>3, <2>3, <2>5 DEF Claimed, Checked, Watching, Recentring
    <3> QED
      BY <2>5, <3>1, FineGoes
  <2>6. CASE \E r \in {"success", "failed", "cancelled"} : Col!End(r)
    BY <2>6, FineEnds
  <2>7. CASE Col!Go(tried)
    BY <2>1, <2>5, <2>7
  <2>8. CASE Col!Go(seen)
    BY <2>2, <2>5, <2>8
  <2>9. seen.samples + 1 \in 0 .. StarSamples /\ seen.misses \in Int /\ seen.reacquired \in Int
    BY <1>3, <2>2, FineNumbers DEF FineRuns
  <2>10. CASE Col!Go([seen EXCEPT !.samples = @ + 1, !.misses = 0])
    <3> DEFINE r == [seen EXCEPT !.samples = @ + 1, !.misses = 0]
    <3> DEFINE found == [seen EXCEPT !.misses = 0]
    <3>a. /\ found \in FineRuns /\ found.at = "sampling" /\ ~found.pulses
          /\ found.samples = seen.samples
      BY <2>2 DEF FineRuns
    <3>b. r = [found EXCEPT !.samples = seen.samples + 1]
      BY <2>2 DEF FineRuns
    <3> HIDE DEF found, r
    <3>1. r \in FineRuns /\ r.at = "sampling" /\ ~r.pulses
      BY <2>9, <3>a, <3>b DEF FineRuns
    <3>2. Col!Go(r)
      BY <2>10 DEF r
    <3> QED
      BY <3>1, <3>2, <2>5
  <2>11. CASE Col!Go([seen EXCEPT !.samples = @ + 1])
    <3> DEFINE r == [seen EXCEPT !.samples = @ + 1]
    <3>1. r \in FineRuns /\ r.at = "sampling" /\ ~r.pulses
      BY <2>2, <2>9 DEF FineRuns
    <3> HIDE DEF r
    <3>2. Col!Go(r)
      BY <2>11 DEF r
    <3> QED
      BY <3>1, <3>2, <2>5
  <2>12. CASE Col!Go([seen EXCEPT !.misses = @ + 1])
    <3> DEFINE r == [seen EXCEPT !.misses = @ + 1]
    <3>1. r \in FineRuns /\ r.at = "sampling" /\ ~r.pulses
      BY <2>2, <2>9 DEF FineRuns
    <3> HIDE DEF r
    <3>2. Col!Go(r)
      BY <2>12 DEF r
    <3> QED
      BY <3>1, <3>2, <2>5
  <2>13. CASE Col!Go([seen EXCEPT !.misses = @ + 1, !.reacquired = @ + 1, !.at = "deciding"])
    <3> DEFINE r == [seen EXCEPT !.misses = @ + 1, !.reacquired = @ + 1, !.at = "deciding"]
    <3> DEFINE lost == [seen EXCEPT !.misses = seen.misses + 1]
    <3> DEFINE back == [lost EXCEPT !.reacquired = seen.reacquired + 1]
    <3>a. /\ lost \in FineRuns /\ lost.at = "sampling" /\ ~lost.pulses
          /\ lost.samples = run.samples
      BY <2>2, <2>9 DEF FineRuns
    <3> HIDE DEF lost
    <3>b. /\ back \in FineRuns /\ back.at = "sampling" /\ ~back.pulses
          /\ back.samples = run.samples
      BY <2>9, <3>a DEF FineRuns
    <3>c. r = [back EXCEPT !.at = "deciding"]
      BY <2>2 DEF FineRuns, back, lost
    <3> HIDE DEF back, r
    <3>1. r \in FineRuns /\ r.at = "deciding" /\ ~r.pulses /\ r.samples = run.samples
      BY <3>b, <3>c DEF FineRuns
    <3>2. Col!Go(r)
      BY <2>13 DEF r
    <3> QED
      BY <3>1, <3>2, <2>5
  <2> QED
    BY <2>4, <2>6, <2>7, <2>8, <2>10, <2>11, <2>12, <2>13
<1>4. run.samples \in Int /\ run.tries \in Int /\ StarSamples \in Int /\ Tries \in Int
  BY <1>0, FineNumbers DEF FineRuns
<1> QED
  BY <1>1, <1>2, <1>3, <1>4 DEF Col!Sample


\* The star is lost: the run decides how to bring it back, and claims the executor.
LEMMA FineClaims ==
  ASSUME FineInv, Col!Decide \/ Col!Claim
  PROVE  FineInv'
<1>0. /\ run \in FineRuns /\ claim = "none" /\ run.samples < StarSamples /\ late = 0
  BY DEF FineInv, Claimed, Checked, Watching, Col!Decide, Col!Claim
<1>1. CASE \E r \in {"success", "failed", "cancelled"} : Col!End(r)
  BY <1>1, FineEnds
<1>2. ASSUME NEW p, p = TRUE \/ p = FALSE, Col!Go([run EXCEPT !.at = "claiming", !.pulses = p])
      PROVE  FineInv'
  <2> DEFINE r == [run EXCEPT !.at = "claiming", !.pulses = p]
  <2>1. r \in FineRuns /\ r.at = "claiming" /\ r.samples < StarSamples
    BY <1>0, <1>2 DEF FineRuns
  <2> HIDE DEF r
  <2>2. Claimed(r, claim) /\ Checked(r, cancel, claim, mode, late)
    BY <1>0, <2>1 DEF Claimed, Checked, Watching, Recentring
  <2>3. Col!Go(r)
    BY <1>2 DEF r
  <2> QED
    BY <2>1, <2>2, <2>3, FineGoes
<1>3. CASE /\ claim' = "held"
           /\ run' = IF run.pulses THEN [run EXCEPT !.at = "measuring", !.why = "before", !.leg = 1]
                     ELSE [run EXCEPT !.at = "looping", !.loops = 0]
           /\ UNCHANGED <<Col!gui, Col!scene, dist, late>>
  <2>1. ASSUME ~run.pulses
       PROVE  run' \in FineRuns /\ run'.at \in Recentring /\ run'.samples = run.samples
    <3> DEFINE r == [run EXCEPT !.at = "looping"]
    <3>1. r \in FineRuns /\ r.at = "looping" /\ r.samples = run.samples
      BY <1>0 DEF FineRuns, Recentring
    <3>2. run' = [r EXCEPT !.loops = 0]
      BY <1>0, <1>3, <2>1 DEF FineRuns
    <3>3. 0 \in 0 .. Iterations
      BY FineNumbers
    <3> HIDE DEF r
    <3>4. run' \in FineRuns /\ run'.at = r.at /\ run'.samples = r.samples
      BY <3>1, <3>2, <3>3 DEF FineRuns
    <3> QED
      BY <3>1, <3>4 DEF Recentring
  <2>2. ASSUME run.pulses
       PROVE  run' \in FineRuns /\ run'.at \in Recentring /\ run'.samples = run.samples
    <3> DEFINE r == [run EXCEPT !.at = "measuring", !.why = "before"]
    <3>1. r \in FineRuns /\ r.at = "measuring" /\ r.samples = run.samples
      BY <1>0 DEF FineRuns, Recentring
    <3>2. run' = [r EXCEPT !.leg = 1]
      BY <1>0, <1>3, <2>2 DEF FineRuns
    <3> HIDE DEF r
    <3>3. run' \in FineRuns /\ run'.at = r.at /\ run'.samples = r.samples
      BY <3>1, <3>2 DEF FineRuns
    <3> QED
      BY <3>1, <3>3 DEF Recentring
  <2>3. run' \in FineRuns /\ run'.at \in Recentring /\ run'.samples = run.samples
    BY <2>1, <2>2
  <2>4. /\ UNCHANGED <<running, cancel, aborting, outcome, fineClosed, mode, dist, late>>
    BY <1>3 DEF Col!gui, Col!scene
  <2>5. Claimed(run', claim') /\ Checked(run', cancel', claim', mode', late')
    BY <1>0, <1>3, <2>3, <2>4 DEF Claimed, Checked, Watching, Recentring
  <2> QED
    BY <1>3, <2>3, <2>4, <2>5 DEF FineInv
<1>4. TRUE \in BOOLEAN /\ FALSE \in BOOLEAN
  OBVIOUS
<1>5. CASE Col!Decide
  BY <1>1, <1>2, <1>5 DEF Col!Decide
<1>6. CASE Col!Claim
  BY <1>1, <1>3, <1>6 DEF Col!Claim
<1> QED
  BY <1>5, <1>6

\* Within the recentring, a step that does not send a move keeps what makes it stop.
LEMMA FineRecentres ==
  ASSUME FineInv, run.at \in Recentring, NEW r \in FineRuns, Col!Go(r), r.pulses = run.pulses,
         r.samples = run.samples,
         r.at \in Recentring \/ (r.at = "sending" /\ ~Col!MustStop)
  PROVE  FineInv'
<1>1. run.samples < StarSamples /\ (ToStop(run, cancel, claim, mode) \/ late = 0)
  BY DEF FineInv, Claimed, Checked, Watching, Recentring
<1>2. Col!MustStop <=> ToStop(run, cancel, claim, mode)
  BY DEF Col!MustStop, Col!ModeLeft, ToStop
<1>3. ToStop(r, cancel, claim, mode) <=> ToStop(run, cancel, claim, mode)
  BY DEF ToStop
<1>4. Claimed(r, claim) /\ Checked(r, cancel, claim, mode, late)
  BY <1>1, <1>2, <1>3 DEF Claimed, Checked, Watching, Recentring
<1> QED
  BY <1>4, FineGoes

\* A run that goes on recentring, with its samples and its kind of moves.
Turned(r) ==
  r \in FineRuns /\ r.at \in Recentring /\ r.pulses = run.pulses /\ r.samples = run.samples

\* The fields a recentring writes.
LEMMA Turns ==
  ASSUME NEW r, Turned(r)
  PROVE  /\ \A a \in Recentring : Turned([r EXCEPT !.at = a])
         /\ \A y \in {"loop", "before", "after", "probe", "step", "final"} :
              Turned([r EXCEPT !.why = y])
         /\ \A n \in 0 .. Iterations : Turned([r EXCEPT !.loops = n])
         /\ \A n \in Int : /\ Turned([r EXCEPT !.leg = n]) /\ Turned([r EXCEPT !.probe = n])
                           /\ Turned([r EXCEPT !.prev = n]) /\ Turned([r EXCEPT !.diverged = n])
                           /\ Turned([r EXCEPT !.steps = n])
<1>0. r \in FineRuns /\ r.at \in Recentring /\ r.pulses = run.pulses /\ r.samples = run.samples
  BY DEF Turned
<1>1. ASSUME NEW a \in Recentring PROVE Turned([r EXCEPT !.at = a])
  <2> DEFINE s == [r EXCEPT !.at = a]
  <2>1. s \in FineRuns /\ s.at = a /\ s.pulses = r.pulses /\ s.samples = r.samples
    BY <1>0 DEF FineRuns
  <2> QED
    BY <1>0, <2>1 DEF Turned
<1>2. ASSUME NEW y \in {"loop", "before", "after", "probe", "step", "final"}
      PROVE  Turned([r EXCEPT !.why = y])
  <2> DEFINE s == [r EXCEPT !.why = y]
  <2>1. s \in FineRuns /\ s.at = r.at /\ s.pulses = r.pulses /\ s.samples = r.samples
    BY <1>0 DEF FineRuns
  <2> QED
    BY <1>0, <2>1 DEF Turned
<1>3. ASSUME NEW n \in 0 .. Iterations PROVE Turned([r EXCEPT !.loops = n])
  <2> DEFINE s == [r EXCEPT !.loops = n]
  <2>1. s \in FineRuns /\ s.at = r.at /\ s.pulses = r.pulses /\ s.samples = r.samples
    BY <1>0 DEF FineRuns
  <2> QED
    BY <1>0, <2>1 DEF Turned
<1>4. ASSUME NEW n \in Int PROVE Turned([r EXCEPT !.leg = n])
  <2> DEFINE s == [r EXCEPT !.leg = n]
  <2>1. s \in FineRuns /\ s.at = r.at /\ s.pulses = r.pulses /\ s.samples = r.samples
    BY <1>0 DEF FineRuns
  <2> QED
    BY <1>0, <2>1 DEF Turned
<1>5. ASSUME NEW n \in Int PROVE Turned([r EXCEPT !.probe = n])
  <2> DEFINE s == [r EXCEPT !.probe = n]
  <2>1. s \in FineRuns /\ s.at = r.at /\ s.pulses = r.pulses /\ s.samples = r.samples
    BY <1>0 DEF FineRuns
  <2> QED
    BY <1>0, <2>1 DEF Turned
<1>6. ASSUME NEW n \in Int PROVE Turned([r EXCEPT !.prev = n])
  <2> DEFINE s == [r EXCEPT !.prev = n]
  <2>1. s \in FineRuns /\ s.at = r.at /\ s.pulses = r.pulses /\ s.samples = r.samples
    BY <1>0 DEF FineRuns
  <2> QED
    BY <1>0, <2>1 DEF Turned
<1>7. ASSUME NEW n \in Int PROVE Turned([r EXCEPT !.diverged = n])
  <2> DEFINE s == [r EXCEPT !.diverged = n]
  <2>1. s \in FineRuns /\ s.at = r.at /\ s.pulses = r.pulses /\ s.samples = r.samples
    BY <1>0 DEF FineRuns
  <2> QED
    BY <1>0, <2>1 DEF Turned
<1>8. ASSUME NEW n \in Int PROVE Turned([r EXCEPT !.steps = n])
  <2> DEFINE s == [r EXCEPT !.steps = n]
  <2>1. s \in FineRuns /\ s.at = r.at /\ s.pulses = r.pulses /\ s.samples = r.samples
    BY <1>0 DEF FineRuns
  <2> QED
    BY <1>0, <2>1 DEF Turned
<1> QED
  BY <1>1, <1>2, <1>3, <1>4, <1>5, <1>6, <1>7, <1>8

\* The loop, and what follows a measurement.
LEMMA FineMeasures ==
  ASSUME FineInv, Col!Loop \/ Col!Measure
  PROVE  FineInv'
<1>0. run \in FineRuns /\ run.at \in Recentring /\ Turned(run)
  BY DEF FineInv, Recentring, Turned, Col!Loop, Col!Measure, Col!MeasureFails, Col!MeasureBefore,
         Col!MeasureAfter, Col!MeasureLoop, Col!MeasureFinal
<1>1. CASE \E r \in {"success", "failed", "cancelled"} : Col!End(r)
  BY <1>1, FineEnds
<1>2. ASSUME NEW r, Turned(r), Col!Go(r) PROVE FineInv'
  BY <1>0, <1>2, FineRecentres DEF Turned
<1>3. /\ run.leg \in Int /\ run.probe \in Int /\ run.loops \in 0 .. Iterations /\ run.prev \in Int
      /\ run.diverged \in Int /\ dist \in Int
  BY <1>0 DEF FineRuns, FineInv
<1>4. ASSUME NEW r, Turned(r), NEW a \in Recentring,
             NEW y \in {"loop", "before", "after", "probe", "step", "final"}
      PROVE  Turned([r EXCEPT !.at = a, !.why = y])
  <2> DEFINE s == [r EXCEPT !.at = a]
  <2>1. Turned(s)
    BY <1>4, Turns
  <2>2. [r EXCEPT !.at = a, !.why = y] = [s EXCEPT !.why = y]
    BY <1>4 DEF FineRuns, Turned
  <2>3. Turned([s EXCEPT !.why = y])
    BY <1>4, <2>1, Turns
  <2> HIDE DEF s
  <2> QED
    BY <2>2, <2>3
<1>5. CASE Col!Loop
  <2>1. CASE run.loops >= Iterations /\ Col!Go([run EXCEPT !.at = "measuring", !.why = "final"])
    BY <1>0, <1>2, <1>4, <2>1 DEF Recentring
  <2>2. CASE /\ run.loops < Iterations
             /\ Col!Go([run EXCEPT !.at = "measuring", !.why = "loop", !.loops = @ + 1])
    <3> DEFINE s == [run EXCEPT !.at = "measuring", !.why = "loop"]
    <3> DEFINE r == [s EXCEPT !.loops = run.loops + 1]
    <3>1. Turned(s)
      BY <1>0, <1>4 DEF Recentring
    <3>2. [run EXCEPT !.at = "measuring", !.why = "loop", !.loops = @ + 1] = r
      BY <1>0 DEF FineRuns
    <3>3. run.loops + 1 \in 0 .. Iterations
      BY <1>3, <2>2, FineNumbers
    <3> HIDE DEF s
    <3>4. Turned(r)
      BY <3>1, <3>3, Turns
    <3> HIDE DEF r
    <3> QED
      BY SMTT(30), <1>2, <2>2, <3>2, <3>4
  <2> QED
    BY <1>1, <1>5, <2>1, <2>2 DEF Col!Loop, Col!Cancelled
<1>6. CASE Col!MeasureFails
  BY <1>1, <1>6 DEF Col!MeasureFails, Col!Cancelled
<1>7. CASE Col!Returned
  <2>1. Turned([run EXCEPT !.at = "returning"])
    BY <1>0, Turns DEF Recentring
  <2> QED
    BY <1>2, <1>7, <2>1 DEF Col!Returned
<1>8. ASSUME NEW g \in Int, NEW n \in Int, Col!Go(Col!Probe(g, n))
      PROVE  FineInv'
  <2> DEFINE s == [run EXCEPT !.at = "checking", !.why = "probe"]
  <2> DEFINE t == [s EXCEPT !.leg = g]
  <2> DEFINE r == [t EXCEPT !.probe = n]
  <2>1. Turned(s)
    BY <1>0, <1>4 DEF Recentring
  <2>2. Col!Probe(g, n) = r
    BY <1>0 DEF FineRuns, Col!Probe
  <2> HIDE DEF s
  <2>3. Turned(t)
    BY <2>1, Turns
  <2> HIDE DEF t
  <2>4. Turned(r)
    BY <2>3, Turns
  <2> HIDE DEF r
  <2> QED
    BY <1>2, <1>8, <2>2, <2>4
<1>9. CASE Col!MeasureBefore
  BY <1>3, <1>8, <1>9 DEF Col!MeasureBefore
<1>10. CASE Col!MeasureAfter
  <2>1. CASE Col!Go([run EXCEPT !.why = "before", !.leg = @ + 1])
    <3> DEFINE s == [run EXCEPT !.why = "before"]
    <3> DEFINE r == [s EXCEPT !.leg = run.leg + 1]
    <3>1. Turned(s)
      BY <1>0, Turns
    <3>2. [run EXCEPT !.why = "before", !.leg = @ + 1] = r
      BY <1>0 DEF FineRuns
    <3>3. run.leg + 1 \in Int
      BY <1>3
    <3> HIDE DEF s
    <3>4. Turned(r)
      BY <3>1, <3>3, Turns
    <3> HIDE DEF r
    <3> QED
      BY <1>2, <2>1, <3>2, <3>4
  <2>2. CASE Col!Go([run EXCEPT !.at = "looping"])
    <3>1. Turned([run EXCEPT !.at = "looping"])
      BY <1>0, Turns DEF Recentring
    <3> QED
      BY <1>2, <2>2, <3>1
  <2>3. run.probe + 1 \in Int
    BY <1>3
  <2> QED
    BY <1>1, <1>3, <1>8, <1>10, <2>1, <2>2, <2>3 DEF Col!MeasureAfter
<1>11. CASE Col!MeasureLoop
  <2>1. Col!Diverged(dist) \in Int
    BY <1>3 DEF Col!Diverged
  <2> DEFINE n == IF run.prev < 0 THEN 0 ELSE Col!Diverged(dist)
  <2>2. n \in Int
    BY <2>1
  <2>3. \/ \E r \in {"success", "failed", "cancelled"} : Col!End(r)
        \/ Col!Returned
        \/ \E s \in Col!Planned : Col!Go([run EXCEPT !.at = "checking", !.why = "step", !.steps = s,
                                                     !.prev = dist, !.diverged = n])
    BY <1>11 DEF Col!MeasureLoop
  <2> HIDE DEF n
  <2>4. CASE \E s \in Col!Planned : Col!Go([run EXCEPT !.at = "checking", !.why = "step", !.steps = s,
                                                       !.prev = dist, !.diverged = n])
    <3>1. PICK k \in Col!Planned : Col!Go([run EXCEPT !.at = "checking", !.why = "step", !.steps = k,
                                                       !.prev = dist, !.diverged = n])
      BY <2>4
    <3>2. k \in Int
      BY DEF Col!Planned
    <3> DEFINE s == [run EXCEPT !.at = "checking", !.why = "step"]
    <3> DEFINE t == [s EXCEPT !.steps = k]
    <3> DEFINE u == [t EXCEPT !.prev = dist]
    <3> DEFINE r == [u EXCEPT !.diverged = n]
    <3>3. [run EXCEPT !.at = "checking", !.why = "step", !.steps = k, !.prev = dist,
                      !.diverged = n] = r
      BY SMTT(30), <1>0 DEF FineRuns
    <3>4. Turned(s)
      BY <1>0, <1>4 DEF Recentring
    <3> HIDE DEF s
    <3>5. Turned(t)
      BY <3>2, <3>4, Turns
    <3> HIDE DEF t
    <3>6. Turned(u)
      BY <1>3, <3>5, Turns
    <3> HIDE DEF u
    <3>7. Turned(r)
      BY <2>2, <3>6, Turns
    <3> HIDE DEF r
    <3> QED
      BY <1>2, <3>1, <3>3, <3>7
  <2> QED
    BY <1>1, <1>7, <2>3, <2>4
<1>12. CASE Col!MeasureFinal
  BY <1>1, <1>7, <1>12 DEF Col!MeasureFinal
<1> QED
  BY <1>5, <1>6, <1>9, <1>10, <1>11, <1>12 DEF Col!Measure

\* A move is checked, and sent.
LEMMA FineMoves ==
  ASSUME FineInv, Col!Check \/ Col!Send
  PROVE  FineInv'
<1>0. run \in FineRuns /\ run.samples < StarSamples /\ late \in {0, 1}
  BY DEF FineInv, Claimed, Watching, Col!Check, Col!Send
<1>1. CASE \E r \in {"success", "failed", "cancelled"} : Col!End(r)
  BY <1>1, FineEnds
<1>2. CASE Col!Check
  <2>1. CASE ~Col!MustStop /\ Col!Go([run EXCEPT !.at = "sending"])
    <3> DEFINE r == [run EXCEPT !.at = "sending"]
    <3>1. r \in FineRuns /\ r.at = "sending" /\ r.pulses = run.pulses /\ r.samples = run.samples
      BY <1>0 DEF FineRuns
    <3>2. Col!Go(r) /\ run.at \in Recentring
      BY <1>2, <2>1 DEF Col!Check, Recentring
    <3> HIDE DEF r
    <3> QED
      BY <2>1, <3>1, <3>2, FineRecentres
  <2> QED
    BY <1>1, <1>2, <2>1 DEF Col!Check, Col!Cancelled
<1>3. CASE /\ run.at = "sending"
           /\ late' = IF Col!MustStop THEN late + 1 ELSE late
           /\ dist' \in 0 .. Far
           /\ run' = CASE run.why = "probe" -> [run EXCEPT !.at = "measuring", !.why = "after"]
                       [] run.why = "step" /\ run.steps > 1 ->
                            [run EXCEPT !.at = "checking", !.steps = @ - 1]
                       [] OTHER -> [run EXCEPT !.at = "looping", !.steps = 0]
           /\ UNCHANGED <<Col!gui, claim, Col!scene>>
  <2>1. late = 0
    BY <1>3 DEF FineInv, Checked
  <2>2. run.steps \in Int
    BY <1>0 DEF FineRuns
  <2>3. Turned(run')
    <3>1. ASSUME NEW a \in Recentring PROVE Turned([run EXCEPT !.at = a])
      <4> DEFINE c == [run EXCEPT !.at = a]
      <4>1. c \in FineRuns /\ c.at = a /\ c.pulses = run.pulses /\ c.samples = run.samples
        BY <1>0 DEF FineRuns
      <4> QED
        BY <4>1 DEF Turned
    <3>2. CASE run.why = "probe"
      <4> DEFINE d == [run EXCEPT !.at = "measuring"]
      <4>1. run' = [d EXCEPT !.why = "after"]
        BY <1>3, <3>2
      <4>2. Turned(d)
        BY <3>1 DEF Recentring
      <4> HIDE DEF d
      <4> QED
        BY <4>1, <4>2, Turns
    <3>3. CASE run.why = "step" /\ run.steps > 1
      <4> DEFINE d == [run EXCEPT !.at = "checking"]
      <4>1. run' = [d EXCEPT !.steps = run.steps - 1]
        BY <1>0, <1>3, <3>3 DEF FineRuns
      <4>2. Turned(d)
        BY <3>1 DEF Recentring
      <4>3. run.steps - 1 \in Int
        BY <2>2
      <4> HIDE DEF d
      <4> QED
        BY <4>1, <4>2, <4>3, Turns
    <3>4. CASE run.why # "probe" /\ ~(run.why = "step" /\ run.steps > 1)
      <4> DEFINE d == [run EXCEPT !.at = "looping"]
      <4>1. run' = [d EXCEPT !.steps = 0]
        BY <1>3, <3>4
      <4>2. Turned(d)
        BY <3>1 DEF Recentring
      <4> HIDE DEF d
      <4>3. 0 \in Int
        OBVIOUS
      <4>4. Turned([d EXCEPT !.steps = 0])
        BY <4>2, <4>3, Turns
      <4> QED
        BY <4>1, <4>4
    <3> QED
      BY <3>2, <3>3, <3>4
  <2>4. /\ UNCHANGED <<running, cancel, aborting, outcome, fineClosed, claim, mode>>
    BY <1>3 DEF Col!gui, Col!scene
  <2>5. Col!MustStop <=> ToStop(run', cancel', claim', mode')
    BY <2>3, <2>4 DEF Col!MustStop, Col!ModeLeft, ToStop, Turned
  <2>6. late' \in {0, 1} /\ (late' = 0 \/ Col!MustStop)
    BY <1>3, <2>1
  <2>7. Checked(run', cancel', claim', mode', late')
    BY <2>3, <2>5, <2>6 DEF Checked, Turned, Recentring, Watching
  <2>8. Claimed(run', claim')
    BY <1>0, <2>3 DEF Claimed, Turned, Recentring, Watching
  <2> QED
    BY <1>3, <2>3, <2>4, <2>6, <2>7, <2>8 DEF FineInv, Turned
<1>4. CASE Col!Send
  BY <1>1, <1>3, <1>4 DEF Col!Send, Col!Cancelled
<1> QED
  BY <1>2, <1>4

\* Back in Main, only what cancelled the run goes on with it.
LEMMA FineReturns ==
  ASSUME FineInv, Col!Return
  PROVE  FineInv'
<1>0. run \in FineRuns /\ run.samples < StarSamples /\ run.samples \in Nat
  BY FineNumbers DEF FineInv, Claimed, Watching, Col!Return, FineRuns
<1>1. CASE latest # "star" /\ Col!End("failed")
  BY <1>1, FineEnds
<1>2. CASE latest = "star"
  <2>1. /\ run' = [Col!Resting EXCEPT !.at = "sampling", !.samples = run.samples + 1,
                     !.tries = run.tries, !.selected = TRUE, !.reacquired = run.reacquired]
        /\ claim' = "none" /\ late' = IF cancel THEN late ELSE 0
        /\ UNCHANGED <<running, cancel, aborting, outcome, fineClosed, mode, dist>>
    BY <1>2 DEF Col!Return, Col!gui, Col!scene
  <2>2. run' = [at |-> "sampling", samples |-> run.samples + 1, tries |-> run.tries, misses |-> 0,
                selected |-> TRUE, reacquired |-> run.reacquired, pulses |-> FALSE, why |-> "loop",
                leg |-> 0, probe |-> 0, loops |-> 0, prev |-> -1, diverged |-> 0, steps |-> 0]
    BY <2>1 DEF Col!Resting
  <2>3. /\ run.samples + 1 \in 0 .. StarSamples /\ run.tries \in 0 .. Tries
        /\ run.reacquired \in Int /\ 0 \in 0 .. Iterations
    BY <1>0, FineNumbers DEF FineRuns
  <2>4. run' \in FineRuns /\ run'.at = "sampling" /\ ~run'.pulses
    BY <2>2, <2>3 DEF FineRuns, Watching
  <2>5. Claimed(run', claim') /\ Checked(run', cancel', claim', mode', late')
    BY <2>1, <2>4 DEF Claimed, Checked, Watching, Recentring
  <2>6. late' \in {0, 1}
    BY <2>1 DEF FineInv
  <2> QED
    BY <2>1, <2>4, <2>5, <2>6 DEF FineInv
<1> QED
  BY <1>1, <1>2 DEF Col!Return

\* Every step of the run, its panel and its surroundings keeps the invariant.
LEMMA FineStepKeeps ==
  ASSUME FineInv, [Col!FineNext]_fineVars
  PROVE  FineInv'
<1>0. /\ run \in FineRuns /\ claim \in {"none", "held", "stopped"}
      /\ running \in BOOLEAN /\ cancel \in BOOLEAN /\ aborting \in BOOLEAN /\ fineClosed \in BOOLEAN
  BY DEF FineInv
<1>1. CASE Col!RunClicked
  <2>1. run' = [Col!Resting EXCEPT !.at = "sampling"] /\ running' = TRUE /\ cancel' = FALSE
        /\ late' = 0 /\ UNCHANGED <<aborting, outcome, fineClosed, claim, dist>> /\ claim = "none"
    BY <1>1 DEF Col!RunClicked, FineInv, Claimed
  <2>a. run' = [at |-> "sampling", samples |-> 0, tries |-> 0, misses |-> 0,
                selected |-> FALSE, reacquired |-> 0, pulses |-> FALSE, why |-> "loop",
                leg |-> 0, probe |-> 0, loops |-> 0, prev |-> -1, diverged |-> 0, steps |-> 0]
    BY <2>1 DEF Col!Resting
  <2>b. 0 \in 0 .. StarSamples /\ 0 \in 0 .. Tries /\ 0 \in 0 .. Iterations /\ -1 \in Int
    BY FineNumbers
  <2>2. run' \in FineRuns /\ run'.at = "sampling" /\ ~run'.pulses
    BY <2>a, <2>b DEF FineRuns, Watching
  <2>3. Claimed(run', claim') /\ Checked(run', cancel', claim', mode', late')
    BY <2>1, <2>2 DEF Claimed, Checked, Watching, Recentring
  <2>4. running' \in BOOLEAN /\ cancel' \in BOOLEAN
    BY <2>1
  <2> QED
    BY <1>0, <2>1, <2>2, <2>3, <2>4 DEF FineInv
<1>2. ASSUME NEW l \in BOOLEAN, Col!CancelClicked(l) PROVE FineInv'
  <2>1. /\ UNCHANGED <<running, outcome, run, claim, mode, dist, late>>
        /\ cancel' = (cancel \/ running) /\ aborting' = running /\ fineClosed' = l
    BY <1>2 DEF Col!CancelClicked, Col!scene
  <2>2. cancel' \in BOOLEAN /\ (cancel => cancel')
    BY <1>0, <2>1
  <2>3. /\ running' \in BOOLEAN /\ aborting' \in BOOLEAN /\ fineClosed' \in BOOLEAN
        /\ outcome' \in {outcome, "none"} /\ claim' \in {claim, "stopped"} /\ late' \in {0, late}
    BY <1>0, <2>1
  <2>4. ToStop(run, cancel, claim, mode) => ToStop(run, cancel', claim', mode')
    BY <2>1, <2>2 DEF ToStop
  <2> QED
    BY <2>1, <2>2, <2>3, <2>4, FineAround
<1>3. CASE Col!AbortReached \/ Col!StopMount
  <2>1. /\ UNCHANGED <<running, cancel, outcome, fineClosed, run, mode, dist, late>>
        /\ claim' = IF claim = "held" THEN "stopped" ELSE claim
        /\ aborting' \in {aborting, FALSE}
    BY <1>3 DEF Col!AbortReached, Col!StopMount, Col!StopClaim, Col!gui, Col!scene
  <2>2. /\ running' \in BOOLEAN /\ aborting' \in BOOLEAN /\ fineClosed' \in BOOLEAN
        /\ cancel' \in BOOLEAN /\ (cancel => cancel')
    BY <1>0, <2>1
  <2>3. /\ outcome' \in {outcome, "none"} /\ claim' \in {claim, "stopped"} /\ late' \in {0, late}
        /\ (claim = "none" => claim' = claim)
    BY <2>1
  <2>4. ToStop(run, cancel, claim, mode) => ToStop(run, cancel', claim', mode')
    BY <2>1 DEF ToStop
  <2> QED
    BY <2>1, <2>2, <2>3, <2>4, FineAround
<1>4. CASE Col!PollRun
  <2>1. /\ UNCHANGED <<cancel, aborting, fineClosed, run, claim, mode, dist, late>>
        /\ outcome' = "none" /\ running' = FALSE
    BY <1>4 DEF Col!PollRun, Col!scene
  <2>2. /\ running' \in BOOLEAN /\ aborting' \in BOOLEAN /\ fineClosed' \in BOOLEAN
        /\ cancel' \in BOOLEAN /\ (cancel => cancel')
    BY <1>0, <2>1
  <2>3. /\ outcome' \in {outcome, "none"} /\ claim' \in {claim, "stopped"} /\ late' \in {0, late}
    BY <2>1
  <2>4. ToStop(run, cancel, claim, mode) => ToStop(run, cancel', claim', mode')
    BY <2>1 DEF ToStop
  <2> QED
    BY <2>1, <2>2, <2>3, <2>4, FineAround
<1>5. CASE Col!SwitchMode
  <2>1. /\ UNCHANGED <<running, cancel, aborting, outcome, fineClosed, run, claim, dist>>
        /\ late' = IF ToStop(run, cancel, claim, mode') THEN late ELSE 0
    BY <1>5 DEF Col!SwitchMode, Col!gui, Col!MustStop, Col!ModeLeft, ToStop
  <2>2. /\ running' \in BOOLEAN /\ aborting' \in BOOLEAN /\ fineClosed' \in BOOLEAN
        /\ cancel' \in BOOLEAN /\ (cancel => cancel')
    BY <1>0, <2>1
  <2>3. /\ outcome' \in {outcome, "none"} /\ claim' \in {claim, "stopped"} /\ late' \in {0, late}
    BY <2>1
  <2>4. ToStop(run, cancel', claim', mode') \/ late' = 0
    BY <2>1
  <2> QED
    BY <2>1, <2>2, <2>3, <2>4, FineAround
<1>6. CASE Col!MainFrame \/ UNCHANGED fineVars
  <2>1. UNCHANGED <<running, cancel, aborting, outcome, fineClosed, run, claim, mode, dist, late>>
    BY <1>6 DEF Col!MainFrame, Col!gui, fineVars
  <2> QED
    BY <2>1 DEF FineInv, Claimed, Checked, ToStop
<1>7. CASE Col!FineWorker
  <2>1. CASE Col!Build
    <3>1. \E r \in {"success", "failed", "cancelled"} : Col!End(r)
      BY <2>1 DEF Col!Build
    <3> QED
      BY <3>1, FineEnds
  <2> QED
    BY <1>7, <2>1, FineLooks, FineClaims, FineMeasures, FineMoves, FineReturns
    DEF Col!FineWorker
<1> QED
  BY <1>1, <1>2, <1>3, <1>4, <1>5, <1>6, <1>7 DEF Col!FineNext

-------------------------------------------------------------------------------
(* The focuser panel and its autofocus.                                      *)

\* The fields of the autofocus worker.
Fields ==
  {"at", "mode", "path", "then", "moving", "quiet", "aborting", "sampled", "refused",
   "start", "startV", "best", "bestV", "dir", "step", "k", "misses", "climbs",
   "saturated", "status", "before", "attempts", "lowered"}
Shaped(r) == DOMAIN r = Fields /\ r = [f \in Fields |-> r[f]]

\* Setting a field keeps the shape.
LEMMA Reshaped ==
  ASSUME NEW r, Shaped(r), NEW v
  PROVE  /\ Shaped([r EXCEPT !.at = v]) /\ Shaped([r EXCEPT !.mode = v])
         /\ Shaped([r EXCEPT !.path = v]) /\ Shaped([r EXCEPT !.then = v])
         /\ Shaped([r EXCEPT !.moving = v]) /\ Shaped([r EXCEPT !.quiet = v])
         /\ Shaped([r EXCEPT !.aborting = v]) /\ Shaped([r EXCEPT !.sampled = v])
         /\ Shaped([r EXCEPT !.refused = v]) /\ Shaped([r EXCEPT !.start = v])
         /\ Shaped([r EXCEPT !.startV = v]) /\ Shaped([r EXCEPT !.best = v])
         /\ Shaped([r EXCEPT !.bestV = v]) /\ Shaped([r EXCEPT !.dir = v])
         /\ Shaped([r EXCEPT !.step = v]) /\ Shaped([r EXCEPT !.k = v])
         /\ Shaped([r EXCEPT !.misses = v]) /\ Shaped([r EXCEPT !.climbs = v])
         /\ Shaped([r EXCEPT !.saturated = v]) /\ Shaped([r EXCEPT !.status = v])
         /\ Shaped([r EXCEPT !.before = v]) /\ Shaped([r EXCEPT !.attempts = v])
         /\ Shaped([r EXCEPT !.lowered = v])
  BY ZenonT(60) DEF Shaped, Fields

\* What the search does to a run keeps its shape.
LEMMA StepShaped ==
  ASSUME NEW r, Shaped(r)
  PROVE  /\ \A path, then : Shaped(Foc!Go(r, path, then))
         /\ Shaped(Foc!Closing(r))
<1>1. ASSUME NEW path, NEW then PROVE Shaped(Foc!Go(r, path, then))
  BY Reshaped DEF Foc!Go
<1>2. Shaped(Foc!Closing(r))
  BY Reshaped DEF Foc!Closing
<1> QED
  BY <1>1, <1>2

\* The settings of the autofocus are numbers.
LEMMA FocusNumbers ==
  /\ CoarseStep \in Nat /\ FineStep \in Nat /\ Envelope \in Nat /\ Limit \in Nat
  /\ FirstPosition \in 0 .. Limit /\ MaxSteps \in Nat /\ 1 <= MaxSteps /\ MaxNoImprove \in Nat
  /\ MaxAttempts \in Nat /\ 1 <= MaxAttempts /\ Brightest \in Nat /\ 1 <= Brightest
  BY EquipmentAssumption

\* What the worker counts and where it may go.
Sized(r) ==
  /\ r.start \in 0 .. Limit /\ r.best \in 0 .. Limit /\ r.path \in Seq(Int)
  /\ r.climbs \in 0 .. MaxSteps /\ r.attempts \in 0 .. MaxAttempts
  /\ r.dir \in Int /\ r.step \in Int

\* p is in the envelope around c; a path leads to p.
Near(p, c) == c - Envelope <= p /\ p <= c + Envelope
Leads(path, from, p) == IF path = <<>> THEN from = p ELSE path[Len(path)] = p

\* What a status says of the position, unless the focuser refused a move.
AtBest == {"success", "limit", "already"}
AtStart == {"inconsistent", "insufficient", "clipped"}
Settled(r, pos) ==
  ~r.refused => (r.status \in AtBest => pos = r.best) /\ (r.status \in AtStart => pos = r.start)

\* What each leg of a search knows: the best position stays in the envelope, and the last
\* positions of a path are the one that the status will be about.
Searching(r, pos) ==
  /\ r.then \in {"probe", "climb", "final", "flat"} => Near(r.best, r.start) /\ Near(pos, r.start)
  /\ r.quiet \/ r.aborting => r.then \in {"end", "restart", "finally"}
  /\ r.then = "probe" => /\ r.k \in 1 .. (IF r.mode = "artificial" THEN 4 ELSE 2)
                         /\ r.best = r.start
  /\ r.then \in {"probe", "climb"} => r.climbs < MaxSteps
  /\ r.then = "initial" => r.path = <<>> /\ r.climbs = 0
  /\ r.then = "final" => Leads(r.path, pos, r.best)
  /\ r.then = "flat" => r.best = r.start /\ Leads(r.path, pos, r.start)
  /\ r.then = "end" => /\ r.status \notin AtBest \cup {"clipped"}
                       /\ r.status \in AtStart /\ ~r.refused => Leads(r.path, pos, r.start)
  /\ r.then = "finally" => r.refused \/ (r.status = "clipped" /\ Leads(r.path, pos, r.start))

RunInv(r, pos) ==
  /\ Shaped(r) /\ Sized(r)
  /\ r.at = "search" => Searching(r, pos)
  /\ r.at \in {"decide", "finally", "done"} => Settled(r, pos)
  /\ r.at \in {"lower", "settle"} => r.attempts < MaxAttempts
  /\ r.at \in {"precheck", "lower", "settle"} => /\ r.path = <<>> /\ r.climbs = 0
                                                 /\ r.then \in {"initial", "again"}
                                                 /\ ~r.quiet /\ ~r.aborting
  /\ r.at = "precheck" => r.then = "initial"
  /\ r.moving => r.at = "search" /\ r.path # <<>>

\* The panel's buttons are never enabled beside a run, and no jog moves beside one.
FocusPanelInv ==
  /\ connected \in BOOLEAN /\ inFlight \in BOOLEAN /\ seenBusy \in BOOLEAN /\ enabled \in BOOLEAN
  /\ afRunning \in BOOLEAN /\ afCancel \in BOOLEAN /\ aePaused \in BOOLEAN
  /\ jog \in {"idle", "moving"} /\ position \in 0 .. Limit /\ moved \in -1 .. 1
  /\ enabled \/ jog = "moving" => ~afRunning
  /\ enabled => jog = "idle"
  /\ afRunning <=> w.at # "idle"

\* A run that has lowered the exposure queues it back before it is done.
ExposureInv ==
  /\ exposure \in 1 .. Brightest /\ queued \in Seq(1 .. Brightest)
  /\ ~w.lowered => queued = <<>> /\ exposure = Brightest
  /\ w.at = "done" => ~aePaused /\ Leads(queued, exposure, Brightest)
  /\ w.at = "idle" => ~aePaused /\ ~w.lowered

FocInv == RunInv(w, position) /\ FocusPanelInv /\ ExposureInv

\* The invariant implies the panel's and the run's properties.
LEMMA FocFacts == FocInv => Foc!FTypeOK /\ Foc!OneMover /\ Foc!LeftAsReported
<1> SUFFICES ASSUME FocInv PROVE Foc!FTypeOK /\ Foc!OneMover /\ Foc!LeftAsReported
  OBVIOUS
<1>1. w.best \in 0 .. Limit /\ w.attempts <= MaxAttempts /\ w.climbs <= MaxSteps
  BY FocusNumbers DEF FocInv, RunInv, Sized
<1>2. Foc!FTypeOK
  BY <1>1 DEF FocInv, FocusPanelInv, ExposureInv, Foc!FTypeOK
<1>3. Foc!OneMover
  BY DEF FocInv, RunInv, FocusPanelInv, Foc!OneMover
<1>4. w.at = "done" => Settled(w, position)
  BY DEF FocInv, RunInv
<1>5. ~afRunning => exposure = Brightest /\ queued = <<>> /\ ~aePaused
  BY DEF FocInv, FocusPanelInv, ExposureInv
<1>6. Foc!LeftAsReported
  BY <1>4, <1>5 DEF Settled, AtBest, AtStart, Foc!LeftAsReported
<1> QED
  BY <1>2, <1>3, <1>6

\* A worker that rests, and one that begins.
LEMMA NoRunFields ==
  /\ Shaped(Foc!NoRun) /\ Sized(Foc!NoRun)
  /\ Foc!NoRun.at = "idle" /\ ~Foc!NoRun.moving /\ ~Foc!NoRun.lowered /\ ~Foc!NoRun.quiet
  /\ ~Foc!NoRun.aborting /\ Foc!NoRun.path = <<>> /\ Foc!NoRun.climbs = 0
<1>1. /\ Foc!NoRun.at = "idle" /\ ~Foc!NoRun.moving /\ ~Foc!NoRun.lowered
      /\ Foc!NoRun.start = 0 /\ Foc!NoRun.best = 0 /\ Foc!NoRun.path = <<>>
      /\ Foc!NoRun.climbs = 0 /\ Foc!NoRun.attempts = 0 /\ Foc!NoRun.dir = 0
      /\ Foc!NoRun.step = 0 /\ ~Foc!NoRun.quiet /\ ~Foc!NoRun.aborting
  BY DEF Foc!NoRun
<1>2. Shaped(Foc!NoRun)
  BY DEF Foc!NoRun, Shaped, Fields
<1>3. <<>> \in Seq(Int)
  OBVIOUS
<1>4. 0 \in 0 .. Limit /\ 0 \in 0 .. MaxSteps /\ 0 \in 0 .. MaxAttempts
  BY FocusNumbers
<1> QED
  BY <1>1, <1>2, <1>3, <1>4 DEF Sized

\* The initial states of the panel satisfy its invariant.
LEMMA FocStarts == Foc!FInit => FocInv
<1> SUFFICES ASSUME Foc!FInit PROVE FocInv
  OBVIOUS
<1>1. /\ w = Foc!NoRun /\ position = FirstPosition /\ moved = 0 /\ jog = "idle"
      /\ exposure = Brightest /\ queued = <<>>
      /\ connected = FALSE /\ inFlight = FALSE /\ seenBusy = FALSE /\ enabled = FALSE
      /\ afRunning = FALSE /\ afCancel = FALSE /\ aePaused = FALSE
  BY DEF Foc!FInit
<1>2. RunInv(w, position)
  BY <1>1, NoRunFields DEF RunInv
<1>3. /\ connected \in BOOLEAN /\ inFlight \in BOOLEAN /\ seenBusy \in BOOLEAN
      /\ enabled \in BOOLEAN /\ afRunning \in BOOLEAN /\ afCancel \in BOOLEAN /\ aePaused \in BOOLEAN
  BY <1>1
<1>4. position \in 0 .. Limit /\ moved \in -1 .. 1 /\ exposure \in 1 .. Brightest
  BY <1>1, FocusNumbers
<1>5. queued \in Seq(1 .. Brightest)
  BY <1>1
<1>6. FocusPanelInv
  BY <1>1, <1>3, <1>4, NoRunFields DEF FocusPanelInv
<1>7. ExposureInv
  BY <1>1, <1>4, <1>5, NoRunFields DEF ExposureInv
<1> QED
  BY <1>2, <1>6, <1>7 DEF FocInv

\* A step of the worker alone: what it leaves to the panel.
LEMMA FocWorks ==
  ASSUME FocInv, UNCHANGED <<connected, inFlight, seenBusy, enabled, afRunning, jog, afCancel,
                             exposure, queued, aePaused>>,
         RunInv(w', position'), w.at # "idle", w'.at \notin {"idle", "done"}, w.lowered => w'.lowered,
         position' \in 0 .. Limit, moved' \in -1 .. 1
  PROVE  FocInv'
<1>1. FocusPanelInv'
  BY DEF FocInv, FocusPanelInv
<1>2. ExposureInv'
  BY DEF FocInv, ExposureInv
<1> QED
  BY <1>1, <1>2 DEF FocInv

\* The clamp keeps a position within the device and the envelope, and leaves one alone that is.
LEMMA Clamped ==
  ASSUME Sized(w), NEW p \in Int
  PROVE  /\ Foc!Clamp(p) \in 0 .. Limit /\ Near(Foc!Clamp(p), w.start)
         /\ p \in 0 .. Limit /\ Near(p, w.start) => Foc!Clamp(p) = p
<1>1. w.start \in 0 .. Limit /\ Envelope \in Nat /\ Limit \in Nat
  BY FocusNumbers DEF Sized
<1> QED
  BY <1>1 DEF Foc!Clamp, Foc!MinOf, Foc!MaxOf, Near

\* A step along a path still leads where the path led.
LEMMA LeadsOn ==
  ASSUME Sized(w), NEW path \in Seq(Int), path # <<>>, NEW pos, NEW p \in 0 .. Limit, Near(p, w.start),
         Leads(path, pos, p)
  PROVE  Leads(Tail(path), Foc!Clamp(Head(path)), p)
<1>1. Len(path) \in Nat /\ Len(path) > 0 /\ path[Len(path)] = p
  BY EmptySeq, LenProperties DEF Leads
<1>2. Head(path) = path[1] /\ Tail(path) \in Seq(Int) /\ Len(Tail(path)) = Len(path) - 1
      /\ \A i \in 1 .. Len(Tail(path)) : Tail(path)[i] = path[i + 1]
  BY HeadTailProperties
<1>3. Foc!Clamp(p) = p /\ p \in Int
  BY Clamped
<1>4. CASE Tail(path) = <<>>
  <2>a. Len(<<>>) = 0
    BY EmptySeq
  <2>0. Len(Tail(path)) = 0
    BY <1>4, <2>a, Zenon
  <2>b. Len(path) \in Nat /\ Len(path) - 1 = 0
    BY <1>1, <1>2, <2>0, Zenon
  <2>1. Len(path) = 1
    BY <2>b
  <2> QED
    BY <1>1, <1>2, <1>3, <1>4, <2>1 DEF Leads
<1>5. CASE Tail(path) # <<>>
  <2>1. Len(Tail(path)) \in 1 .. Len(Tail(path))
    BY <1>1, <1>2, <1>5, EmptySeq, LenProperties
  <2> QED
    BY <1>1, <1>2, <1>5, <2>1 DEF Leads
<1> QED
  BY <1>4, <1>5

\* Whatever is decided of a curve, the run is where it says.
LEMMA ConcludesSettled ==
  ASSUME NEW r, Shaped(r), Sized(r), ~r.moving, NEW status, NEW pos,
         status \in AtBest => pos = r.best, status \in AtStart => pos = r.start
  PROVE  /\ RunInv(Foc!Conclude(r, status), pos)
         /\ Foc!Conclude(r, status).at = "decide" /\ Foc!Conclude(r, status).lowered = r.lowered
<1> DEFINE s == Foc!Conclude(r, status)
<1>1. Shaped(s)
  BY Reshaped DEF Foc!Conclude, Foc!Closing
<1>2. /\ s.at = "decide" /\ s.status = status /\ s.moving = r.moving /\ s.start = r.start
      /\ s.best = r.best /\ s.path = r.path /\ s.climbs = 0 /\ s.attempts = r.attempts
      /\ s.dir = r.dir /\ s.step = 0 /\ s.refused = r.refused /\ s.lowered = r.lowered
  BY DEF Foc!Conclude, Foc!Closing, Shaped, Fields
<1> HIDE DEF s
<1>3. 0 \in 0 .. MaxSteps
  BY FocusNumbers
<1>4. Sized(s)
  BY <1>2, <1>3 DEF Sized
<1>5. Settled(s, pos)
  BY <1>2 DEF Settled
<1>6. RunInv(s, pos)
  BY <1>1, <1>2, <1>4, <1>5 DEF RunInv
<1> QED
  BY <1>2, <1>6 DEF s

\* A search that ends goes to the best position or to the start, or stays.
LEMMA SearchEnds ==
  ASSUME NEW r, Shaped(r), Sized(r), NEW s, Shaped(s), ~s.moving, s.at = "search", s.then = "end",
         s.status \notin AtBest \cup {"clipped"}, s.path \in {<<>>, <<r.best>>, <<r.start>>},
         s.status \in AtStart => s.path = <<r.start>> \/ s.refused,
         s.start = r.start, s.best = r.best, s.climbs = 0, s.attempts = r.attempts, s.dir = r.dir,
         s.step = 0, NEW pos
  PROVE  RunInv(s, pos)
<1>1. 0 \in 0 .. MaxSteps /\ r.start \in Int /\ r.best \in Int
  BY FocusNumbers DEF Sized
<1>2. s.path \in Seq(Int)
  <2>1. <<>> \in Seq(Int) /\ <<r.best>> \in Seq(Int) /\ <<r.start>> \in Seq(Int)
    BY <1>1
  <2> QED
    BY <2>1
<1>3. Sized(s)
  BY <1>1, <1>2 DEF Sized
<1>4. Leads(<<r.start>>, pos, r.start)
  BY DEF Leads
<1>5. Searching(s, pos)
  BY <1>4 DEF Searching
<1> QED
  BY <1>3, <1>5 DEF RunInv

\* A leg of the search that goes on.
LEMMA LegGoes ==
  ASSUME NEW r, Shaped(r), Sized(r), NEW s, Shaped(s), s.at = "search", ~s.moving,
         s.path \in Seq(Int), s.start = r.start, s.best = r.best, s.climbs = r.climbs,
         s.attempts = r.attempts, s.dir = r.dir, s.step = r.step, NEW pos, Searching(s, pos)
  PROVE  RunInv(s, pos)
<1>1. Sized(s)
  BY DEF Sized
<1> QED
  BY <1>1 DEF RunInv

\* The probes are two or four, and numbers.
LEMMA ProbeSteps ==
  /\ Len(Foc!Probes) = IF w.mode = "artificial" THEN 4 ELSE 2
  /\ \A n \in 1 .. Len(Foc!Probes) : Foc!Probes[n] \in Int
<1>1. CoarseStep \in Int /\ -CoarseStep \in Int /\ FineStep \in Int /\ -FineStep \in Int
  BY FocusNumbers
<1>2. CASE w.mode = "artificial"
  <2> DEFINE a == <<CoarseStep, -CoarseStep>>
  <2> DEFINE b == <<FineStep, -FineStep>>
  <2>1. a \in Seq(Int) /\ b \in Seq(Int) /\ Len(a) = 2 /\ Len(b) = 2
    BY <1>1
  <2>2. Foc!Probes = a \o b
    BY <1>2 DEF Foc!Probes
  <2> HIDE DEF a, b
  <2>3. a \o b \in Seq(Int) /\ Len(a \o b) = Len(a) + Len(b)
    BY <2>1, ConcatProperties, Zenon
  <2>4. Len(a \o b) = 4
    BY <2>1, <2>3
  <2> QED
    BY <1>2, <2>2, <2>3, <2>4, ElementOfSeq
<1>3. CASE w.mode # "artificial"
  <2>1. Foc!Probes = <<CoarseStep, -CoarseStep>>
    BY <1>3 DEF Foc!Probes
  <2> QED
    BY <1>1, <1>3, <2>1
<1> QED
  BY <1>2, <1>3

\* The next probe, or back to the start for a last look.
LEMMA ProbesOn ==
  ASSUME NEW r, Shaped(r), Sized(r), r.at = "search", ~r.moving, ~r.quiet, ~r.aborting,
         r.mode = w.mode, r.best = r.start,
         r.climbs < MaxSteps, NEW pos, Near(pos, r.start), NEW n \in Nat \ {0}
  PROVE  /\ RunInv(Foc!Probe(r, n), pos)
         /\ Foc!Probe(r, n).at = "search" /\ Foc!Probe(r, n).lowered = r.lowered
<1> DEFINE s == Foc!Probe(r, n)
<1>1. Near(r.start, r.start) /\ r.start \in Int
  BY SMTT(30), FocusNumbers DEF Sized, Near
<1>2. CASE n > Len(Foc!Probes)
  <2>1. s = Foc!Go(r, <<r.start>>, "flat")
    BY <1>2 DEF Foc!Probe
  <2>2. Shaped(s)
    BY <2>1, Reshaped, StepShaped
  <2>3. /\ s.at = "search" /\ s.moving = r.moving /\ s.path = <<r.start>> /\ s.start = r.start
        /\ s.best = r.best /\ s.climbs = r.climbs /\ s.attempts = r.attempts /\ s.dir = r.dir
        /\ s.step = r.step /\ s.then = "flat" /\ s.lowered = r.lowered
        /\ s.quiet = r.quiet /\ s.aborting = r.aborting
    BY <2>1 DEF Foc!Go, Shaped, Fields
  <2> HIDE DEF s
  <2>4. Leads(s.path, pos, s.start) /\ s.path \in Seq(Int)
    BY <1>1, <2>3 DEF Leads
  <2>5. Searching(s, pos)
    BY <1>1, <2>3, <2>4 DEF Searching
  <2> QED
    BY <2>2, <2>3, <2>4, <2>5, LegGoes DEF s
<1>3. CASE n <= Len(Foc!Probes)
  <2>0. n \in 1 .. Len(Foc!Probes) /\ n \in 1 .. (IF r.mode = "artificial" THEN 4 ELSE 2)
        /\ Foc!Probes[n] \in Int
    BY <1>3, ProbeSteps
  <2>1. s = [Foc!Go(r, <<r.start + Foc!Probes[n]>>, "probe") EXCEPT !.k = n]
    BY <2>0, ProbeSteps DEF Foc!Probe
  <2>2. Shaped(s)
    <3> DEFINE g == Foc!Go(r, <<r.start + Foc!Probes[n]>>, "probe")
    <3>1. Shaped(g)
      BY StepShaped
    <3>2. s = [g EXCEPT !.k = n]
      BY <2>1
    <3> HIDE DEF g, s
    <3> QED
      BY <3>1, <3>2, Reshaped
  <2>3. /\ s.at = "search" /\ s.moving = r.moving /\ s.path = <<r.start + Foc!Probes[n]>>
        /\ s.start = r.start /\ s.mode = r.mode /\ s.k = n
        /\ s.best = r.best /\ s.climbs = r.climbs /\ s.attempts = r.attempts /\ s.dir = r.dir
        /\ s.step = r.step /\ s.then = "probe" /\ s.lowered = r.lowered
        /\ s.quiet = r.quiet /\ s.aborting = r.aborting
    BY <2>1 DEF Foc!Go, Shaped, Fields
  <2> HIDE DEF s
  <2>4. r.start + Foc!Probes[n] \in Int
    BY <1>1, <2>0
  <2>5. s.path \in Seq(Int)
    BY <2>3, <2>4
  <2>6. Searching(s, pos)
    BY <1>1, <2>0, <2>3 DEF Searching
  <2> QED
    BY <2>2, <2>3, <2>5, <2>6, LegGoes DEF s
<1>4. Len(Foc!Probes) \in Int
  BY ProbeSteps
<1> QED
  BY <1>2, <1>3, <1>4

\* The next step of the climb, or back to the best position.
LEMMA Climbs ==
  ASSUME NEW r, Shaped(r), Sized(r), r.at = "search", ~r.moving, ~r.quiet, ~r.aborting,
         r.climbs < MaxSteps,
         Near(r.best, r.start), position \in 0 .. Limit, Near(position, r.start)
  PROVE  /\ RunInv(Foc!Climb(r), position)
         /\ Foc!Climb(r).at = "search" /\ Foc!Climb(r).lowered = r.lowered
<1> DEFINE s == Foc!Climb(r)
<1>1. CASE afCancel
  <2>1. s = [Foc!Go(Foc!Closing(r), <<r.best>>, "end") EXCEPT !.status = "cancelled", !.aborting = TRUE]
    BY <1>1 DEF Foc!Climb
  <2>2. Shaped(s)
    <3> DEFINE c == Foc!Closing(r)
    <3> DEFINE g == Foc!Go(c, <<r.best>>, "end")
    <3>1. s = [g EXCEPT !.status = "cancelled", !.aborting = TRUE]
      BY <2>1
    <3>2. Shaped(c)
      BY StepShaped
    <3> HIDE DEF c
    <3>3. Shaped(g)
      BY <3>2, StepShaped
    <3> HIDE DEF g, s
    <3> QED
      BY <3>1, <3>3, Reshaped
  <2>3. /\ s.at = "search" /\ s.moving = r.moving /\ s.path = <<r.best>> /\ s.start = r.start
        /\ s.best = r.best /\ s.climbs = 0 /\ s.attempts = r.attempts /\ s.dir = r.dir
        /\ s.step = 0 /\ s.then = "end" /\ s.status = "cancelled" /\ s.lowered = r.lowered
    BY ZenonT(60), <2>1 DEF Foc!Go, Foc!Closing, Shaped, Fields
  <2> HIDE DEF s
  <2>4. RunInv(s, position)
    BY <2>2, <2>3, SearchEnds DEF AtBest, AtStart
  <2> QED
    BY <2>3, <2>4 DEF s
<1>2. CASE ~afCancel
  <2>1. s = Foc!Go(r, <<position + r.dir * r.step>>, "climb")
    BY <1>2 DEF Foc!Climb
  <2>2. Shaped(s)
    BY <2>1, Reshaped, StepShaped
  <2>3. /\ s.at = "search" /\ s.moving = r.moving /\ s.path = <<position + r.dir * r.step>>
        /\ s.start = r.start
        /\ s.best = r.best /\ s.climbs = r.climbs /\ s.attempts = r.attempts /\ s.dir = r.dir
        /\ s.step = r.step /\ s.then = "climb" /\ s.lowered = r.lowered
        /\ s.quiet = r.quiet /\ s.aborting = r.aborting
    BY <2>1 DEF Foc!Go, Shaped, Fields
  <2> HIDE DEF s
  <2>4. position + r.dir * r.step \in Int
    <3>1. position \in Int /\ r.dir \in Int /\ r.step \in Int
      BY DEF Sized
    <3> QED
      BY <3>1
  <2>5. s.path \in Seq(Int)
    BY <2>3, <2>4
  <2>6. Searching(s, position)
    BY <2>3 DEF Searching
  <2> QED
    BY <2>2, <2>3, <2>5, <2>6, LegGoes DEF s
<1> QED
  BY <1>1, <1>2

\* Into the best position, from the final side.
LEMMA Approaches ==
  ASSUME NEW r, Shaped(r), Sized(r), r.at = "search", ~r.moving, ~r.quiet, ~r.aborting,
         Near(r.best, r.start),
         NEW pos, Near(pos, r.start)
  PROVE  /\ RunInv(Foc!Approach(r), pos)
         /\ Foc!Approach(r).at = "search" /\ Foc!Approach(r).lowered = r.lowered
<1> DEFINE s == Foc!Approach(r)
<1> DEFINE path == <<r.best>> \o (IF r.dir # Foc!FinalDir THEN <<r.best - Foc!FinalDir * FineStep, r.best>>
                                  ELSE <<>>)
<1>1. Shaped(s)
  BY StepShaped DEF Foc!Approach
<1>2. /\ s.at = "search" /\ s.moving = r.moving /\ s.path = path /\ s.start = r.start
      /\ s.best = r.best /\ s.climbs = r.climbs /\ s.attempts = r.attempts /\ s.dir = r.dir
      /\ s.step = r.step /\ s.then = "final" /\ s.lowered = r.lowered
      /\ s.quiet = r.quiet /\ s.aborting = r.aborting
  BY DEF Foc!Approach, Foc!Go, Shaped, Fields
<1> HIDE DEF s
<1>3. r.best \in Int /\ r.best - Foc!FinalDir * FineStep \in Int
  BY FocusNumbers DEF Sized, Foc!FinalDir
<1>4. path \in Seq(Int) /\ Leads(path, pos, r.best)
  <2>1. CASE r.dir # Foc!FinalDir
    <3> DEFINE a == <<r.best>>
    <3> DEFINE b == <<r.best - Foc!FinalDir * FineStep, r.best>>
    <3>1. a \in Seq(Int) /\ b \in Seq(Int) /\ Len(a) = 1 /\ Len(b) = 2 /\ b[2] = r.best
      BY <1>3
    <3>2. path = a \o b
      BY <2>1
    <3> HIDE DEF a, b, path
    <3>a. /\ a \o b \in Seq(Int) /\ Len(a \o b) = Len(a) + Len(b)
          /\ \A i \in 1 .. Len(a) + Len(b) :
               (a \o b)[i] = IF i <= Len(a) THEN a[i] ELSE b[i - Len(a)]
      BY <3>1, ConcatProperties, Zenon
    <3>3. /\ a \o b \in Seq(Int) /\ Len(a \o b) = 3 /\ (a \o b)[3] = b[2]
      BY <3>1, <3>a
    <3>4. path[3] = b[2] /\ Len(path) = 3
      BY <3>2, <3>3
    <3>5. path # <<>>
      BY <3>4, EmptySeq
    <3> QED
      BY <3>1, <3>2, <3>3, <3>4, <3>5 DEF Leads
  <2>2. CASE r.dir = Foc!FinalDir
    <3>1. path = <<r.best>>
      BY <2>2
    <3> HIDE DEF path
    <3> QED
      BY <1>3, <3>1 DEF Leads
  <2> QED
    BY <2>1, <2>2
<1> HIDE DEF path
<1>5. Searching(s, pos)
  BY <1>2, <1>4 DEF Searching
<1> QED
  BY <1>1, <1>2, <1>4, <1>5, LegGoes DEF s

\* A run that goes on where it is, to its next leg.
Onward(r, pos) ==
  RunInv(r, pos) /\ r.at \in {"search", "decide"} /\ (w.lowered => r.lowered)

\* A failed search goes back to its best position.
LEMMA Aborts ==
  ASSUME NEW status, status \notin AtBest \cup AtStart, Shaped(w), Sized(w), w.at = "search", NEW pos
  PROVE  /\ ~w.moving => Onward(Foc!Abort(status), pos)
         /\ Onward([Foc!Abort(status) EXCEPT !.moving = FALSE], pos)
<1> DEFINE a == Foc!Abort(status)
<1> DEFINE b == [a EXCEPT !.moving = FALSE]
<1>1. Shaped(a)
  <2> DEFINE c == Foc!Closing(w)
  <2> DEFINE g == Foc!Go(c, <<w.best>>, "end")
  <2>1. a = [g EXCEPT !.status = status, !.aborting = TRUE]
    BY DEF Foc!Abort
  <2>2. Shaped(c)
    BY StepShaped
  <2> HIDE DEF c
  <2>3. Shaped(g)
    BY <2>2, StepShaped
  <2> HIDE DEF g, a
  <2> QED
    BY <2>1, <2>3, Reshaped
<1>2. /\ a.at = w.at /\ a.moving = w.moving /\ a.path = <<w.best>> /\ a.start = w.start
      /\ a.best = w.best /\ a.climbs = 0 /\ a.attempts = w.attempts /\ a.dir = w.dir
      /\ a.step = 0 /\ a.then = "end" /\ a.status = status /\ a.lowered = w.lowered
  BY DEF Foc!Abort, Foc!Go, Foc!Closing, Shaped, Fields
<1> HIDE DEF a
<1>3. Shaped(b)
  BY <1>1, Reshaped
<1>4. /\ b.at = a.at /\ b.moving = FALSE /\ b.path = a.path /\ b.start = a.start
      /\ b.best = a.best /\ b.climbs = a.climbs /\ b.attempts = a.attempts /\ b.dir = a.dir
      /\ b.step = a.step /\ b.then = a.then /\ b.status = a.status /\ b.lowered = a.lowered
  BY <1>1 DEF Shaped, Fields
<1> HIDE DEF b
<1>5. RunInv(b, pos)
  BY <1>2, <1>3, <1>4, SearchEnds DEF AtBest, AtStart
<1>6. ~w.moving => RunInv(a, pos)
  BY <1>1, <1>2, SearchEnds DEF AtBest, AtStart
<1> QED
  BY <1>2, <1>4, <1>5, <1>6 DEF Onward, a, b

\* The validation at the best position.
LEMMA Validates ==
  ASSUME NEW r, Shaped(r), Sized(r), r.at = "search", ~r.moving, w.lowered => r.lowered, NEW v,
         NEW pos, pos = r.best
  PROVE  Onward(Foc!Validated(r, v), pos)
<1>1. ASSUME NEW status \in {"inconsistent", "insufficient"}
      PROVE  Onward([Foc!Go(Foc!Closing(r), <<r.start>>, "end") EXCEPT !.status = status], pos)
  <2> DEFINE c == Foc!Closing(r)
  <2> DEFINE g == Foc!Go(c, <<r.start>>, "end")
  <2> DEFINE s == [g EXCEPT !.status = status]
  <2>1. /\ s.at = r.at /\ s.moving = r.moving /\ s.path = <<r.start>> /\ s.start = r.start
        /\ s.best = r.best /\ s.climbs = 0 /\ s.attempts = r.attempts /\ s.dir = r.dir
        /\ s.step = 0 /\ s.then = "end" /\ s.status = status /\ s.lowered = r.lowered
    BY DEF Foc!Go, Foc!Closing, Shaped, Fields
  <2>2. Shaped(c)
    BY StepShaped
  <2> HIDE DEF c
  <2>3. Shaped(g)
    BY <2>2, StepShaped
  <2> HIDE DEF g
  <2>4. Shaped(s)
    BY <2>3, Reshaped
  <2> HIDE DEF s
  <2>5. RunInv(s, pos)
    BY <2>1, <2>4, SearchEnds DEF AtBest, AtStart
  <2> QED
    BY <2>1, <2>5 DEF Onward, s, g, c
<1>2. ASSUME NEW status \in {"limit", "success"} PROVE Onward(Foc!Conclude(r, status), pos)
  BY ConcludesSettled DEF Onward, AtBest, AtStart
<1> QED
  BY <1>1, <1>2 DEF Foc!Validated

\* The last look at the start.
LEMMA FlatEnds ==
  ASSUME NEW r, Shaped(r), Sized(r), ~r.moving, w.lowered => r.lowered, NEW v,
         NEW pos, pos = r.start, r.best = r.start
  PROVE  Onward(Foc!FlatSampled(r, v), pos)
<1>1. ASSUME NEW status \in {"success", "insufficient", "inconsistent", "already"}
      PROVE  Onward(Foc!Conclude(r, status), pos)
  BY ConcludesSettled DEF Onward, AtBest, AtStart
<1> QED
  BY <1>1 DEF Foc!FlatSampled

\* A probe's sample, and one of the climb.
LEMMA ProbeEnds ==
  ASSUME NEW r, Shaped(r), Sized(r), r.at = "search", ~r.moving, ~r.quiet, ~r.aborting,
         w.lowered => r.lowered, NEW v,
         r.mode = w.mode, r.k \in 1 .. Len(Foc!Probes), r.best = r.start, r.climbs < MaxSteps,
         position \in 0 .. Limit, Near(position, r.start)
  PROVE  Onward(Foc!Probed(r, v), position)
<1>1. CASE Foc!Better(v, r.bestV)
  <2> DEFINE big == Foc!MaxOf(Foc!Probes[r.k], -Foc!Probes[r.k])
  <2> DEFINE sign == Foc!Sign(Foc!Probes[r.k])
  <2> DEFINE s == [r EXCEPT !.best = position, !.bestV = v, !.k = 0, !.step = big, !.dir = sign]
  <2>1. Foc!Probed(r, v) = Foc!Climb(s)
    BY <1>1 DEF Foc!Probed
  <2>2. big \in Int /\ sign \in Int
    <3>1. Foc!Probes[r.k] \in Int
      BY ProbeSteps
    <3> QED
      BY <3>1 DEF Foc!MaxOf, Foc!Sign
  <2> HIDE DEF big, sign
  <2>3. Shaped(s)
    BY Reshaped
  <2>4. /\ s.at = r.at /\ s.moving = r.moving /\ s.path = r.path /\ s.start = r.start
        /\ s.best = position /\ s.climbs = r.climbs /\ s.attempts = r.attempts /\ s.dir = sign
        /\ s.step = big /\ s.lowered = r.lowered /\ s.quiet = r.quiet /\ s.aborting = r.aborting
    BY DEF Shaped, Fields
  <2> HIDE DEF s
  <2>5. Sized(s)
    BY <2>2, <2>4 DEF Sized
  <2>6. RunInv(Foc!Climb(s), position) /\ Foc!Climb(s).at = "search"
        /\ Foc!Climb(s).lowered = s.lowered
    BY <2>3, <2>4, <2>5, Climbs
  <2> QED
    BY <2>1, <2>4, <2>6 DEF Onward
<1>2. CASE ~Foc!Better(v, r.bestV)
  <2>1. Foc!Probed(r, v) = Foc!Probe(r, r.k + 1)
    BY <1>2 DEF Foc!Probed
  <2>2. r.k + 1 \in Nat \ {0}
    OBVIOUS
  <2>3. RunInv(Foc!Probe(r, r.k + 1), position) /\ Foc!Probe(r, r.k + 1).at = "search"
        /\ Foc!Probe(r, r.k + 1).lowered = r.lowered
    BY <2>2, ProbesOn
  <2> QED
    BY <2>1, <2>3 DEF Onward
<1> QED
  BY <1>1, <1>2

\* A sample of the climb.
LEMMA ClimbEnds ==
  ASSUME NEW r, Shaped(r), Sized(r), r.at = "search", ~r.moving, ~r.quiet, ~r.aborting,
         w.lowered => r.lowered, NEW v,
         r.climbs < MaxSteps, Near(r.best, r.start), position \in 0 .. Limit, Near(position, r.start)
  PROVE  Onward(Foc!Climbed(r, v), position)
<1> DEFINE s == IF Foc!Better(v, r.bestV)
                THEN [r EXCEPT !.best = position, !.bestV = v, !.misses = 0, !.climbs = @ + 1]
                ELSE [r EXCEPT !.misses = @ + 1, !.climbs = @ + 1]
<1>1. Shaped(s)
  BY Reshaped
<1>2. /\ s.at = r.at /\ s.moving = r.moving /\ s.path = r.path /\ s.start = r.start
      /\ s.best \in {position, r.best} /\ s.climbs = r.climbs + 1 /\ s.attempts = r.attempts
      /\ s.dir = r.dir /\ s.step = r.step /\ s.lowered = r.lowered
      /\ s.quiet = r.quiet /\ s.aborting = r.aborting
  BY DEF Shaped, Fields
<1>3. Foc!Climbed(r, v) = IF s.misses >= MaxNoImprove \/ s.climbs >= MaxSteps THEN Foc!Approach(s)
                          ELSE Foc!Climb(s)
  BY DEF Foc!Climbed
<1> HIDE DEF s
<1>4. s.climbs \in 0 .. MaxSteps
  BY SMTT(30), <1>2, FocusNumbers DEF Sized
<1>5. Sized(s) /\ Near(s.best, s.start) /\ Near(position, s.start)
  BY <1>2, <1>4 DEF Sized
<1>6. CASE s.misses >= MaxNoImprove \/ s.climbs >= MaxSteps
  <2>1. RunInv(Foc!Approach(s), position) /\ Foc!Approach(s).at = "search"
        /\ Foc!Approach(s).lowered = s.lowered
    BY <1>1, <1>2, <1>5, Approaches
  <2> QED
    BY <1>2, <1>3, <1>6, <2>1 DEF Onward
<1>7. CASE ~(s.misses >= MaxNoImprove \/ s.climbs >= MaxSteps)
  <2>1. s.climbs < MaxSteps
    BY <1>4, <1>7, FocusNumbers
  <2>2. RunInv(Foc!Climb(s), position) /\ Foc!Climb(s).at = "search"
        /\ Foc!Climb(s).lowered = s.lowered
    BY <1>1, <1>2, <1>5, <2>1, Climbs
  <2> QED
    BY <1>2, <1>3, <1>7, <2>2 DEF Onward
<1> QED
  BY <1>6, <1>7

\* A frame is measured.
LEMMA FocMeasures ==
  ASSUME FocInv, Foc!Measure
  PROVE  Onward(w', position) /\ w.at = "search"
<1>0. /\ Shaped(w) /\ Sized(w) /\ w.at = "search" /\ w.path = <<>> /\ ~w.moving
      /\ Searching(w, position) /\ position \in 0 .. Limit /\ ~w.quiet /\ ~w.aborting
  BY DEF FocInv, RunInv, FocusPanelInv, Foc!Measure, Searching
<1>1. PICK v \in Foc!Values \cup {Foc!None, Foc!Invalid}, saturated \in BOOLEAN :
        LET r == [w EXCEPT !.sampled = TRUE, !.saturated = @ \/ saturated]
        IN  w' = CASE w.then = "initial" /\ v <= 0 ->
                        Foc!Conclude([r EXCEPT !.start = position], "no_evidence")
                   [] w.then = "initial" /\ v > 0 ->
                        Foc!Probe([r EXCEPT !.start = position, !.startV = v,
                                            !.best = position, !.bestV = v], 1)
                   [] w.then \in {"probe", "climb"} /\ v = Foc!None -> Foc!Abort("no_frame")
                   [] w.then = "probe" /\ v # Foc!None -> Foc!Probed(r, v)
                   [] w.then = "climb" /\ v # Foc!None -> Foc!Climbed(r, v)
                   [] w.then = "final" -> Foc!Validated(r, v)
                   [] w.then = "flat" -> Foc!FlatSampled(r, v)
  BY DEF Foc!Measure
<1> DEFINE r == [w EXCEPT !.sampled = TRUE, !.saturated = @ \/ saturated]
<1>2. Shaped(r)
  BY <1>0, Reshaped
<1>3. /\ r.at = w.at /\ r.moving = w.moving /\ r.path = w.path /\ r.start = w.start
      /\ r.best = w.best /\ r.climbs = w.climbs /\ r.attempts = w.attempts /\ r.dir = w.dir
      /\ r.step = w.step /\ r.lowered = w.lowered /\ r.mode = w.mode /\ r.k = w.k
      /\ r.quiet = w.quiet /\ r.aborting = w.aborting
  BY <1>0 DEF Shaped, Fields
<1>4. /\ w.then \in {"initial", "probe", "climb", "final", "flat"} /\ v \in Int
  BY DEF Foc!Measure, Foc!Values, Foc!None, Foc!Invalid
<1>5. \/ w.then = "initial" /\ v <= 0 /\ w' = Foc!Conclude([r EXCEPT !.start = position], "no_evidence")
      \/ w.then = "initial" /\ v > 0
         /\ w' = Foc!Probe([r EXCEPT !.start = position, !.startV = v, !.best = position,
                                     !.bestV = v], 1)
      \/ w' = Foc!Abort("no_frame")
      \/ w.then = "probe" /\ w' = Foc!Probed(r, v)
      \/ w.then = "climb" /\ w' = Foc!Climbed(r, v)
      \/ w.then = "final" /\ w' = Foc!Validated(r, v)
      \/ w.then = "flat" /\ w' = Foc!FlatSampled(r, v)
  BY <1>1, <1>4
<1> HIDE DEF r
<1>6. Sized(r)
  BY <1>0, <1>3 DEF Sized
<1>7. CASE w.then = "initial" /\ w' = Foc!Conclude([r EXCEPT !.start = position], "no_evidence")
  <2> DEFINE s == [r EXCEPT !.start = position]
  <2>1. Shaped(s)
    BY <1>2, Reshaped
  <2>2. /\ s.moving = r.moving /\ s.path = r.path /\ s.start = position /\ s.best = r.best
        /\ s.climbs = r.climbs /\ s.attempts = r.attempts /\ s.dir = r.dir /\ s.step = r.step
        /\ s.lowered = r.lowered
    BY <1>2 DEF Shaped, Fields
  <2> HIDE DEF s
  <2>3. Sized(s)
    BY <1>0, <1>6, <2>2 DEF Sized
  <2>4. RunInv(Foc!Conclude(s, "no_evidence"), position) /\ Foc!Conclude(s, "no_evidence").at = "decide"
        /\ Foc!Conclude(s, "no_evidence").lowered = s.lowered
    BY <1>0, <1>3, <2>1, <2>2, <2>3, ConcludesSettled DEF AtBest, AtStart
  <2> QED
    BY <1>0, <1>3, <1>7, <2>2, <2>4 DEF Onward, s
<1>8. CASE /\ w.then = "initial"
           /\ w' = Foc!Probe([r EXCEPT !.start = position, !.startV = v, !.best = position,
                                       !.bestV = v], 1)
  <2> DEFINE s == [r EXCEPT !.start = position, !.startV = v, !.best = position, !.bestV = v]
  <2>1. Shaped(s)
    BY <1>2, Reshaped
  <2>2. /\ s.moving = r.moving /\ s.path = r.path /\ s.start = position /\ s.best = position
        /\ s.climbs = r.climbs /\ s.attempts = r.attempts /\ s.dir = r.dir /\ s.step = r.step
        /\ s.lowered = r.lowered /\ s.at = r.at /\ s.mode = r.mode
        /\ s.quiet = r.quiet /\ s.aborting = r.aborting
    BY <1>2 DEF Shaped, Fields
  <2>a. w' = Foc!Probe(s, 1)
    BY <1>8
  <2> HIDE DEF s
  <2>3. Sized(s)
    BY <1>0, <1>6, <2>2 DEF Sized
  <2>4. Near(position, position) /\ s.climbs < MaxSteps /\ 1 \in Nat \ {0}
    BY <1>0, <1>3, <1>8, <2>2, FocusNumbers DEF Near, Searching
  <2>5. RunInv(Foc!Probe(s, 1), position) /\ Foc!Probe(s, 1).at = "search"
        /\ Foc!Probe(s, 1).lowered = s.lowered
    BY <1>0, <1>3, <2>1, <2>2, <2>3, <2>4, ProbesOn
  <2> QED
    BY <1>0, <1>3, <2>a, <2>2, <2>5 DEF Onward
<1>9. CASE w' = Foc!Abort("no_frame")
  BY <1>0, <1>9, Aborts DEF AtBest, AtStart
<1>10. CASE w.then = "probe" /\ w' = Foc!Probed(r, v)
  <2>1. r.k \in 1 .. Len(Foc!Probes) /\ r.best = r.start /\ r.climbs < MaxSteps
        /\ Near(position, r.start)
    BY <1>0, <1>3, <1>10, ProbeSteps DEF Searching
  <2> QED
    BY <1>0, <1>2, <1>3, <1>6, <1>10, <2>1, ProbeEnds
<1>11. CASE w.then = "climb" /\ w' = Foc!Climbed(r, v)
  BY <1>0, <1>2, <1>3, <1>6, <1>11, ClimbEnds DEF Searching
<1>12. CASE w.then = "final" /\ w' = Foc!Validated(r, v)
  <2>1. position = r.best
    BY <1>0, <1>3, <1>12 DEF Searching, Leads
  <2> QED
    BY <1>0, <1>2, <1>3, <1>6, <1>12, <2>1, Validates
<1>13. CASE w.then = "flat" /\ w' = Foc!FlatSampled(r, v)
  <2>1. position = r.start /\ r.best = r.start
    BY SMTT(30), <1>0, <1>3, <1>13 DEF Searching, Leads
  <2> QED
    BY <1>0, <1>2, <1>3, <1>6, <1>13, <2>1, FlatEnds
<1> QED
  BY <1>0, <1>5, <1>7, <1>8, <1>9, <1>10, <1>11, <1>12, <1>13

\* What the search's steps leave alone.
LEMMA SearchLeaves ==
  ASSUME FocInv, Foc!Measure \/ Foc!MoveSkips \/ Foc!MoveStarts \/ Foc!MoveArrives
                 \/ Foc!MoveRefused \/ Foc!Precheck \/ Foc!Decide \/ Foc!Lowered \/ Foc!Returned
                 \/ Foc!Crash
  PROVE  UNCHANGED <<connected, inFlight, seenBusy, enabled, afRunning, jog, afCancel, exposure,
                     queued, aePaused>>
  BY DEF Foc!Measure, Foc!MoveSkips, Foc!MoveStarts, Foc!MoveArrives, Foc!MoveRefused,
         Foc!Precheck, Foc!Decide, Foc!Lowered, Foc!Returned, Foc!Crash, Foc!envVars,
         Foc!exposureVars, Foc!panelVars

\* A run whose first target is reached.
Advanced(s) ==
  /\ s.at = w.at /\ s.path = Tail(w.path) /\ s.start = w.start /\ s.best = w.best
  /\ s.climbs = w.climbs /\ s.attempts = w.attempts /\ s.dir = w.dir /\ s.step = w.step
  /\ s.lowered = w.lowered /\ s.mode = w.mode /\ s.k = w.k /\ s.then = w.then
  /\ s.status = w.status /\ s.refused = w.refused
  /\ s.quiet = w.quiet /\ s.aborting = w.aborting /\ ~s.moving

\* A run that drops the first move of its path changes nothing else.
LEMMA Advances ==
  ASSUME Shaped(w)
  PROVE  /\ Shaped([w EXCEPT !.moving = FALSE, !.path = Tail(@)])
         /\ Advanced([w EXCEPT !.moving = FALSE, !.path = Tail(@)])
         /\ Shaped([w EXCEPT !.path = Tail(@)])
         /\ ~w.moving => Advanced([w EXCEPT !.path = Tail(@)])
<1> DEFINE q == Tail(w.path)
<1> DEFINE a == [w EXCEPT !.moving = FALSE]
<1> DEFINE b == [a EXCEPT !.path = q]
<1> DEFINE c == [w EXCEPT !.path = q]
<1>1. b = [w EXCEPT !.moving = FALSE, !.path = Tail(@)] /\ c = [w EXCEPT !.path = Tail(@)]
  BY DEF Shaped, Fields
<1> HIDE DEF q
<1>2. /\ b.at = w.at /\ b.path = q /\ b.start = w.start /\ b.best = w.best
      /\ b.climbs = w.climbs /\ b.attempts = w.attempts /\ b.dir = w.dir /\ b.step = w.step
      /\ b.lowered = w.lowered /\ b.mode = w.mode /\ b.k = w.k /\ b.then = w.then
      /\ b.status = w.status /\ b.refused = w.refused
      /\ b.quiet = w.quiet /\ b.aborting = w.aborting /\ b.moving = FALSE
  BY DEF Shaped, Fields
<1>3. /\ c.at = w.at /\ c.path = q /\ c.start = w.start /\ c.best = w.best
      /\ c.climbs = w.climbs /\ c.attempts = w.attempts /\ c.dir = w.dir /\ c.step = w.step
      /\ c.lowered = w.lowered /\ c.mode = w.mode /\ c.k = w.k /\ c.then = w.then
      /\ c.status = w.status /\ c.refused = w.refused
      /\ c.quiet = w.quiet /\ c.aborting = w.aborting /\ c.moving = w.moving
  BY DEF Shaped, Fields
<1>4. Shaped(a) /\ Shaped(c)
  BY Reshaped
<1> HIDE DEF a
<1>5. Shaped(b)
  BY <1>4, Reshaped
<1> HIDE DEF b, c
<1>6. Advanced(b) /\ (~w.moving => Advanced(c))
  BY <1>2, <1>3 DEF Advanced, q
<1> QED
  BY <1>1, <1>4, <1>5, <1>6

\* The target at the head of the path is reached, by a move or because the focuser is there.
LEMMA TargetReached ==
  ASSUME FocInv, w.at = "search", w.path # <<>>, NEW s, Shaped(s), Advanced(s)
  PROVE  RunInv(s, Foc!Clamp(Head(w.path))) /\ s.at = "search" /\ s.lowered = w.lowered
<1> DEFINE there == Foc!Clamp(Head(w.path))
<1>0. Shaped(w) /\ Sized(w) /\ Searching(w, position) /\ w.path \in Seq(Int)
  BY DEF FocInv, RunInv, Sized
<1>1. Shaped(s)
  OBVIOUS
<1>2. /\ s.at = w.at /\ s.path = Tail(w.path) /\ s.start = w.start /\ s.best = w.best
      /\ s.climbs = w.climbs /\ s.attempts = w.attempts /\ s.dir = w.dir /\ s.step = w.step
      /\ s.lowered = w.lowered /\ s.mode = w.mode /\ s.k = w.k /\ s.then = w.then
      /\ s.status = w.status /\ s.refused = w.refused
      /\ s.quiet = w.quiet /\ s.aborting = w.aborting /\ ~s.moving
  BY DEF Advanced
<1>3. Tail(w.path) \in Seq(Int) /\ Head(w.path) \in Int
  BY <1>0, HeadTailProperties
<1>4. Near(there, w.start)
  BY <1>0, <1>3, Clamped
<1>5. w.start \in 0 .. Limit /\ w.best \in 0 .. Limit /\ Near(w.start, w.start)
  BY <1>0, FocusNumbers DEF Sized, Near
<1>6. /\ Leads(w.path, position, w.start) => Leads(s.path, there, w.start)
      /\ Leads(w.path, position, w.best) /\ Near(w.best, w.start) => Leads(s.path, there, w.best)
  BY <1>0, <1>2, <1>5, LeadsOn
<1> HIDE DEF there
<1>7. Searching(s, there)
  BY <1>0, <1>2, <1>4, <1>6 DEF Searching
<1>8. RunInv(s, there)
  BY <1>0, <1>1, <1>2, <1>3, <1>7, LegGoes
<1> QED
  BY <1>2, <1>8 DEF there

\* The moves of a search.
LEMMA FocMoves ==
  ASSUME FocInv, Foc!MoveSkips \/ Foc!MoveStarts \/ Foc!MoveArrives \/ Foc!MoveRefused
  PROVE  /\ RunInv(w', position') /\ w.at = "search" /\ w'.at = "search"
         /\ (w.lowered => w'.lowered) /\ position' \in 0 .. Limit /\ moved' \in -1 .. 1
<1>0. /\ Shaped(w) /\ Sized(w) /\ position \in 0 .. Limit /\ moved \in -1 .. 1
      /\ w.path \in Seq(Int) /\ (w.moving => w.at = "search" /\ w.path # <<>>)
      /\ (w.at = "search" => Searching(w, position))
  BY DEF FocInv, RunInv, FocusPanelInv, Sized
<1>1. CASE Foc!MoveSkips
  <2>1. /\ w.at = "search" /\ ~w.moving /\ w.path # <<>> /\ Foc!Clamp(Head(w.path)) = position
        /\ w' = [w EXCEPT !.path = Tail(@)] /\ position' = position /\ moved' = moved
    BY <1>1 DEF Foc!MoveSkips, Foc!Here, Foc!Still
  <2>2. Shaped(w') /\ Advanced(w')
    BY <1>0, <2>1, Advances
  <2> QED
    BY <1>0, <2>1, <2>2, TargetReached
<1>2. CASE Foc!MoveStarts
  <2>1. /\ w.at = "search" /\ w.path # <<>> /\ w' = [w EXCEPT !.moving = TRUE]
        /\ position' = position /\ moved' = moved
    BY <1>2 DEF Foc!MoveStarts, Foc!Still
  <2>2. Shaped(w')
    BY <1>0, <2>1, Reshaped
  <2>3. /\ w'.at = w.at /\ w'.path = w.path /\ w'.start = w.start /\ w'.best = w.best
        /\ w'.climbs = w.climbs /\ w'.attempts = w.attempts /\ w'.dir = w.dir /\ w'.step = w.step
        /\ w'.lowered = w.lowered /\ w'.mode = w.mode /\ w'.k = w.k /\ w'.then = w.then
        /\ w'.status = w.status /\ w'.refused = w.refused
        /\ w'.quiet = w.quiet /\ w'.aborting = w.aborting
    BY <1>0, <2>1 DEF Shaped, Fields
  <2>4. Searching(w', position) /\ Sized(w')
    BY <1>0, <2>1, <2>3 DEF Searching, Sized
  <2>5. RunInv(w', position)
    BY <2>1, <2>2, <2>3, <2>4 DEF RunInv
  <2> QED
    BY <1>0, <2>1, <2>3, <2>5
<1>3. CASE Foc!MoveArrives
  <2> DEFINE p == Foc!Clamp(Head(w.path))
  <2>1. /\ w.at = "search" /\ w.path # <<>> /\ position' = p
        /\ moved' = IF position' = position THEN moved ELSE Foc!Sign(position' - position)
        /\ \/ w' = [Foc!Abort("cancelled") EXCEPT !.moving = FALSE]
           \/ w' = [w EXCEPT !.moving = FALSE, !.path = Tail(@)]
    BY <1>0, <1>3 DEF Foc!MoveArrives
  <2>2. p \in 0 .. Limit
    <3>1. Head(w.path) \in Int
      BY <1>0, <2>1, HeadTailProperties
    <3> QED
      BY <1>0, <3>1, Clamped
  <2>3. moved' \in -1 .. 1
    BY <1>0, <2>1 DEF Foc!Sign
  <2>4. CASE w' = [Foc!Abort("cancelled") EXCEPT !.moving = FALSE]
    <3> HIDE DEF p
    <3>1. Onward([Foc!Abort("cancelled") EXCEPT !.moving = FALSE], p)
      BY <1>0, <2>1, Aborts DEF AtBest, AtStart
    <3>2. w'.at = "search"
      BY <1>0, <2>1, <2>4 DEF Foc!Abort, Foc!Go, Foc!Closing, Shaped, Fields
    <3> QED
      BY <2>1, <2>2, <2>3, <2>4, <3>1, <3>2 DEF Onward
  <2>5. CASE w' = [w EXCEPT !.moving = FALSE, !.path = Tail(@)]
    <3>1. Shaped(w') /\ Advanced(w')
      BY <1>0, <2>5, Advances
    <3>2. RunInv(w', p) /\ w'.at = "search" /\ w'.lowered = w.lowered
      BY <2>1, <2>5, <3>1, TargetReached
    <3> HIDE DEF p
    <3> QED
      BY <2>1, <2>2, <2>3, <3>2
  <2> QED
    BY <2>1, <2>4, <2>5
<1>4. CASE Foc!MoveRefused
  <2>1. /\ w.at = "search" /\ w.path # <<>> /\ position' = position /\ moved' = moved
        /\ \/ w' = [[w EXCEPT !.path = <<>>, !.refused = TRUE] EXCEPT !.moving = FALSE]
              /\ (w.quiet \/ w.aborting)
           \/ \E status \in {"cancelled", "rejected"} :
                w' = [Foc!Stay(status) EXCEPT !.moving = FALSE]
    BY <1>0, <1>4 DEF Foc!MoveRefused, Foc!Still
  <2>2. CASE /\ w' = [[w EXCEPT !.path = <<>>, !.refused = TRUE] EXCEPT !.moving = FALSE]
             /\ (w.quiet \/ w.aborting)
    <3>1. Shaped(w')
      <4> DEFINE a == [w EXCEPT !.path = <<>>]
      <4> DEFINE b == [a EXCEPT !.refused = TRUE]
      <4>1. w' = [b EXCEPT !.moving = FALSE]
        BY <2>2
      <4>2. Shaped(a)
        BY <1>0, Reshaped
      <4> HIDE DEF a
      <4>3. Shaped(b)
        BY <4>2, Reshaped
      <4> HIDE DEF b
      <4> QED
        BY <4>1, <4>3, Reshaped
    <3>2. /\ w'.at = w.at /\ w'.path = <<>> /\ w'.start = w.start /\ w'.best = w.best
          /\ w'.climbs = w.climbs /\ w'.attempts = w.attempts /\ w'.dir = w.dir
          /\ w'.step = w.step /\ w'.lowered = w.lowered /\ w'.then = w.then
          /\ w'.status = w.status /\ w'.refused = TRUE /\ w'.moving = FALSE
      BY <1>0, <2>2 DEF Shaped, Fields
    <3>3. w'.quiet = w.quiet /\ w'.aborting = w.aborting
      BY <1>0, <2>2 DEF Shaped, Fields
    <3>4. w.then \in {"end", "restart", "finally"}
      BY <1>0, <2>1, <2>2 DEF Searching
    <3>5. <<>> \in Seq(Int)
      OBVIOUS
    <3>6. Sized(w') /\ Searching(w', position)
      BY <1>0, <2>1, <3>2, <3>3, <3>4, <3>5 DEF Sized, Searching
    <3>7. RunInv(w', position)
      BY <2>1, <3>1, <3>2, <3>6 DEF RunInv
    <3> QED
      BY <1>0, <2>1, <3>2, <3>7
  <2>3. ASSUME NEW status \in {"cancelled", "rejected"}, w' = [Foc!Stay(status) EXCEPT !.moving = FALSE]
        PROVE  RunInv(w', position) /\ w'.at = "search" /\ (w.lowered => w'.lowered)
    <3>1. /\ w'.at = w.at /\ w'.path = <<>> /\ w'.start = w.start /\ w'.best = w.best
          /\ w'.climbs = 0 /\ w'.attempts = w.attempts /\ w'.dir = w.dir
          /\ w'.step = 0 /\ w'.lowered = w.lowered /\ w'.then = "end"
          /\ w'.status = status /\ w'.refused = TRUE /\ w'.moving = FALSE
      BY <1>0, <2>3 DEF Foc!Stay, Foc!Go, Foc!Closing, Shaped, Fields
    <3>2. Shaped(w')
      <4> DEFINE c == Foc!Closing(w)
      <4> DEFINE g == Foc!Go(c, <<>>, "end")
      <4> DEFINE s == [g EXCEPT !.status = status]
      <4> DEFINE t == [s EXCEPT !.refused = TRUE]
      <4>1. w' = [t EXCEPT !.moving = FALSE]
        BY <2>3 DEF Foc!Stay
      <4>2. Shaped(c)
        BY <1>0, StepShaped
      <4> HIDE DEF c
      <4>3. Shaped(g)
        BY <4>2, StepShaped
      <4> HIDE DEF g
      <4>4. Shaped(s)
        BY <4>3, Reshaped
      <4> HIDE DEF s
      <4>5. Shaped(t)
        BY <4>4, Reshaped
      <4> HIDE DEF t
      <4> QED
        BY <4>1, <4>5, Reshaped
    <3>3. RunInv(w', position)
      BY <1>0, <2>1, <3>1, <3>2, SearchEnds DEF AtBest, AtStart
    <3> QED
      BY <2>1, <3>1, <3>3
  <2> QED
    BY <1>0, <2>1, <2>2, <2>3
<1> QED
  BY <1>1, <1>2, <1>3, <1>4

\* The controller's steps around the searches change where the run is, its status and the way
\* back to the start.
LEMMA Replaced ==
  ASSUME FocInv, ~w.moving, NEW a, NEW s, s = [w EXCEPT !.at = a]
  PROVE  /\ Shaped(s) /\ Sized(s) /\ s.at = a /\ s.path = w.path /\ s.start = w.start
         /\ s.best = w.best /\ s.climbs = w.climbs /\ s.attempts = w.attempts
         /\ s.lowered = w.lowered /\ s.then = w.then /\ s.status = w.status
         /\ s.refused = w.refused /\ s.quiet = w.quiet /\ s.aborting = w.aborting /\ ~s.moving
<1>0. Shaped(w) /\ Sized(w)
  BY DEF FocInv, RunInv
<1>1. Shaped(s)
  BY <1>0, Reshaped
<1>2. /\ s.at = a /\ s.path = w.path /\ s.start = w.start
      /\ s.best = w.best /\ s.climbs = w.climbs /\ s.attempts = w.attempts
      /\ s.lowered = w.lowered /\ s.then = w.then /\ s.status = w.status
      /\ s.refused = w.refused /\ s.quiet = w.quiet /\ s.aborting = w.aborting
      /\ s.moving = w.moving /\ s.dir = w.dir /\ s.step = w.step
  BY <1>0 DEF Shaped, Fields
<1>3. Sized(s)
  BY <1>0, <1>2 DEF Sized
<1> QED
  BY <1>1, <1>2, <1>3

\* Back to the start, then to the end.
LEMMA GoesBack ==
  ASSUME FocInv, ~w.moving, NEW pos
  PROVE  LET s == [Foc!Go(w, <<w.start>>, "finally") EXCEPT !.at = "search", !.quiet = TRUE,
                                                            !.status = "clipped"]
         IN  RunInv(s, pos) /\ s.at = "search" /\ s.lowered = w.lowered
<1> DEFINE g == Foc!Go(w, <<w.start>>, "finally")
<1> DEFINE s == [g EXCEPT !.at = "search", !.quiet = TRUE, !.status = "clipped"]
<1>0. Shaped(w) /\ Sized(w) /\ w.start \in Int
  BY FocusNumbers DEF FocInv, RunInv, Sized
<1>1. Shaped(g)
  BY <1>0, StepShaped
<1>2. /\ g.moving = w.moving /\ g.path = <<w.start>> /\ g.start = w.start
      /\ g.best = w.best /\ g.climbs = w.climbs /\ g.attempts = w.attempts /\ g.dir = w.dir
      /\ g.step = w.step /\ g.lowered = w.lowered /\ g.then = "finally"
  BY <1>0 DEF Foc!Go, Shaped, Fields
<1> HIDE DEF g
<1>3. Shaped(s)
  BY <1>1, Reshaped
<1>4. /\ s.at = "search" /\ s.moving = g.moving /\ s.path = g.path /\ s.start = g.start
      /\ s.best = g.best /\ s.climbs = g.climbs /\ s.attempts = g.attempts /\ s.dir = g.dir
      /\ s.step = g.step /\ s.lowered = g.lowered /\ s.then = g.then /\ s.status = "clipped"
  BY <1>1 DEF Shaped, Fields
<1> HIDE DEF s
<1>5. s.path \in Seq(Int) /\ Leads(s.path, pos, s.start)
  BY <1>0, <1>2, <1>4 DEF Leads
<1>6. Sized(s)
  BY <1>0, <1>2, <1>4, <1>5 DEF Sized
<1>7. Searching(s, pos)
  BY <1>2, <1>4, <1>5 DEF Searching, AtBest
<1>8. RunInv(s, pos)
  BY <1>2, <1>3, <1>4, <1>6, <1>7 DEF RunInv
<1> QED
  BY <1>2, <1>4, <1>8 DEF s, g

\* A run that starts over.
LEMMA Restarts ==
  ASSUME FocInv, NEW s, Shaped(s), s.at = "lower" \/ s.at = "search",
         s.then = "again" \/ s.then = "initial", s.start \in 0 .. Limit, s.attempts = w.attempts,
         s.at = "lower" => w.attempts < MaxAttempts, s.moving = FALSE, s.quiet = FALSE,
         s.aborting = FALSE, s.path = <<>>, s.climbs = 0, s.best = 0, s.dir = 0, s.step = 0, NEW pos
  PROVE  RunInv(s, pos)
<1>1. w.attempts \in 0 .. MaxAttempts
  BY DEF FocInv, RunInv, Sized
<1>2. 0 \in 0 .. Limit /\ 0 \in 0 .. MaxSteps
  BY FocusNumbers
<1>3. <<>> \in Seq(Int)
  OBVIOUS
<1>4. Sized(s)
  BY <1>1, <1>2, <1>3 DEF Sized
<1>5. Searching(s, pos)
  BY DEF Searching
<1> QED
  BY <1>4, <1>5 DEF RunInv

\* The precheck: at once to the search, or the exposure is lowered.
LEMMA FocPrechecks ==
  ASSUME FocInv, Foc!Precheck
  PROVE  /\ RunInv(w', position') /\ w.at \notin {"idle", "done"} /\ w'.at \notin {"idle", "done"}
         /\ (w.lowered => w'.lowered) /\ UNCHANGED <<position, moved>>
<1>0. /\ w.at = "precheck" /\ ~w.moving /\ w.path = <<>> /\ w.climbs = 0 /\ w.then = "initial"
      /\ ~w.quiet /\ ~w.aborting /\ UNCHANGED <<position, moved>>
  BY DEF FocInv, RunInv, Foc!Precheck, Foc!Still
<1>1. PICK a \in {"search", "lower"} : /\ w' = [w EXCEPT !.at = a]
                                       /\ (a = "lower" => ~(w.attempts >= MaxAttempts))
  BY DEF Foc!Precheck
<1>2. a = "lower" => w.attempts < MaxAttempts
  <2>1. w.attempts \in Int /\ MaxAttempts \in Int
    BY FocusNumbers DEF FocInv, RunInv, Sized
  <2> QED
    BY <1>1, <2>1
<1>a. w' = [w EXCEPT !.at = a]
  BY <1>1
<1>3. /\ Shaped(w') /\ Sized(w') /\ w'.at = a /\ w'.path = w.path /\ w'.climbs = w.climbs
      /\ w'.attempts = w.attempts /\ w'.lowered = w.lowered /\ w'.then = w.then
      /\ w'.quiet = w.quiet /\ w'.aborting = w.aborting /\ ~w'.moving
  BY SMTT(30), <1>0, <1>a, Replaced
<1>4. Searching(w', position)
  BY <1>0, <1>3 DEF Searching
<1>5. RunInv(w', position)
  BY <1>0, <1>1, <1>2, <1>3, <1>4 DEF RunInv
<1> QED
  BY <1>0, <1>3, <1>5

\* After a search: it is repeated with less exposure, goes back, or is over.
LEMMA FocDecides ==
  ASSUME FocInv, Foc!Decide
  PROVE  /\ RunInv(w', position') /\ w.at \notin {"idle", "done"} /\ w'.at \notin {"idle", "done"}
         /\ (w.lowered => w'.lowered) /\ UNCHANGED <<position, moved>>
<1>0. /\ w.at \in {"decide", "search"} /\ ~w.moving /\ UNCHANGED <<position, moved>>
      /\ w.start \in 0 .. Limit /\ Settled(w, position)
  <2>1. /\ w.at = "decide" \/ (w.at = "search" /\ w.path = <<>> /\ w.then = "end")
        /\ UNCHANGED <<position, moved>>
    BY DEF Foc!Decide, Foc!Still
  <2>2. ~w.moving /\ w.start \in 0 .. Limit
    BY <2>1 DEF FocInv, RunInv, Sized
  <2>3. CASE w.at = "decide"
    BY <2>1, <2>2, <2>3 DEF FocInv, RunInv
  <2>4. CASE w.at = "search" /\ w.path = <<>> /\ w.then = "end"
    <3>1. Searching(w, position)
      BY <2>4 DEF FocInv, RunInv
    <3>2. Settled(w, position)
      BY <2>4, <3>1 DEF Searching, Settled, Leads, AtBest, AtStart
    <3> QED
      BY <2>1, <2>2, <2>4, <3>2
  <2> QED
    BY <2>1, <2>3, <2>4
<1>1. \/ /\ w' = [Foc!NoRun EXCEPT !.at = "lower", !.then = "again", !.mode = w.mode,
                    !.start = w.start, !.attempts = w.attempts, !.lowered = w.lowered,
                    !.before = w.before]
         /\ w.attempts < MaxAttempts
      \/ w' = [Foc!Go(w, <<w.start>>, "finally") EXCEPT !.at = "search", !.quiet = TRUE,
                                                        !.status = "clipped"]
      \/ w' = [w EXCEPT !.at = "finally"]
  BY DEF Foc!Decide
<1>2. CASE /\ w' = [Foc!NoRun EXCEPT !.at = "lower", !.then = "again", !.mode = w.mode,
                      !.start = w.start, !.attempts = w.attempts, !.lowered = w.lowered,
                      !.before = w.before]
           /\ w.attempts < MaxAttempts
  <2> DEFINE n == Foc!NoRun
  <2> DEFINE a == [n EXCEPT !.at = "lower", !.then = "again", !.mode = w.mode, !.start = w.start]
  <2>1. Shaped(n)
    BY NoRunFields
  <2>2. /\ w'.at = "lower" /\ w'.then = "again" /\ w'.start = w.start /\ w'.attempts = w.attempts
        /\ w'.lowered = w.lowered /\ w'.moving = FALSE /\ w'.quiet = FALSE /\ w'.aborting = FALSE
        /\ w'.path = <<>> /\ w'.climbs = 0 /\ w'.best = 0 /\ w'.dir = 0 /\ w'.step = 0
    BY <1>2 DEF Foc!NoRun
  <2>3. w' = [a EXCEPT !.attempts = w.attempts, !.lowered = w.lowered, !.before = w.before]
    BY <1>2
  <2> HIDE DEF n
  <2>4. Shaped(a)
    BY <2>1, Reshaped
  <2> HIDE DEF a
  <2>5. Shaped(w')
    BY <2>3, <2>4, Reshaped
  <2>6. RunInv(w', position)
    BY <1>0, <1>2, <2>2, <2>5, Restarts
  <2> QED
    BY <1>0, <2>2, <2>6
<1>3. CASE w' = [Foc!Go(w, <<w.start>>, "finally") EXCEPT !.at = "search", !.quiet = TRUE,
                                                          !.status = "clipped"]
  BY <1>0, <1>3, GoesBack
<1>4. CASE w' = [w EXCEPT !.at = "finally"]
  <2>1. /\ Shaped(w') /\ Sized(w') /\ w'.at = "finally" /\ w'.start = w.start
        /\ w'.best = w.best /\ w'.lowered = w.lowered /\ w'.status = w.status
        /\ w'.refused = w.refused /\ ~w'.moving
    BY <1>0, <1>4, Replaced
  <2>2. Settled(w', position)
    BY <1>0, <2>1 DEF Settled
  <2>3. RunInv(w', position)
    BY <2>1, <2>2 DEF RunInv
  <2> QED
    BY <1>0, <2>1, <2>3
<1> QED
  BY <1>1, <1>2, <1>3, <1>4

\* A run that ends with a status that says nothing of the position.
LEMMA FocGivesUp ==
  ASSUME FocInv, NEW status, status \notin AtBest \cup AtStart, NEW s, Shaped(s), s.at = "finally",
         s.status = status, s.start = w.start, s.best = w.best, s.climbs = w.climbs,
         s.attempts = w.attempts, s.dir = w.dir, s.step = w.step, s.path \in {w.path, <<>>}, ~s.moving
  PROVE  RunInv(s, position)
<1>1. Sized(w)
  BY DEF FocInv, RunInv
<1>2. <<>> \in Seq(Int)
  OBVIOUS
<1>3. Sized(s)
  BY <1>1, <1>2 DEF Sized
<1>4. Settled(s, position)
  BY DEF Settled
<1> QED
  BY <1>3, <1>4 DEF RunInv

\* After the settle time.
LEMMA FocSettles ==
  ASSUME FocInv, Foc!Lowered
  PROVE  /\ RunInv(w', position') /\ w.at \notin {"idle", "done"} /\ w'.at \notin {"idle", "done"}
         /\ (w.lowered => w'.lowered) /\ UNCHANGED <<position, moved>>
<1>0. /\ w.at = "settle" /\ ~w.moving /\ w.path = <<>> /\ w.climbs = 0 /\ ~w.quiet /\ ~w.aborting
      /\ w.then \in {"initial", "again"} /\ UNCHANGED <<position, moved>> /\ Shaped(w) /\ Sized(w)
      /\ w.attempts + 1 \in 0 .. MaxAttempts /\ w.start \in Int
  <2>1. w.at = "settle" /\ UNCHANGED <<position, moved>>
    BY DEF Foc!Lowered, Foc!Still
  <2>2. Sized(w) /\ Shaped(w) /\ w.attempts < MaxAttempts
    BY <2>1 DEF FocInv, RunInv
  <2>3. w.attempts + 1 \in 0 .. MaxAttempts /\ w.start \in Int
    BY <2>2, FocusNumbers DEF Sized
  <2> QED
    BY <2>1, <2>2, <2>3 DEF FocInv, RunInv
<1>1. \/ w' = [Foc!Go(w, <<w.start>>, "restart") EXCEPT !.at = "search", !.quiet = TRUE,
                                                        !.attempts = @ + 1]
      \/ w.then # "again" /\ w' = [w EXCEPT !.at = "precheck", !.attempts = @ + 1]
      \/ w.then # "again" /\ w' = [w EXCEPT !.at = "search"]
      \/ \E status \in {"cancelled", "no_evidence"} :
           w' = [w EXCEPT !.at = "finally", !.status = status]
      \/ w' = [Foc!Go(w, <<w.start>>, "finally") EXCEPT !.at = "search", !.quiet = TRUE,
                                                        !.status = "clipped"]
  BY DEF Foc!Lowered
<1>2. CASE w' = [Foc!Go(w, <<w.start>>, "restart") EXCEPT !.at = "search", !.quiet = TRUE,
                                                          !.attempts = @ + 1]
  <2> DEFINE g == Foc!Go(w, <<w.start>>, "restart")
  <2>1. Shaped(g)
    BY <1>0, StepShaped
  <2>2. /\ g.moving = w.moving /\ g.path = <<w.start>> /\ g.start = w.start
        /\ g.best = w.best /\ g.climbs = w.climbs /\ g.attempts = w.attempts /\ g.dir = w.dir
        /\ g.step = w.step /\ g.lowered = w.lowered /\ g.then = "restart"
    BY <1>0 DEF Foc!Go, Shaped, Fields
  <2>3. w' = [g EXCEPT !.at = "search", !.quiet = TRUE, !.attempts = @ + 1]
    BY <1>2
  <2> HIDE DEF g
  <2>4. Shaped(w')
    BY <2>1, <2>3, Reshaped
  <2>5. /\ w'.at = "search" /\ w'.moving = g.moving /\ w'.path = g.path /\ w'.start = g.start
        /\ w'.best = g.best /\ w'.climbs = g.climbs /\ w'.attempts = g.attempts + 1
        /\ w'.dir = g.dir /\ w'.step = g.step /\ w'.lowered = g.lowered /\ w'.then = g.then
    BY <2>1, <2>3 DEF Shaped, Fields
  <2>6. w'.path \in Seq(Int)
    BY <1>0, <2>2, <2>5
  <2>7. Sized(w') /\ Searching(w', position)
    BY <1>0, <2>2, <2>5, <2>6 DEF Sized, Searching
  <2>8. RunInv(w', position)
    BY <1>0, <2>2, <2>4, <2>5, <2>7 DEF RunInv
  <2> QED
    BY <1>0, <2>2, <2>5, <2>8
<1>3. CASE w.then # "again" /\ w' = [w EXCEPT !.at = "precheck", !.attempts = @ + 1]
  <2>1. Shaped(w')
    BY <1>0, <1>3, Reshaped
  <2>2. /\ w'.at = "precheck" /\ w'.moving = w.moving /\ w'.path = w.path /\ w'.start = w.start
        /\ w'.best = w.best /\ w'.climbs = w.climbs /\ w'.attempts = w.attempts + 1
        /\ w'.dir = w.dir /\ w'.step = w.step /\ w'.lowered = w.lowered /\ w'.then = w.then
        /\ w'.quiet = w.quiet /\ w'.aborting = w.aborting
    BY <1>0, <1>3 DEF Shaped, Fields
  <2>3. Sized(w')
    BY <1>0, <2>2 DEF Sized
  <2>4. RunInv(w', position)
    BY <1>0, <1>3, <2>1, <2>2, <2>3 DEF RunInv
  <2> QED
    BY <1>0, <2>2, <2>4
<1>4. CASE w.then # "again" /\ w' = [w EXCEPT !.at = "search"]
  <2>1. /\ Shaped(w') /\ Sized(w') /\ w'.at = "search" /\ w'.path = w.path /\ w'.climbs = w.climbs
        /\ w'.attempts = w.attempts /\ w'.lowered = w.lowered /\ w'.then = w.then
        /\ w'.quiet = w.quiet /\ w'.aborting = w.aborting /\ ~w'.moving
    BY ZenonT(60), <1>0, <1>4, Replaced
  <2>2. Searching(w', position)
    BY <1>0, <1>4, <2>1 DEF Searching
  <2>3. RunInv(w', position)
    BY <1>0, <2>1, <2>2 DEF RunInv
  <2> QED
    BY <1>0, <2>1, <2>3
<1>5. CASE \E status \in {"cancelled", "no_evidence"} :
             w' = [w EXCEPT !.at = "finally", !.status = status]
  <2>1. PICK status \in {"cancelled", "no_evidence"} :
          w' = [w EXCEPT !.at = "finally", !.status = status]
    BY <1>5
  <2>2. Shaped(w')
    BY <1>0, <2>1, Reshaped
  <2>3. /\ w'.at = "finally" /\ w'.moving = w.moving /\ w'.path = w.path /\ w'.start = w.start
        /\ w'.best = w.best /\ w'.climbs = w.climbs /\ w'.attempts = w.attempts
        /\ w'.dir = w.dir /\ w'.step = w.step /\ w'.lowered = w.lowered /\ w'.status = status
    BY <1>0, <2>1 DEF Shaped, Fields
  <2>4. RunInv(w', position)
    BY <1>0, <2>2, <2>3, FocGivesUp DEF AtBest, AtStart
  <2> QED
    BY <1>0, <2>3, <2>4
<1>6. CASE w' = [Foc!Go(w, <<w.start>>, "finally") EXCEPT !.at = "search", !.quiet = TRUE,
                                                          !.status = "clipped"]
  BY <1>0, <1>6, GoesBack
<1> QED
  BY <1>1, <1>2, <1>3, <1>4, <1>5, <1>6

\* After a return to the start.
LEMMA FocReturns ==
  ASSUME FocInv, Foc!Returned
  PROVE  /\ RunInv(w', position') /\ w.at \notin {"idle", "done"} /\ w'.at \notin {"idle", "done"}
         /\ (w.lowered => w'.lowered) /\ UNCHANGED <<position, moved>>
<1>0. /\ w.at = "search" /\ w.path = <<>> /\ w.then \in {"restart", "finally"} /\ ~w.moving
      /\ UNCHANGED <<position, moved>> /\ Searching(w, position)
  BY DEF FocInv, RunInv, Foc!Returned, Foc!Still
<1>1. CASE w.then = "finally"
  <2>0. w' = [w EXCEPT !.at = "finally"]
    BY <1>1 DEF Foc!Returned
  <2>1. /\ Shaped(w') /\ Sized(w') /\ w'.at = "finally" /\ w'.start = w.start
        /\ w'.best = w.best /\ w'.lowered = w.lowered /\ w'.status = w.status
        /\ w'.refused = w.refused /\ ~w'.moving
    BY ZenonT(60), <1>0, <2>0, Replaced
  <2>2. Settled(w', position)
    BY <1>0, <1>1, <2>1 DEF Settled, Searching, Leads, AtBest, AtStart
  <2>3. RunInv(w', position)
    BY <2>1, <2>2 DEF RunInv
  <2> QED
    BY <1>0, <2>1, <2>3
<1>2. CASE w.then = "restart"
  <2>1. w' = [Foc!NoRun EXCEPT !.at = "search", !.mode = w.mode, !.then = "initial",
                               !.attempts = w.attempts, !.lowered = TRUE, !.before = w.before]
    BY <1>2 DEF Foc!Returned
  <2> DEFINE n == Foc!NoRun
  <2> DEFINE a == [n EXCEPT !.at = "search", !.mode = w.mode, !.then = "initial"]
  <2>2. Shaped(n)
    BY NoRunFields
  <2>3. /\ w'.at = "search" /\ w'.then = "initial" /\ w'.start = 0 /\ w'.attempts = w.attempts
        /\ w'.lowered = TRUE /\ w'.moving = FALSE /\ w'.quiet = FALSE /\ w'.aborting = FALSE
        /\ w'.path = <<>> /\ w'.climbs = 0 /\ w'.best = 0 /\ w'.dir = 0 /\ w'.step = 0
    BY <2>1 DEF Foc!NoRun
  <2>4. w' = [a EXCEPT !.attempts = w.attempts, !.lowered = TRUE, !.before = w.before]
    BY <2>1
  <2> HIDE DEF n
  <2>5. Shaped(a)
    BY <2>2, Reshaped
  <2> HIDE DEF a
  <2>6. Shaped(w')
    BY <2>4, <2>5, Reshaped
  <2>7. 0 \in 0 .. Limit
    BY FocusNumbers
  <2>8. RunInv(w', position)
    BY <1>0, <2>3, <2>6, <2>7, Restarts
  <2> QED
    BY <1>0, <2>3, <2>8
<1> QED
  BY <1>0, <1>1, <1>2

\* An error ends the run where it is.
LEMMA FocCrashes ==
  ASSUME FocInv, Foc!Crash
  PROVE  /\ RunInv(w', position') /\ w.at \notin {"idle", "done"} /\ w'.at \notin {"idle", "done"}
         /\ (w.lowered => w'.lowered) /\ UNCHANGED <<position, moved>>
<1>0. /\ w.at \in {"precheck", "search", "lower", "settle"} /\ UNCHANGED <<position, moved>>
      /\ w' = [w EXCEPT !.at = "finally", !.status = "error", !.moving = FALSE, !.path = <<>>]
      /\ Shaped(w)
  BY DEF FocInv, RunInv, Foc!Crash, Foc!Still
<1>1. Shaped(w')
  <2> DEFINE a == [w EXCEPT !.at = "finally", !.status = "error", !.moving = FALSE]
  <2>1. Shaped(a)
    BY <1>0, Reshaped
  <2>2. w' = [a EXCEPT !.path = <<>>]
    BY <1>0
  <2> HIDE DEF a
  <2> QED
    BY <2>1, <2>2, Reshaped
<1>2. /\ w'.at = "finally" /\ w'.moving = FALSE /\ w'.path = <<>> /\ w'.start = w.start
      /\ w'.best = w.best /\ w'.climbs = w.climbs /\ w'.attempts = w.attempts
      /\ w'.dir = w.dir /\ w'.step = w.step /\ w'.lowered = w.lowered /\ w'.status = "error"
  BY <1>0 DEF Shaped, Fields
<1>3. RunInv(w', position)
  BY <1>1, <1>2, FocGivesUp DEF AtBest, AtStart
<1> QED
  BY <1>0, <1>2, <1>3

\* Half the exposure is queued, and noted.
LEMMA FocLowers ==
  ASSUME FocInv, Foc!Lower
  PROVE  FocInv'
<1>0. /\ w.at = "lower" /\ ~w.moving /\ w.path = <<>> /\ w.climbs = 0 /\ ~w.quiet /\ ~w.aborting
      /\ w.then \in {"initial", "again"} /\ w.attempts < MaxAttempts /\ Shaped(w) /\ Sized(w)
      /\ exposure \in 1 .. Brightest /\ queued \in Seq(1 .. Brightest)
  BY DEF FocInv, RunInv, ExposureInv, Foc!Lower
<1>1. /\ queued' = Append(queued, Foc!MaxOf(1, exposure - 1))
      /\ w' = [w EXCEPT !.at = "settle", !.before = exposure, !.lowered = TRUE]
      /\ UNCHANGED <<position, moved, connected, inFlight, seenBusy, enabled, afRunning, jog,
                     afCancel, exposure, aePaused>>
  BY DEF Foc!Lower, Foc!Still, Foc!envVars, Foc!panelVars
<1>2. Shaped(w')
  BY <1>0, <1>1, Reshaped
<1>3. /\ w'.at = "settle" /\ w'.moving = w.moving /\ w'.path = w.path /\ w'.start = w.start
      /\ w'.best = w.best /\ w'.climbs = w.climbs /\ w'.attempts = w.attempts
      /\ w'.dir = w.dir /\ w'.step = w.step /\ w'.lowered = TRUE /\ w'.then = w.then
      /\ w'.quiet = w.quiet /\ w'.aborting = w.aborting
  BY <1>0, <1>1 DEF Shaped, Fields
<1>4. Sized(w')
  BY <1>0, <1>3 DEF Sized
<1>5. RunInv(w', position')
  BY <1>0, <1>1, <1>2, <1>3, <1>4 DEF RunInv
<1>6. Foc!MaxOf(1, exposure - 1) \in 1 .. Brightest
  BY <1>0, FocusNumbers DEF Foc!MaxOf
<1>7. queued' \in Seq(1 .. Brightest)
  BY <1>0, <1>1, <1>6, AppendProperties
<1>8. ExposureInv'
  BY <1>0, <1>1, <1>3, <1>7 DEF ExposureInv
<1>9. FocusPanelInv'
  BY <1>0, <1>1, <1>3 DEF FocInv, FocusPanelInv
<1> QED
  BY <1>5, <1>8, <1>9 DEF FocInv

\* However the run ended, the exposure of its begin is the last thing it queues.
LEMMA FocEnds ==
  ASSUME FocInv, Foc!Finally
  PROVE  FocInv'
<1>0. /\ w.at = "finally" /\ ~w.moving /\ Settled(w, position) /\ Shaped(w) /\ Sized(w)
      /\ exposure \in 1 .. Brightest /\ queued \in Seq(1 .. Brightest)
      /\ (~w.lowered => queued = <<>> /\ exposure = Brightest)
  BY DEF FocInv, RunInv, ExposureInv, Foc!Finally
<1>1. /\ queued' = IF w.lowered THEN Append(queued, Brightest) ELSE queued
      /\ aePaused' = FALSE
      /\ w' = [w EXCEPT !.at = "done", !.status =
                 IF afCancel /\ @ \in {"no_frame", "no_evidence"} THEN "cancelled" ELSE @]
      /\ UNCHANGED <<position, moved, connected, inFlight, seenBusy, enabled, afRunning, jog,
                     afCancel, exposure>>
  BY DEF Foc!Finally, Foc!Restored, Foc!Still, Foc!envVars, Foc!panelVars
<1> DEFINE status == IF afCancel /\ w.status \in {"no_frame", "no_evidence"} THEN "cancelled"
                     ELSE w.status
<1>a. w' = [w EXCEPT !.at = "done", !.status = status]
  BY <1>0, <1>1 DEF Shaped, Fields
<1>b. status = w.status \/ status = "cancelled"
  OBVIOUS
<1> HIDE DEF status
<1>2. Shaped(w')
  BY <1>0, <1>a, Reshaped
<1>3. /\ w'.at = "done" /\ w'.moving = w.moving /\ w'.path = w.path /\ w'.start = w.start
      /\ w'.best = w.best /\ w'.climbs = w.climbs /\ w'.attempts = w.attempts
      /\ w'.dir = w.dir /\ w'.step = w.step /\ w'.lowered = w.lowered /\ w'.status = status
      /\ w'.refused = w.refused
  BY <1>0, <1>a DEF Shaped, Fields
<1>4. Sized(w')
  BY <1>0, <1>3 DEF Sized
<1>5. Settled(w', position')
  BY <1>0, <1>1, <1>3, <1>b DEF Settled, AtBest, AtStart
<1>6. RunInv(w', position')
  BY <1>0, <1>2, <1>3, <1>4, <1>5 DEF RunInv
<1>7. queued' \in Seq(1 .. Brightest) /\ Leads(queued', exposure, Brightest)
  <2>1. CASE ~w.lowered
    BY <1>0, <1>1, <2>1 DEF Leads
  <2>2. CASE w.lowered
    <3>1. Brightest \in 1 .. Brightest
      BY FocusNumbers
    <3>2. /\ Append(queued, Brightest) \in Seq(1 .. Brightest)
          /\ Len(Append(queued, Brightest)) = Len(queued) + 1
          /\ Append(queued, Brightest)[Len(queued) + 1] = Brightest
      BY <1>0, <3>1, AppendProperties
    <3> QED
      BY <1>1, <2>2, <3>2 DEF Leads
  <2> QED
    BY <2>1, <2>2
<1>8. ExposureInv'
  BY <1>0, <1>1, <1>3, <1>7 DEF ExposureInv
<1>9. FocusPanelInv'
  <2>1. aePaused' \in BOOLEAN
    BY <1>1
  <2> QED
    BY <1>0, <1>1, <1>3, <2>1 DEF FocInv, FocusPanelInv
<1> QED
  BY <1>6, <1>8, <1>9 DEF FocInv

\* The GUI thread applies what was queued to it.
LEMMA FocApplies ==
  ASSUME FocInv, Foc!ApplyExposure
  PROVE  FocInv'
<1>1. /\ queued # <<>> /\ exposure' = Head(queued) /\ queued' = Tail(queued)
      /\ UNCHANGED <<position, moved, connected, inFlight, seenBusy, enabled, afRunning, jog,
                     afCancel, aePaused, w>>
  BY DEF Foc!ApplyExposure, Foc!panelVars
<1>2. queued \in Seq(1 .. Brightest)
  BY DEF FocInv, ExposureInv
<1>3. Len(queued) \in Nat \ {0}
  BY <1>1, <1>2, EmptySeq
<1>4. /\ Head(queued) = queued[1] /\ Tail(queued) \in Seq(1 .. Brightest)
      /\ Len(Tail(queued)) = Len(queued) - 1
      /\ \A i \in 1 .. Len(Tail(queued)) : Tail(queued)[i] = queued[i + 1]
  BY <1>1, <1>2, HeadTailProperties
<1>5. exposure' \in 1 .. Brightest
  <2>1. 1 \in 1 .. Len(queued)
    BY <1>3
  <2>2. queued[1] \in 1 .. Brightest
    BY <1>2, <2>1, ElementOfSeq
  <2> QED
    BY <1>1, <1>4, <2>2
<1>6. Leads(queued, exposure, Brightest) => Leads(queued', exposure', Brightest)
  <2> SUFFICES ASSUME queued[Len(queued)] = Brightest PROVE Leads(queued', exposure', Brightest)
    BY <1>1 DEF Leads
  <2>1. CASE Tail(queued) = <<>>
    <3>1. Len(<<>>) = 0
      BY EmptySeq
    <3>2. Len(queued) - 1 = 0
      BY <1>4, <2>1, <3>1, Zenon
    <3>3. Len(queued) = 1
      BY <1>3, <3>2
    <3> QED
      BY <1>1, <1>4, <2>1, <3>3 DEF Leads
  <2>2. CASE Tail(queued) # <<>>
    <3>1. Len(Tail(queued)) \in Nat \ {0}
      BY <1>4, <2>2, EmptySeq
    <3>2. Len(Tail(queued)) \in 1 .. Len(Tail(queued)) /\ Len(Tail(queued)) + 1 = Len(queued)
      BY <1>3, <1>4, <3>1
    <3>3. Tail(queued)[Len(Tail(queued))] = queued[Len(queued)]
      BY <1>4, <3>2
    <3> QED
      BY <1>1, <2>2, <3>3 DEF Leads
  <2> QED
    BY <2>1, <2>2
<1>7. w.lowered
  BY <1>1 DEF FocInv, ExposureInv
<1>8. ExposureInv'
  BY <1>1, <1>4, <1>5, <1>6, <1>7 DEF FocInv, ExposureInv
<1>9. FocusPanelInv' /\ RunInv(w', position')
  BY <1>1 DEF FocInv, FocusPanelInv
<1> QED
  BY <1>8, <1>9 DEF FocInv

\* A run begins where the panel allows it.
LEMMA FocBegins ==
  ASSUME FocInv, Foc!Begin
  PROVE  FocInv'
<1>1. PICK m \in Modes : w' = [Foc!NoRun EXCEPT !.at = IF m = "terrestrial" THEN "precheck" ELSE "search",
                                 !.mode = m, !.then = "initial", !.attempts = 1]
  BY DEF Foc!Begin
<1>2. /\ connected /\ ~inFlight /\ jog = "idle" /\ ~afRunning
      /\ afCancel' = FALSE /\ afRunning' = TRUE /\ enabled' = FALSE /\ aePaused' = TRUE
      /\ moved' = 0 /\ UNCHANGED <<position, connected, inFlight, seenBusy, jog, exposure, queued>>
  BY DEF Foc!Begin, Foc!Free
<1>3. w.at = "idle" /\ ~w.lowered
  BY <1>2 DEF FocInv, FocusPanelInv, ExposureInv
<1> DEFINE a == IF m = "terrestrial" THEN "precheck" ELSE "search"
<1>4. a = "precheck" \/ a = "search"
  OBVIOUS
<1>5. /\ w'.at = a /\ w'.then = "initial" /\ w'.start = 0 /\ w'.attempts = 1
      /\ w'.lowered = FALSE /\ w'.moving = FALSE /\ w'.quiet = FALSE /\ w'.aborting = FALSE
      /\ w'.path = <<>> /\ w'.climbs = 0 /\ w'.best = 0 /\ w'.dir = 0 /\ w'.step = 0
  BY <1>1 DEF Foc!NoRun
<1> HIDE DEF a
<1>6. Shaped(w')
  BY <1>1, NoRunFields, Reshaped
<1>7. 0 \in 0 .. Limit /\ 0 \in 0 .. MaxSteps /\ 1 \in 0 .. MaxAttempts
  BY FocusNumbers
<1>8. <<>> \in Seq(Int)
  OBVIOUS
<1>9. Sized(w') /\ Searching(w', position)
  BY <1>5, <1>7, <1>8 DEF Sized, Searching
<1>10. RunInv(w', position')
  BY <1>2, <1>4, <1>5, <1>6, <1>9 DEF RunInv
<1>11. /\ afCancel' \in BOOLEAN /\ afRunning' \in BOOLEAN /\ enabled' \in BOOLEAN
       /\ aePaused' \in BOOLEAN
  BY <1>2
<1>b. moved' \in -1 .. 1
  BY <1>2
<1>12. FocusPanelInv'
  BY <1>2, <1>4, <1>5, <1>11, <1>b DEF FocInv, FocusPanelInv
<1>13. ExposureInv'
  BY <1>2, <1>3, <1>4, <1>5 DEF FocInv, ExposureInv
<1> QED
  BY <1>10, <1>12, <1>13 DEF FocInv

\* The panel takes the outcome.
LEMMA FocTakes ==
  ASSUME FocInv, Foc!TakeOutcome
  PROVE  FocInv'
<1>1. /\ w.at = "done" /\ queued = <<>> /\ afRunning /\ afRunning' = FALSE /\ w' = Foc!NoRun
      /\ enabled' = (connected /\ ~inFlight /\ jog = "idle")
      /\ UNCHANGED <<position, moved, connected, inFlight, seenBusy, jog, afCancel, exposure,
                     queued, aePaused>>
  BY DEF Foc!TakeOutcome, Foc!exposureVars
<1>2. exposure = Brightest /\ ~aePaused
  BY <1>1 DEF FocInv, ExposureInv, Leads
<1>3. RunInv(w', position')
  BY <1>1, NoRunFields DEF RunInv
<1>4. ExposureInv'
  BY <1>1, <1>2, NoRunFields DEF FocInv, ExposureInv
<1>5. afRunning' \in BOOLEAN /\ enabled' \in BOOLEAN /\ (enabled' => jog = "idle")
  BY <1>1
<1>6. FocusPanelInv'
  BY <1>1, <1>5, NoRunFields DEF FocInv, FocusPanelInv
<1> QED
  BY <1>3, <1>4, <1>6 DEF FocInv

\* The panel beside a run: its buttons, the jog, Stop and Cancel.
LEMMA FocPanels ==
  ASSUME FocInv, Foc!Connect \/ Foc!Disconnect \/ Foc!Jog \/ Foc!JogEnds \/ Foc!PollStatus
                 \/ Foc!Stop \/ Foc!CancelRun
  PROVE  FocInv'
<1>0. /\ connected \in BOOLEAN /\ inFlight \in BOOLEAN /\ seenBusy \in BOOLEAN
      /\ enabled \in BOOLEAN /\ afRunning \in BOOLEAN /\ afCancel \in BOOLEAN
      /\ aePaused \in BOOLEAN /\ jog \in {"idle", "moving"} /\ position \in 0 .. Limit
  BY DEF FocInv, FocusPanelInv
<1>1. UNCHANGED <<moved, afRunning, exposure, queued, aePaused, w>>
  BY DEF Foc!Connect, Foc!Disconnect, Foc!Jog, Foc!JogEnds, Foc!PollStatus, Foc!Stop,
         Foc!CancelRun, Foc!exposureVars, Foc!panelVars
<1>2. ExposureInv'
  BY <1>1 DEF FocInv, ExposureInv
<1>3. ASSUME position' = position, connected' \in BOOLEAN, inFlight' \in BOOLEAN,
             seenBusy' \in BOOLEAN, enabled' \in BOOLEAN, afCancel' \in BOOLEAN,
             jog' = jog, enabled' => ~afRunning /\ jog = "idle"
      PROVE  FocInv'
  <2>1. FocusPanelInv'
    BY <1>1, <1>3 DEF FocInv, FocusPanelInv
  <2>2. RunInv(w', position')
    BY <1>1, <1>3 DEF FocInv
  <2> QED
    BY <1>2, <2>1, <2>2 DEF FocInv
<1>4. CASE Foc!Connect
  <2>1. /\ connected' = TRUE /\ inFlight' = FALSE /\ seenBusy' = FALSE
        /\ enabled' = (TRUE /\ ~FALSE /\ ~afRunning /\ jog = "idle" /\ ~w.moving)
        /\ UNCHANGED <<position, jog, afCancel>>
    BY <1>4 DEF Foc!Connect, Foc!Buttons
  <2>2. connected' \in BOOLEAN /\ inFlight' \in BOOLEAN /\ seenBusy' \in BOOLEAN
        /\ enabled' \in BOOLEAN /\ (enabled' => ~afRunning /\ jog = "idle")
    BY <2>1
  <2> QED
    BY <1>0, <1>3, <2>1, <2>2
<1>5. CASE Foc!Disconnect
  <2>1. /\ connected' = FALSE /\ inFlight' = FALSE /\ seenBusy' = FALSE /\ enabled' = FALSE
        /\ UNCHANGED <<position, jog, afCancel>>
    BY <1>5 DEF Foc!Disconnect
  <2>2. connected' \in BOOLEAN /\ inFlight' \in BOOLEAN /\ seenBusy' \in BOOLEAN
        /\ enabled' \in BOOLEAN
    BY <2>1
  <2> QED
    BY <1>0, <1>3, <2>1, <2>2
<1>6. CASE Foc!Jog
  <2>1. /\ enabled /\ inFlight' = TRUE /\ seenBusy' = FALSE /\ enabled' = FALSE /\ jog' = "moving"
        /\ UNCHANGED <<position, connected, afCancel>>
    BY <1>6 DEF Foc!Jog
  <2>2. inFlight' \in BOOLEAN /\ seenBusy' \in BOOLEAN /\ enabled' \in BOOLEAN
    BY <2>1
  <2>3. FocusPanelInv'
    BY <1>1, <2>1, <2>2 DEF FocInv, FocusPanelInv
  <2>4. RunInv(w', position')
    BY <1>1, <2>1 DEF FocInv
  <2> QED
    BY <1>2, <2>3, <2>4 DEF FocInv
<1>7. CASE Foc!JogEnds
  <2>1. /\ jog = "moving" /\ jog' = "idle"
        /\ position' \in {position, Foc!MaxOf(0, position - 1), Foc!MinOf(Limit, position + 1)}
        /\ UNCHANGED <<connected, inFlight, seenBusy, enabled, afCancel>>
    BY <1>7 DEF Foc!JogEnds
  <2>2. position' \in 0 .. Limit
    BY <1>0, <2>1, FocusNumbers DEF Foc!MaxOf, Foc!MinOf
  <2>3. w.at = "idle"
    BY <2>1 DEF FocInv, FocusPanelInv
  <2>4. RunInv(w', position')
    BY <1>1, <2>3 DEF FocInv, RunInv
  <2>5. FocusPanelInv'
    BY <1>1, <2>1, <2>2 DEF FocInv, FocusPanelInv
  <2> QED
    BY <1>2, <2>4, <2>5 DEF FocInv
<1>8. CASE Foc!PollStatus
  <2>1. PICK failed \in BOOLEAN, late2 \in BOOLEAN :
          LET busy == jog = "moving" \/ w.moving
              seen == seenBusy \/ (~failed /\ busy)
              over == (~failed /\ ~busy /\ seen) \/ late2
          IN  /\ inFlight' = (inFlight /\ ~over)
              /\ seenBusy' = (inFlight' /\ seen)
              /\ enabled' = (~failed /\ Foc!Buttons(connected, inFlight', afRunning))
    BY <1>8 DEF Foc!PollStatus
  <2>2. inFlight' \in BOOLEAN /\ seenBusy' \in BOOLEAN /\ enabled' \in BOOLEAN
        /\ (enabled' => ~afRunning /\ jog = "idle")
    BY <2>1 DEF Foc!Buttons
  <2>3. UNCHANGED <<position, connected, jog, afCancel>>
    BY <1>8 DEF Foc!PollStatus
  <2> QED
    BY <1>0, <1>3, <2>2, <2>3
<1>9. CASE Foc!Stop
  <2>1. /\ afCancel' = (afCancel \/ afRunning) /\ inFlight' = FALSE /\ seenBusy' = FALSE
        /\ enabled' = Foc!Buttons(TRUE, FALSE, afRunning)
        /\ UNCHANGED <<position, connected, jog>>
    BY <1>9 DEF Foc!Stop
  <2>2. afCancel' \in BOOLEAN /\ inFlight' \in BOOLEAN /\ seenBusy' \in BOOLEAN
        /\ enabled' \in BOOLEAN /\ (enabled' => ~afRunning /\ jog = "idle")
    BY <2>1 DEF Foc!Buttons
  <2> QED
    BY <1>0, <1>3, <2>1, <2>2
<1>10. CASE Foc!CancelRun
  <2>1. afCancel' = TRUE /\ UNCHANGED <<position, connected, inFlight, seenBusy, enabled, jog>>
    BY <1>10 DEF Foc!CancelRun, Foc!panelVars
  <2>2. afCancel' \in BOOLEAN /\ (enabled => ~afRunning /\ jog = "idle")
    BY <2>1 DEF FocInv, FocusPanelInv
  <2> QED
    BY <1>0, <1>3, <2>1, <2>2
<1> QED
  BY <1>4, <1>5, <1>6, <1>7, <1>8, <1>9, <1>10

\* Every step of the panel and of the run keeps the invariant.
LEMMA FocStep ==
  ASSUME FocInv, [Foc!FNext]_afVars
  PROVE  FocInv'
<1>1. CASE Foc!Measure \/ Foc!MoveSkips \/ Foc!MoveStarts \/ Foc!MoveArrives \/ Foc!MoveRefused
           \/ Foc!Precheck \/ Foc!Decide \/ Foc!Lowered \/ Foc!Returned \/ Foc!Crash
  <2>1. UNCHANGED <<connected, inFlight, seenBusy, enabled, afRunning, jog, afCancel, exposure,
                    queued, aePaused>>
    BY <1>1, SearchLeaves
  <2>2. position \in 0 .. Limit /\ moved \in -1 .. 1
    BY DEF FocInv, FocusPanelInv
  <2>3. CASE Foc!Measure
    <3>1. Onward(w', position) /\ w.at = "search" /\ UNCHANGED <<position, moved>>
      BY <2>3, FocMeasures DEF Foc!Measure, Foc!Still
    <3> QED
      BY <2>1, <2>2, <3>1, FocWorks DEF Onward
  <2>4. CASE Foc!MoveSkips \/ Foc!MoveStarts \/ Foc!MoveArrives \/ Foc!MoveRefused
    BY <2>1, <2>4, FocMoves, FocWorks
  <2>5. CASE Foc!Precheck \/ Foc!Decide \/ Foc!Lowered \/ Foc!Returned \/ Foc!Crash
    <3>1. /\ RunInv(w', position') /\ w.at \notin {"idle", "done"} /\ w'.at \notin {"idle", "done"}
          /\ (w.lowered => w'.lowered) /\ UNCHANGED <<position, moved>>
      BY <2>5, FocPrechecks, FocDecides, FocSettles, FocReturns, FocCrashes
    <3> QED
      BY <2>1, <2>2, <3>1, FocWorks
  <2> QED
    BY <1>1, <2>3, <2>4, <2>5
<1>2. CASE UNCHANGED afVars
  BY <1>2 DEF afVars, FocInv, FocusPanelInv, ExposureInv
<1> QED
  BY <1>1, <1>2, FocLowers, FocEnds, FocApplies, FocBegins, FocTakes, FocPanels
  DEF Foc!FNext, Foc!Worker


-------------------------------------------------------------------------------
(* The components together. What is said of a component is said of the part  *)
(* that acts; a step leaves the choice of it alone, and with it what is said *)
(* of the others.                                                            *)

PulseInv == VerdictInv /\ MovedInv
LinkInv == ConnectionTypeOK /\ ClientShared

\* The invariant behind the theorems of this module.
EquipmentInv ==
  /\ Acts("camera") => CamInv
  /\ Acts("acquisition") => AcqInv
  /\ Acts("autofocus") => FocInv
  /\ Acts("fine") => FineInv
  /\ Acts("park") => ParkInv
  /\ Acts("guide") => GuideInv
  /\ Acts("pulse") => PulseInv
  /\ Acts("link") => LinkInv

\* Every component starts in its invariant.
LEMMA EquipmentStarts == EquipmentStart => EquipmentInv /\ AnswerInv
<1> SUFFICES ASSUME EquipmentStart PROVE EquipmentInv /\ AnswerInv
  OBVIOUS
<1>1. Cam!CInit /\ Acq!AInit /\ Foc!FInit /\ Col!FineInit /\ Park!ParkInit /\ Guide!GuideInit
      /\ PulseInit /\ ConnectionInit
  BY DEF EquipmentStart
<1>2. PulseInv
  <2>1. PulseTypeOK /\ Waiting BY <1>1, PulseTypeInit
  <2>2. VerdictInv
    BY <1>1, <2>1 DEF PulseInit, VerdictInv, JoinedOrPressed, NoVerdictYet, VerdictTruthful,
                      NoPulse, NoVerdict
  <2>3. MovedInv
    <3>1. 0 * Chunks = 0 BY GuidePulseAssumption DEF GuidePulseAssumption
    <3>2. ChunksCounted BY <1>1, <3>1 DEF PulseInit, ChunksCounted, NoPulse
    <3> QED BY <2>1, <3>2 DEF MovedInv
  <2> QED BY <2>2, <2>3 DEF PulseInv
<1>3. LinkInv BY <1>1, ConnectionTypeInit, ClientSharedInit DEF LinkInv
<1> QED
  BY <1>1, <1>2, <1>3, CamStarts, AcqStarts, FocStarts, FineStarts, ParkStarts, GuideStarts,
     AnswerInit DEF EquipmentInv

\* A guide pulse keeps what is said of it.
LEMMA PulseKeeps == ASSUME PulseInv, [PulseNext]_pulseVars PROVE PulseInv'
<1>1. VerdictInv /\ MovedInv /\ PulseTypeOK /\ Waiting BY DEF PulseInv, VerdictInv
<1>2. PulseTypeOK' /\ Waiting' BY <1>1, PulseTypeStep
<1>3. (JoinedOrPressed /\ NoVerdictYet /\ VerdictTruthful)' BY <1>1, VerdictStep
<1>4. ChunksCounted' BY <1>1, MovedStep
<1> QED BY <1>2, <1>3, <1>4 DEF PulseInv, VerdictInv, MovedInv

\* The shared connection keeps what is said of it.
LEMMA LinkKeeps == ASSUME LinkInv, [ConnectionNext]_connectionVars PROVE LinkInv'
BY ConnectionTypeStep, ClientSharedStep DEF LinkInv

\* Whichever component acts, every one of them keeps its invariant.
LEMMA EquipmentStep == EquipmentInv /\ [EquipmentNext]_equipmentVars => EquipmentInv'
<1> SUFFICES ASSUME EquipmentInv, [EquipmentNext]_equipmentVars PROVE EquipmentInv'
  OBVIOUS
<1>1. part' = part BY DEF EquipmentNext, Only, equipmentVars
<1>2. part = "camera" => CamInv'
  <2> SUFFICES ASSUME part = "camera" PROVE CamInv' OBVIOUS
  <2>1. [Cam!CNext]_camVars BY DEF EquipmentNext, Only, Acts, equipmentVars
  <2> QED BY <2>1, CamStep DEF EquipmentInv, Acts
<1>3. part = "acquisition" => AcqInv'
  <2> SUFFICES ASSUME part = "acquisition" PROVE AcqInv' OBVIOUS
  <2>1. [Acq!ANext]_acqVars BY DEF EquipmentNext, Only, Acts, equipmentVars
  <2> QED BY <2>1, AcqStep DEF EquipmentInv, Acts
<1>4. part = "autofocus" => FocInv'
  <2> SUFFICES ASSUME part = "autofocus" PROVE FocInv' OBVIOUS
  <2>1. [Foc!FNext]_afVars BY DEF EquipmentNext, Only, Acts, equipmentVars
  <2> QED BY <2>1, FocStep DEF EquipmentInv, Acts
<1>5. part = "fine" => FineInv'
  <2> SUFFICES ASSUME part = "fine" PROVE FineInv' OBVIOUS
  <2>1. [Col!FineNext]_fineVars BY DEF EquipmentNext, Only, Acts, equipmentVars
  <2> QED BY <2>1, FineStepKeeps DEF EquipmentInv, Acts
<1>6. part = "park" => ParkInv'
  <2> SUFFICES ASSUME part = "park" PROVE ParkInv' OBVIOUS
  <2>1. [Park!ParkNext]_parkVars BY DEF EquipmentNext, Only, Acts, equipmentVars
  <2> QED BY <2>1, ParkStep DEF EquipmentInv, Acts
<1>7. part = "guide" => GuideInv'
  <2> SUFFICES ASSUME part = "guide" PROVE GuideInv' OBVIOUS
  <2>1. [Guide!GuideNext]_guideVars BY DEF EquipmentNext, Only, Acts, equipmentVars
  <2> QED BY <2>1, GuideStep DEF EquipmentInv, Acts
<1>8. part = "pulse" => PulseInv'
  <2> SUFFICES ASSUME part = "pulse" PROVE PulseInv' OBVIOUS
  <2>1. [PulseNext]_pulseVars BY DEF EquipmentNext, Only, Acts, equipmentVars
  <2> QED BY <2>1, PulseKeeps DEF EquipmentInv, Acts
<1>9. part = "link" => LinkInv'
  <2> SUFFICES ASSUME part = "link" PROVE LinkInv' OBVIOUS
  <2>1. [ConnectionNext]_connectionVars BY DEF EquipmentNext, Only, Acts, equipmentVars
  <2> QED BY <2>1, LinkKeeps DEF EquipmentInv, Acts
<1> QED
  BY <1>1, <1>2, <1>3, <1>4, <1>5, <1>6, <1>7, <1>8, <1>9 DEF EquipmentInv, Acts

\* Hence they are always in it.
LEMMA EquipmentInvariant == EquipmentSpec => []EquipmentInv
<1>1. EquipmentInit => EquipmentInv BY EquipmentStarts DEF EquipmentInit
<1> QED BY <1>1, EquipmentStep, PTL DEF EquipmentSpec

\* Types and limits: what each camera may be set to, the focuser inside its
\* envelope, the retries inside their counts, in every component that acts.
THEOREM EquipmentTyped == EquipmentSpec => []EquipmentTypeOK
<1>1. EquipmentInv => EquipmentTypeOK
  BY CamFacts, AcqFacts, FocFacts, FineFacts, ParkFacts, GuideFacts
  DEF EquipmentInv, EquipmentTypeOK, PulseInv, VerdictInv, LinkInv
<1> QED BY <1>1, EquipmentInvariant, PTL

\* Whatever fails while cameras are opened, switched and closed, no handle is
\* left open for nobody, and a cooler runs on the panel's open camera, shown
\* as on, unless a call to stop it was sent and lost: no path forgets to send
\* it. The INDI client is open exactly while a shim uses it.
THEOREM NothingLeftOpen == EquipmentSpec => []DevicesReleased
<1>1. EquipmentInv => DevicesReleased
  BY CamFacts DEF EquipmentInv, DevicesReleased, LinkInv
<1> QED BY <1>1, EquipmentInvariant, PTL

\* A frame taken as proof of a motion's end was exposed after it, and the wait
\* for it ends within the time it allows itself.
THEOREM FramesFresh == EquipmentSpec => []FreshInTime
<1>1. EquipmentInv => FreshInTime
  BY AcqFacts DEF EquipmentInv, FreshInTime
<1> QED BY <1>1, EquipmentInvariant, PTL

\* One command moves a device at a time, a guide pulse is for the star of its
\* frame, and after a Stop at most one command of a fine-collimation run goes
\* out.
THEOREM OneMovesAtATime == EquipmentSpec => []OneMover
<1>1. EquipmentInv => OneMover
  BY FocFacts, FineFacts, ParkFacts, GuideFacts DEF EquipmentInv, OneMover
<1> QED BY <1>1, EquipmentInvariant, PTL

\* The shims' answers stay honest beside the other components.
LEMMA AnswersKept ==
  ASSUME ReadingsInTime, EquipmentInv, Acts("link") => AnswerInv,
         [EquipmentNext]_equipmentVars
  PROVE  (Acts("link") => AnswerInv)'
<1>1. part' = part BY DEF EquipmentNext, Only, equipmentVars
<1>2. part = "link" => AnswerInv'
  <2> SUFFICES ASSUME part = "link" PROVE AnswerInv' OBVIOUS
  <2>1. [ConnectionNext]_connectionVars BY DEF EquipmentNext, Only, Acts, equipmentVars
  <2>2. ConnectionTypeOK /\ AnswerInv BY DEF EquipmentInv, Acts, LinkInv
  <2> QED BY <2>1, <2>2, LockStep, OwnStep, AnswerStep DEF AnswerInv
<1> QED BY <1>1, <1>2 DEF Acts

\* When no shim is disconnected in the middle of a worker's reading, what was
\* reported is so: where the autofocus left the focuser and the exposure, an
\* unpark followed by the tracking policy, what a guide pulse says of the
\* tracking and of what was sent, what the shims answer.
THEOREM ReportsTrue == ReadingsInTime => (EquipmentSpec => []LeftAsReported)
<1> SUFFICES ASSUME ReadingsInTime PROVE EquipmentSpec => []LeftAsReported
  OBVIOUS
<1> DEFINE Answering == Acts("link") => AnswerInv
<1>1. EquipmentInit => Answering BY EquipmentStarts DEF EquipmentInit
<1>2. EquipmentInv /\ Answering /\ [EquipmentNext]_equipmentVars => Answering'
  BY AnswersKept
<1>3. EquipmentInv /\ Answering => LeftAsReported
  <2> SUFFICES ASSUME EquipmentInv, Answering PROVE LeftAsReported
    OBVIOUS
  <2>1. Acts("pulse") => VerdictTruthful /\ MovedAsReported
    <3> SUFFICES ASSUME Acts("pulse") PROVE VerdictTruthful /\ MovedAsReported
      OBVIOUS
    <3>1. VerdictInv /\ MovedInv BY DEF EquipmentInv, PulseInv
    <3> QED BY <3>1, MovedFacts DEF VerdictInv
  <2> QED
    BY <2>1, FocFacts, ParkFacts DEF EquipmentInv, LeftAsReported, AnswerInv
<1> HIDE DEF Answering
<1> QED BY <1>1, <1>2, <1>3, EquipmentInvariant, PTL DEF EquipmentSpec
================================================================================
