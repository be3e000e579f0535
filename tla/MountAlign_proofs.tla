-------------------------- MODULE MountAlign_proofs --------------------------
(***************************************************************************)
(* Proofs about MountAlign, for any cameras, sizes, nudges and screen      *)
(* moves: type correctness and NothingAfterStop as they stand; ExposureHeld, *)
(* EvidenceOfOwnPulse and HomeWhenSaid where the operator's clicks come    *)
(* after the poll that takes an outcome (ClicksAfterPoll).                  *)
(*                                                                         *)
(* What leads to them: one thing at a time (the run, its captures, the     *)
(* worker, its outcome), the places of the views, the run's net, the plan  *)
(* that brings it home, and the way back of an aborted run.                *)
(***************************************************************************)
EXTENDS MountAlign, SequenceTheorems, TLAPS

-----------------------------------------------------------------------------
(* Arithmetic: a way back in equal moves.                                    *)

\* Quotient and remainder of naturals.
LEMMA QuotientSign ==
  ASSUME NEW a \in Nat, NEW b \in Nat \ {0}, NEW q \in Int, NEW r \in Int,
         0 <= r, r < b, a = b * q + r
  PROVE  q \in Nat
<1>1. ASSUME q <= -1 PROVE FALSE
  <2>1. b * q <= b * (-1)
    BY <1>1
  <2> QED
    BY <2>1
<1> QED
  BY <1>1

\* What \div and % say of natural numbers.
LEMMA Division ==
  ASSUME NEW a \in Nat, NEW b \in Nat \ {0}
  PROVE  a \div b \in Nat /\ a % b \in 0 .. b - 1 /\ a = b * (a \div b) + (a % b)
<1>1. a \div b \in Int /\ a % b \in 0 .. b - 1
  OBVIOUS
<1>2. a = b * (a \div b) + (a % b)
  OBVIOUS
<1>3. a \div b \in Nat
  <2> SUFFICES ASSUME NEW q \in Int, NEW r \in Int, q = a \div b, r = a % b
               PROVE  q \in Nat
    BY <1>1
  <2>1. 0 <= r /\ r < b /\ a = b * q + r
    BY <1>1, <1>2
  <2> QED
    BY ONLY a \in Nat, b \in Nat \ {0}, q \in Int, r \in Int, <2>1, QuotientSign
<1> QED
  BY <1>1, <1>2, <1>3

\* A larger factor makes a larger product.
LEMMA Product ==
  ASSUME NEW c \in Nat \ {0}, NEW b \in Nat, NEW q \in Nat, q >= b + 1
  PROVE  c * q >= b * c + c
<1>1. PICK d \in Nat : q = b + 1 + d
  <2>1. q - b - 1 \in Nat /\ q = b + 1 + (q - b - 1)
    OBVIOUS
  <2> QED
    BY <2>1
<1>2. c * q = c * b + c + c * d
  BY <1>1
<1>3. c * d >= 0 /\ c * b = b * c
  OBVIOUS
<1> QED
  BY <1>2, <1>3

\* The number of moves a total needs: at least one, no more than its units, and enough.
LEMMA CeilBounds ==
  ASSUME NEW a \in Nat \ {0}, NEW b \in Nat \ {0}
  PROVE  Ceil(a, b) \in 1 .. a /\ a <= b * Ceil(a, b)
<1> DEFINE c == Ceil(a, b)
           r == (a + b - 1) % b
<1>1. c \in Nat /\ r \in 0 .. b - 1 /\ a + b - 1 = b * c + r
  <2>1. a + b - 1 \in Nat
    OBVIOUS
  <2> QED
    BY <2>1, Division, Zenon DEF Ceil
<1> HIDE DEF c, r
<1>2. a <= b * c
  BY <1>1
<1>3. c >= 1
  BY <1>1, <1>2
<1>4. ASSUME c >= a + 1 PROVE FALSE
  <2>1. b * c >= a * b + b
    BY <1>1, <1>4, Product
  <2>2. a * b >= a
    <3>1. PICK d \in Nat : b = 1 + d
      <4>1. b - 1 \in Nat /\ b = 1 + (b - 1)
        OBVIOUS
      <4> QED
        BY <4>1
    <3>2. a * b = a + a * d /\ a * d >= 0
      BY <3>1
    <3> QED
      BY <3>2
  <2> QED
    BY <1>1, <2>1, <2>2
<1>5. c <= a
  BY <1>1, <1>4
<1>6. c \in 1 .. a /\ a <= b * c
  BY <1>1, <1>2, <1>3, <1>5
<1> QED
  BY <1>6 DEF c

\* A function on the first naturals is a sequence.
LEMMA SeqOfParts ==
  ASSUME NEW S, NEW n \in Nat, NEW f \in [1 .. n -> S]
  PROVE  f \in Seq(S) /\ Len(f) = n /\ DOMAIN f = 1 .. n
OBVIOUS

\* Equal parts of a total are at least one unit, at most the cap.
LEMMA EvenParts ==
  ASSUME NEW a \in Nat \ {0}, NEW b \in Nat \ {0}, NEW c \in 1 .. a, a <= b * c
  PROVE  Even(a, c) \in [1 .. c -> 1 .. b]
<1> DEFINE q == a \div c
           r == a % c
<1>1. q \in Nat /\ r \in 0 .. c - 1 /\ a = c * q + r
  <2>1. a \in Nat /\ c \in Nat \ {0}
    OBVIOUS
  <2> QED
    BY <2>1, Division, Zenon
<1>0. Even(a, c) = [k \in 1 .. c |-> q + (IF k <= r THEN 1 ELSE 0)]
  BY DEF Even
<1> HIDE DEF q, r
<1>2. q >= 1
  BY <1>1
<1>3. q <= b
  <2>1. ASSUME q >= b + 1 PROVE FALSE
    <3>1. c * q >= b * c + c
      BY <1>1, <2>1, Product
    <3> QED
      BY <1>1, <3>1
  <2> QED
    BY <1>1, <2>1
<1>4. r > 0 => q + 1 <= b
  <2>1. ASSUME r > 0, q = b PROVE FALSE
    <3>1. c * q = b * c
      BY <2>1
    <3> QED
      BY <1>1, <2>1, <3>1
  <2> QED
    BY <1>1, <1>3, <2>1
<1>5. \A k \in 1 .. c : q + (IF k <= r THEN 1 ELSE 0) \in 1 .. b
  BY <1>1, <1>2, <1>3, <1>4
<1> QED
  BY <1>0, <1>5, Zenon

-----------------------------------------------------------------------------
(* Typing.                                                                   *)

Steps == [axis : Axes, dir : {1, -1}, role : {"first", "repeat", "return"}, size : 0 .. MaxSize,
          cam : Cameras \cup {"both"}]
Shots == [got : SUBSET Cameras, pos : [Axes -> Int], drift : Int]
References == {NoReference} \cup
  [pos : [Axes -> Int], drift : Int, mode : {"astronomical", "terrestrial"}]
Calibrations == [kind : {"calibration"}, step : Steps, size : Nat \ {0}, before : Shots \cup {<<>>}]
NudgeMoves == [kind : {"nudge"}, move : Moves, before : Seq(References)]
Results == [pulsed : BOOLEAN, sent : Nat]
Workers ==
  {NoWork} \cup [at : {"sending", "moving"}, seq : Seq(Moves), i : Nat \ {0}]
           \cup [at : {"ending", "released"}, result : Results]
Early == worker.at \in {"sending", "moving"}

JobShape(j) ==
  /\ j.phase \in {"before", "after"} /\ j.done \in BOOLEAN
  /\ j.phase = "after" => j.move \in Calibrations
  /\ j.done => j.error \in BOOLEAN /\ j.shot \in Shots
CheckShape(j) ==
  /\ j.phase = "check" /\ j.done \in BOOLEAN /\ j.move \in NudgeMoves
  /\ j.done => j.shot \in Shots

RunnerTyped ==
  /\ worker \in Workers /\ (Early => worker.i <= Len(worker.seq))
  /\ outcome \in Results \cup {NoOutcome}
  /\ commanded \in BOOLEAN /\ latch \in BOOLEAN
  /\ claim \in {"none", "align", "other"} /\ halted \in {"no", "panel", "mount"}
\* What the pieces of a callback leave behind: the run and the runner.
DeskTyped ==
  /\ RunnerTyped
  /\ queue \in Seq(Steps)
  /\ pending \in {NoMove, [kind |-> "screen"]} \cup Calibrations \cup NudgeMoves
  /\ job = NoJob \/ JobShape(job)
  /\ job.phase = "before" => queue # <<>>
  /\ awaiting \in BOOLEAN /\ paused \in BOOLEAN
  /\ calibration \in [cams : SUBSET Cameras, unit : {"guide", "axis"}]
PanelTyped ==
  /\ connected \in BOOLEAN /\ shown \in {"off", "ready", "busy"}
  /\ mode \in {"astronomical", "terrestrial"}
  /\ check = NoJob \/ CheckShape(check)
MeasuredTyped ==
  /\ size \in MinSize .. MaxSize /\ attempt \in 1 .. MaxAttempts
  /\ failed \subseteq Cameras /\ first \subseteq Cameras /\ measured \in [Cameras -> SUBSET Axes]
RunTyped ==
  /\ primitive \in {"guide", "axis"} /\ sized \in BOOLEAN
  /\ net \in [Axes -> Int] /\ reference \in References
\* A motion of another workflow is counted when it is over, but is one of the events.
GhostTyped ==
  /\ pos \in [Axes -> Int] /\ drift \in Nat /\ events \in 0 .. MaxEvents
  /\ drift + (IF claim = "other" THEN 1 ELSE 0) <= events

Typed == DeskTyped /\ PanelTyped /\ MeasuredTyped /\ RunTyped /\ GhostTyped

\* The types the proofs use imply those the runs check.
LEMMA TypedImplies == Typed => TypeOK
<1> SUFFICES ASSUME Typed PROVE TypeOK
  OBVIOUS
<1> USE DEF Typed, DeskTyped, PanelTyped, MeasuredTyped, RunTyped, GhostTyped, RunnerTyped
<1>1. {connected, awaiting, paused, sized, latch} \subseteq BOOLEAN /\ commanded \in BOOLEAN
  OBVIOUS
<1>2. \A k \in DOMAIN queue : queue[k] \in Steps
  OBVIOUS
<1>3. pending.kind \in {"none", "calibration", "nudge", "screen"}
  BY DEF NoMove, Calibrations, NudgeMoves
<1>4. job.phase \in {"none", "before", "after"} /\ check.phase \in {"none", "check"}
  BY DEF NoJob, JobShape, CheckShape
<1>5. worker.at \in {"idle", "sending", "moving", "ending", "released"}
  BY DEF Workers, NoWork
<1>6. Early => \A k \in DOMAIN worker.seq : worker.seq[k] \in Moves
  BY DEF Early, Workers, NoWork
<1>7. outcome \in [pulsed : BOOLEAN, sent : Nat \cup {-1}]
  <2>1. NoOutcome \in [pulsed : BOOLEAN, sent : Nat \cup {-1}]
    BY DEF NoOutcome
  <2> QED
    BY <2>1 DEF Results
<1>8. reference.mode \in {"none", "astronomical", "terrestrial"}
  BY DEF References, NoReference
<1>9. drift \in 0 .. MaxEvents
  BY BoundsAssumption DEF BoundsAssumption
<1> QED
  BY <1>1, <1>2, <1>3, <1>4, <1>5, <1>6, <1>7, <1>8, <1>9 DEF TypeOK, Steps, Early

\* The sizes of a run are those the mount and the sizing allow.
LEMMA SizesTyped ==
  /\ {Floor, MinSize, MaxSize, FirstSize, AbortCap, GuideMax} \subseteq Nat \ {0}
  /\ FirstSize \in MinSize .. MaxSize
  /\ \A x \in Int : Clamp(x) \in MinSize .. MaxSize
BY SizesAssumption DEF SizesAssumption, Clamp

\* The moves of a way back are no longer than its cap, or the mount's smallest move.
LEMMA ChunksTyped ==
  ASSUME NEW total \in Nat, NEW cap \in Nat \ {0}
  PROVE  ReturnChunks(total, cap) \in Seq(1 .. (IF cap < Floor THEN Floor ELSE cap))
<1> DEFINE top == IF cap < Floor THEN Floor ELSE cap
<1>1. top \in Nat \ {0} /\ Floor \in Nat \ {0}
  BY SizesTyped
<1>2. CASE total < Floor
  BY <1>2 DEF ReturnChunks
<1>3. CASE total >= Floor
  <2>1. total \in Nat \ {0}
    BY <1>1, <1>3
  <2>2. Ceil(total, top) \in 1 .. total /\ total <= top * Ceil(total, top)
    BY <1>1, <2>1, CeilBounds
  <2>3. Even(total, Ceil(total, top)) \in [1 .. Ceil(total, top) -> 1 .. top]
    BY <1>1, <2>1, <2>2, EvenParts
  <2>4. ReturnChunks(total, cap) = Even(total, Ceil(total, top))
    BY <1>1, <1>3 DEF ReturnChunks
  <2>5. Even(total, Ceil(total, top)) \in Seq(1 .. top)
    BY ONLY <2>2, <2>3, Ceil(total, top) \in Nat, SeqOfParts
  <2> QED
    BY <2>4, <2>5
<1> QED
  BY <1>1, <1>2, <1>3

\* The way home of an abort is a sequence of moves.
LEMMA AbortReturnTyped ==
  ASSUME NEW axis \in Axes, NEW n \in [Axes -> Int]
  PROVE  AbortReturn(axis, n) \in Seq(Moves)
<1> DEFINE back == ReturnChunks(Size(n[axis]), AbortCap)
           top == IF AbortCap < Floor THEN Floor ELSE AbortCap
<1>1. Size(n[axis]) \in Nat /\ AbortCap \in Nat \ {0} /\ top \in Nat \ {0}
  BY SizesTyped DEF Size
<1>2. back \in Seq(1 .. top)
  BY <1>1, ChunksTyped
<1>3. AbortReturn(axis, n) = [k \in DOMAIN back |-> [axis |-> axis, dir |-> Back(n[axis]), size |-> back[k]]]
  BY DEF AbortReturn
<1> HIDE DEF back, top
<1>4. \A k \in DOMAIN back : back[k] \in Nat \ {0}
  BY <1>1, <1>2
<1>5. Back(n[axis]) \in {1, -1}
  BY DEF Back
<1>6. \A k \in DOMAIN back : [axis |-> axis, dir |-> Back(n[axis]), size |-> back[k]] \in Moves
  BY <1>4, <1>5 DEF Moves
<1>7. DOMAIN back = 1 .. Len(back) /\ Len(back) \in Nat
  BY <1>2
<1> QED
  BY <1>3, <1>6, <1>7

\* Sequences of steps: a group, the head of the queue in front of it again.
LEMMA GroupTyped ==
  ASSUME NEW axis \in Axes, NEW sz \in 0 .. MaxSize, NEW cam \in Cameras \cup {"both"}
  PROVE  Group(axis, sz, cam) \in Seq(Steps)
<1>1. \A dir \in {1, -1}, role \in {"first", "repeat"} : Step(axis, dir, role, sz, cam) \in Steps
  BY DEF Step, Steps
<1> QED
  BY <1>1 DEF Group

\* The calibration is a sequence of steps.
LEMMA CalibrationTyped == CalibrationSteps \in Seq(Steps)
<1>1. 1 \in Axes /\ 2 \in Axes /\ 0 \in 0 .. MaxSize
  BY SizesTyped DEF Axes
<1> QED
  BY <1>1, GroupTyped, ConcatProperties DEF CalibrationSteps

\* So are the steps that follow a step: the way back, the wider groups, the queue.
LEMMA FollowupsTyped ==
  ASSUME Typed, NEW step \in Steps, NEW verdicts,
         \A c \in DOMAIN verdicts : verdicts[c].action = "retry" => verdicts[c].size \in MinSize .. MaxSize
  PROVE  /\ WayBack(step) \in Seq(Steps) /\ WideGroups(step, verdicts) \in Seq(Steps)
         /\ WayBack(step) \o WideGroups(step, verdicts) \o queue \in Seq(Steps)
<1>1. WayBack(step) \in Seq(Steps)
  <2> DEFINE chunks == ReturnChunks(Size(net[step.axis]), MaxSize)
  <2>1. /\ Size(net[step.axis]) \in Nat /\ MaxSize \in Nat \ {0}
        /\ (IF MaxSize < Floor THEN Floor ELSE MaxSize) = MaxSize
    <3>1. net[step.axis] \in Int
      BY DEF Typed, RunTyped, Steps
    <3>2. Floor <= MaxSize
      BY SizesTyped, SizesAssumption DEF SizesAssumption
    <3> QED
      BY <3>1, <3>2, SizesTyped DEF Size
  <2>2. chunks \in Seq(1 .. MaxSize)
    BY <2>1, ChunksTyped
  <2> HIDE DEF chunks
  <2>3. \A k \in DOMAIN chunks : Step(step.axis, Back(net[step.axis]), "return", chunks[k], "both") \in Steps
    <3>1. \A k \in DOMAIN chunks : chunks[k] \in 0 .. MaxSize
      BY <2>1, <2>2
    <3> QED
      BY <3>1 DEF Step, Steps, Back
  <2>4. DOMAIN chunks = 1 .. Len(chunks) /\ Len(chunks) \in Nat
    BY <2>2
  <2>5. WayBack(step) = [k \in DOMAIN chunks |-> Step(step.axis, Back(net[step.axis]), "return", chunks[k], "both")]
    BY DEF WayBack, chunks
  <2> QED
    BY <2>3, <2>4, <2>5
<1>2. WideGroups(step, verdicts) \in Seq(Steps)
  <2> DEFINE wide == {c \in DOMAIN verdicts : verdicts[c].action = "retry"}
             of(c) == IF c \in wide THEN Group(step.axis, verdicts[c].size, c) ELSE <<>>
             other == CHOOSE c \in Cameras : c # Narrow \/ Cameras = {Narrow}
  <2>1. Narrow \in Cameras /\ other \in Cameras
    BY CamerasAssumption DEF CamerasAssumption
  <2>2. \A c \in Cameras : of(c) \in Seq(Steps)
    <3> SUFFICES ASSUME NEW c \in Cameras, c \in wide
                 PROVE  Group(step.axis, verdicts[c].size, c) \in Seq(Steps)
      OBVIOUS
    <3>1. verdicts[c].size \in 0 .. MaxSize /\ step.axis \in Axes
      BY SizesTyped DEF Steps
    <3> QED
      BY <3>1, GroupTyped
  <2>3. WideGroups(step, verdicts) = of(other) \o (IF other = Narrow THEN <<>> ELSE of(Narrow))
    BY DEF WideGroups
  <2> HIDE DEF of, other
  <2> QED
    BY <2>1, <2>2, <2>3, ConcatProperties
<1> QED
  BY <1>1, <1>2, ConcatProperties DEF Typed, DeskTyped

-----------------------------------------------------------------------------
(* Typing of the pieces of a callback.                                       *)

LeftTyped(left) == left.outcome \in Results \cup {NoOutcome} /\ left.commanded \in BOOLEAN

\* The runner keeps its types when a sequence is handed to it.
LEMMA SubmitTyped ==
  ASSUME RunnerTyped, NEW seq \in Seq(Moves), seq # <<>>, NEW left, LeftTyped(left),
         Submit(seq, left)
  PROVE  RunnerTyped'
<1>1. Failure(0) \in Results
  BY DEF Failure, Results
<1>2. [at |-> "sending", seq |-> seq, i |-> 1] \in Workers /\ 1 <= Len(seq)
  BY DEF Workers
<1>3. CASE claim # "none"
  BY <1>1, <1>3 DEF RunnerTyped, Submit, LeftTyped, Early
<1>4. CASE claim = "none"
  <2>1. /\ worker' = [at |-> "sending", seq |-> seq, i |-> 1] /\ outcome' = left.outcome
        /\ commanded' = TRUE /\ claim' = "align" /\ latch' = FALSE /\ halted' = "no"
    BY <1>4 DEF Submit
  <2> QED
    BY <1>2, <2>1 DEF RunnerTyped, LeftTyped, Early
<1> QED
  BY <1>3, <1>4

\* And when none is.
LEMMA NoSubmitTyped ==
  ASSUME RunnerTyped, NEW left, LeftTyped(left), NoSubmit(left)
  PROVE  RunnerTyped'
BY DEF RunnerTyped, NoSubmit, LeftTyped, Early

\* What a callback leaves of the outcome has its type.
LEMMA LeftsTyped ==
  ASSUME RunnerTyped
  PROVE  /\ LeftTyped(Untouched) /\ LeftTyped(Taken)
         /\ \A shot : LeftTyped(Captured(shot))
BY DEF RunnerTyped, LeftTyped, Untouched, Taken, Captured, NoOutcome

\* An abort keeps the desk in its types.
LEMMA AbortTyped ==
  ASSUME Typed, NEW axis \in Axes, NEW n \in [Axes -> Int], NEW left, LeftTyped(left),
         Abort(axis, n, left), calibration' = calibration
  PROVE  DeskTyped'
<1>1. RunnerTyped'
  BY SubmitTyped, NoSubmitTyped, AbortReturnTyped DEF Abort, Typed, DeskTyped
<1>2. awaiting' \in BOOLEAN /\ paused' \in BOOLEAN
  BY DEF Abort, Typed, DeskTyped
<1> QED
  BY <1>1, <1>2 DEF Abort, DeskTyped, Typed, NoJob

\* So does a step that is sent.
LEMMA SubmitStepTyped ==
  ASSUME Typed, NEW q \in Seq(Steps), q # <<>>, NEW before, before \in Shots \cup {<<>>},
         NEW n \in [Axes -> Int], NEW left, LeftTyped(left),
         SubmitStep(q, before, n, left), calibration' = calibration
  PROVE  DeskTyped'
<1> DEFINE step == Head(q)
           sz == StepSize(step)
           move == [axis |-> step.axis, dir |-> step.dir, size |-> sz]
<1>1. step \in Steps /\ Tail(q) \in Seq(Steps)
  BY HeadTailProperties
<1>2. sz \in Nat \ {0} /\ step.axis \in Axes /\ move \in Moves
  <2>1. step.axis \in Axes /\ step.dir \in {1, -1} /\ step.size \in Nat
    BY <1>1 DEF Steps
  <2>2. size \in Nat \ {0}
    BY SMTT(60), SizesTyped DEF Typed, MeasuredTyped
  <2> QED
    BY <2>1, <2>2 DEF StepSize, Moves
<1>3. CASE Busy
  BY <1>2, <1>3, AbortTyped DEF SubmitStep
<1>4. CASE ~Busy
  <2>1. /\ queue' = Tail(q) /\ job' = NoJob
        /\ pending' = [kind |-> "calibration", step |-> step, size |-> sz, before |-> before]
        /\ Submit(<<move>>, left)
        /\ UNCHANGED <<awaiting, paused, said>>
    BY <1>4 DEF SubmitStep
  <2>2. <<move>> \in Seq(Moves) /\ <<move>> # <<>>
    BY <1>2
  <2>3. RunnerTyped'
    BY <2>1, <2>2, SubmitTyped DEF Typed, DeskTyped
  <2>4. pending' \in Calibrations
    BY <1>1, <1>2, <2>1 DEF Calibrations
  <2> QED
    BY <1>1, <2>1, <2>3, <2>4 DEF DeskTyped, Typed, NoJob
<1> QED
  BY <1>3, <1>4

\* And one that begins, with a view to take or without.
LEMMA BeginStepTyped ==
  ASSUME Typed, NEW q \in Seq(Steps), NEW n \in [Axes -> Int], NEW left, LeftTyped(left),
         BeginStep(q, n, left)
  PROVE  DeskTyped'
<1>1. CASE q = <<>>
  <2>1. FinishCalibration(left)
    BY <1>1 DEF BeginStep
  <2>2. RunnerTyped'
    BY <2>1, NoSubmitTyped DEF FinishCalibration, Typed, DeskTyped
  <2>3. calibration' \in [cams : SUBSET Cameras, unit : {"guide", "axis"}]
    BY <2>1 DEF FinishCalibration, Usable, Typed, RunTyped
  <2>4. awaiting' \in BOOLEAN /\ paused' \in BOOLEAN
    BY <2>1 DEF FinishCalibration, Typed, DeskTyped
  <2> QED
    BY <2>1, <2>2, <2>3, <2>4 DEF FinishCalibration, DeskTyped, NoJob
<1>2. CASE q # <<>> /\ Head(q).role = "return"
  BY <1>2, SubmitStepTyped DEF BeginStep
<1>3. CASE q # <<>> /\ Head(q).role # "return"
  <2>1. /\ queue' = q /\ pending' = NoMove /\ job' = Capture("before", NoMove)
        /\ NoSubmit(left) /\ UNCHANGED <<awaiting, paused, said, calibration>>
    BY <1>3 DEF BeginStep
  <2>2. RunnerTyped'
    BY <2>1, NoSubmitTyped DEF Typed, DeskTyped
  <2> QED
    BY <1>3, <2>1, <2>2 DEF DeskTyped, Typed, Capture, JobShape
<1> QED
  BY <1>1, <1>2, <1>3

-----------------------------------------------------------------------------
(* The view after a pulse.                                                   *)

\* The view after a pulse ends the run, repeats a probe with another size, or goes on: with
\* the rest of the queue, behind the way back and the wide groups where it closed a group.
LEMMA PollAfterCases ==
  ASSUME Typed, PollAfter
  PROVE  /\ MeasuredTyped'
         /\ LET step == job.move.step
                shot == Captured(job.shot)
            IN
             \/ Abort(step.axis, net, shot) /\ UNCHANGED <<size, calibration>>
             \/ /\ IsProbe(step) /\ size' \in MinSize .. MaxSize
                /\ BeginStep(<<step>> \o queue, net, shot)
             \/ ~ClosesGroup(step) /\ size' = size /\ BeginStep(queue, net, shot)
             \/ /\ ClosesGroup(step) /\ size' = size
                /\ \E verdicts :
                     /\ \A c \in DOMAIN verdicts :
                          verdicts[c].action = "retry" => verdicts[c].size \in MinSize .. MaxSize
                     /\ BeginStep(WayBack(step) \o WideGroups(step, verdicts) \o queue, net, shot)
<1> DEFINE step == job.move.step
           shot == Captured(job.shot)
<1>0. /\ size \in Int /\ job.move.size \in Int /\ step \in Steps /\ job.phase = "after"
      /\ MaxAttempts \in Nat \ {0} /\ attempt \in 1 .. MaxAttempts /\ failed \subseteq Cameras
      /\ first \subseteq Cameras /\ measured \in [Cameras -> SUBSET Axes] /\ size \in MinSize .. MaxSize
  <2>1. job.phase = "after" /\ job.move \in Calibrations
    BY DEF PollAfter, Typed, DeskTyped, JobShape, NoJob
  <2> QED
    BY <2>1, BoundsAssumption DEF BoundsAssumption, Calibrations, Typed, MeasuredTyped
<1>1. PICK unmatched \in SUBSET Considered(step) :
        LET newFailed == failed \cup Unmeasured(step, unmatched)
            resp == Considered(step) \ newFailed
            stops == job.shot.got = {} \/ Cardinality(newFailed) >= 2
        IN  \/ AfterAborts(step, newFailed)
            \/ /\ ~stops
               /\ \E f \in IF IsProbe(step) /\ resp # {} THEN Fractions[Seed(resp)] ELSE {25},
                     fs \in IF ClosesGroup(step) THEN Sights ELSE {[c \in Cameras |-> 25]} :
                    LET seed == IF IsProbe(step) /\ resp # {} THEN {Seed(resp)} ELSE {}
                        verdict == IF seed = {} THEN [action |-> "none", size |-> 0]
                                   ELSE DecideNext(job.move.size, f, attempt)
                    IN  \/ AfterRetries(step, newFailed, verdict)
                        \/ AfterRecords(step, newFailed, verdict, seed, fs)
  BY DEF PollAfter
<1> DEFINE newFailed == failed \cup Unmeasured(step, unmatched)
           resp == Considered(step) \ newFailed
<1>9. newFailed \subseteq Cameras
  BY <1>0 DEF Unmeasured, Considered, Steps
<1>2. CASE AfterAborts(step, newFailed)
  BY <1>0, <1>2, <1>9 DEF AfterAborts, MeasuredTyped
<1>3. CASE ~AfterAborts(step, newFailed)
  <2>1. PICK f \in IF IsProbe(step) /\ resp # {} THEN Fractions[Seed(resp)] ELSE {25},
             fs \in IF ClosesGroup(step) THEN Sights ELSE {[c \in Cameras |-> 25]} :
          LET seed == IF IsProbe(step) /\ resp # {} THEN {Seed(resp)} ELSE {}
              verdict == IF seed = {} THEN [action |-> "none", size |-> 0]
                         ELSE DecideNext(job.move.size, f, attempt)
          IN  \/ AfterRetries(step, newFailed, verdict)
              \/ AfterRecords(step, newFailed, verdict, seed, fs)
    BY <1>1, <1>3
  <2> DEFINE seed == IF IsProbe(step) /\ resp # {} THEN {Seed(resp)} ELSE {}
             verdict == IF seed = {} THEN [action |-> "none", size |-> 0]
                        ELSE DecideNext(job.move.size, f, attempt)
  <2>2. CASE AfterRetries(step, newFailed, verdict)
    <3>1. seed # {} /\ verdict = DecideNext(job.move.size, f, attempt)
      BY <2>2 DEF AfterRetries
    <3>2. IsProbe(step) /\ resp # {}
      BY <3>1
    <3>3. f \in 0 .. 100
      <4>1. Seed(resp) \in Cameras
        <5>1. resp \subseteq Cameras /\ Seed(resp) \in resp
          BY <3>2 DEF Seed, Considered, IsProbe
        <5> QED
          BY <5>1
      <4> QED
        BY <3>2, <4>1, SizesAssumption DEF SizesAssumption
    <3>4. size' \in MinSize .. MaxSize
      <4>1. \A x \in Int : Clamp(x) \in MinSize .. MaxSize
        BY SizesAssumption DEF Clamp, SizesAssumption
      <4> DEFINE sz == job.move.size
                 scaled == IF f = 0 THEN sz * 4 ELSE (sz * 25) \div f
                 raw == IF scaled > 4 * sz THEN 4 * sz
                        ELSE IF 4 * scaled < sz THEN sz \div 4 ELSE scaled
      <4>2. scaled \in Int
        BY <1>0, <3>3
      <4>3. raw \in Int
        BY <1>0, <4>2
      <4>4. verdict.action = "retry" /\ size' = verdict.size
        BY <2>2 DEF AfterRetries
      <4>5. verdict.size = Clamp(raw)
        BY <3>1, <4>4 DEF DecideNext
      <4> HIDE DEF raw
      <4> QED
        BY <4>1, <4>3, <4>4, <4>5
    <3>5. attempt' \in 1 .. MaxAttempts
      <4>1. verdict.action = "retry" /\ attempt' = attempt + 1
        BY <2>2 DEF AfterRetries
      <4>2. ~(attempt >= MaxAttempts)
        BY <3>1, <4>1 DEF DecideNext
      <4> QED
        BY <1>0, <4>1, <4>2
    <3>6. MeasuredTyped'
      BY <1>0, <1>9, <2>2, <3>4, <3>5 DEF AfterRetries, MeasuredTyped
    <3> QED
      BY <2>2, <3>2, <3>4, <3>6 DEF AfterRetries
  <2>3. CASE AfterRecords(step, newFailed, verdict, seed, fs)
    <3> DEFINE now == newFailed \cup (IF verdict.action = "bounded" THEN seed ELSE {})
    <3>3. now \subseteq Cameras
      <4>1. seed \subseteq resp /\ resp \subseteq Cameras
        BY <1>0 DEF Seed, Considered, Steps
      <4> QED
        BY <1>9, <4>1
    <3>4. first' \subseteq Cameras /\ measured' \in [Cameras -> SUBSET Axes]
      <4>1. Recorded(step, Considered(step) \ now)
        BY <2>3 DEF AfterRecords
      <4>2. Considered(step) \subseteq Cameras /\ step.axis \in Axes
        BY <1>0 DEF Considered, Steps
      <4> HIDE DEF now
      <4> QED
        BY SMTT(30), <1>0, <4>1, <4>2 DEF Recorded
    <3>5. attempt' \in 1 .. MaxAttempts /\ size' = size
      <4>1. attempt' = (IF seed = {} THEN attempt ELSE 1) /\ size' = size
        BY Zenon, <2>3 DEF AfterRecords
      <4> HIDE DEF now
      <4> QED
        BY <1>0, <4>1
    <3>6. failed' \subseteq Cameras
      <4>1. DOMAIN Judged(step, fs) \subseteq Cameras
        BY DEF Judged
      <4>2. CASE ~ClosesGroup(step)
        BY <2>3, <3>3, <4>2 DEF AfterRecords
      <4>3. CASE ClosesGroup(step)
        <5>1. failed' \subseteq now \cup DOMAIN Judged(step, fs)
          BY <2>3, <4>3 DEF AfterRecords
        <5> QED
          BY SMTT(30), <3>3, <4>1, <5>1
      <4> QED
        BY <4>2, <4>3
    <3>7. MeasuredTyped'
      BY <1>0, <3>4, <3>5, <3>6 DEF MeasuredTyped
    <3>1. CASE ~ClosesGroup(step)
      BY <2>3, <3>1, <3>7 DEF AfterRecords
    <3>2. CASE ClosesGroup(step)
      <4> DEFINE verdicts == [c \in (DOMAIN Judged(step, fs)) \ now |-> Judged(step, fs)[c]]
      <4>1. /\ size' = size
            /\ BeginStep(WayBack(step) \o WideGroups(step, verdicts) \o queue, net, shot)
        BY <2>3, <3>2 DEF AfterRecords
      <4>2. ASSUME NEW c \in DOMAIN verdicts, verdicts[c].action = "retry"
            PROVE  verdicts[c].size \in MinSize .. MaxSize
        <5>1. c \in Cameras /\ verdicts[c] = PlanFollowup(size, fs[c])
          BY <4>2 DEF Judged
        <5>2. fs[c] \in 0 .. 100
          BY <3>2, <5>1, SizesAssumption DEF Sights, SizesAssumption
        <5>3. \A x \in Int : Clamp(x) \in MinSize .. MaxSize
          BY SizesAssumption DEF Clamp, SizesAssumption
        <5> HIDE DEF verdicts
        <5> DEFINE raw == IF fs[c] = 0 THEN MaxSize ELSE (size * 25) \div fs[c]
        <5>4. raw \in Int
          <6>1. MaxSize \in Int
            BY SizesAssumption DEF SizesAssumption
          <6>2. \A g \in 0 .. 100 : g # 0 => (size * 25) \div g \in Int
            BY <1>0
          <6> QED
            BY <5>2, <6>1, <6>2
        <5>5. verdicts[c].size = Clamp(raw)
          BY <4>2, <5>1, <5>2 DEF PlanFollowup
        <5> HIDE DEF raw
        <5> QED
          BY <5>3, <5>4, <5>5
      <4> HIDE DEF verdicts
      <4> QED
        BY SMTT(30), <3>2, <3>7, <4>1, <4>2
    <3> QED
      BY <3>1, <3>2
  <2> QED
    BY <2>1, <2>2, <2>3
<1> QED
  BY <1>2, <1>3

\* What the pieces leave alone: the claim of another workflow, and a Stop that nothing was
\* submitted after.
LEMMA PieceFrame ==
  ASSUME NEW left
  PROVE  /\ \A seq : Submit(seq, left) => claim' \in {claim, "align"} /\ halted' = "no"
         /\ NoSubmit(left) => claim' = claim /\ halted' = halted
         /\ \A axis, n : Abort(axis, n, left) =>
              claim' \in {claim, "align"} /\ halted' \in {halted, "no"}
         /\ \A q, before, n : SubmitStep(q, before, n, left) =>
              claim' \in {claim, "align"} /\ halted' \in {halted, "no"}
         /\ \A q, n : BeginStep(q, n, left) =>
              claim' \in {claim, "align"} /\ halted' \in {halted, "no"}
<1>1. \A seq : Submit(seq, left) => claim' \in {claim, "align"} /\ halted' = "no"
  BY DEF Submit
<1>2. NoSubmit(left) => claim' = claim /\ halted' = halted
  BY DEF NoSubmit
<1>3. \A axis, n : Abort(axis, n, left) => claim' \in {claim, "align"} /\ halted' \in {halted, "no"}
  BY <1>1, <1>2 DEF Abort
<1>5. \A q, before, n : SubmitStep(q, before, n, left) =>
        claim' \in {claim, "align"} /\ halted' \in {halted, "no"}
  BY <1>1, <1>3 DEF SubmitStep
<1>4. \A q, n : BeginStep(q, n, left) => claim' \in {claim, "align"} /\ halted' \in {halted, "no"}
  BY <1>2, <1>5 DEF BeginStep, FinishCalibration
<1> QED
  BY <1>1, <1>2, <1>3, <1>4, <1>5

\* A step that leaves the history alone keeps its types.
LEMMA GhostKept ==
  ASSUME Typed, UNCHANGED ghostVars, claim' \in {claim, "align", "none"}
  PROVE  GhostTyped'
BY DEF Typed, GhostTyped, ghostVars

\* A view that verifies the reference leaves a reference.
LEMMA VerifiedTyped ==
  ASSUME Typed, NEW shot \in Shots, Verified(shot)
  PROVE  reference' \in References
BY DEF Typed, RunTyped, PanelTyped, Verified, Shots, References

\* Refreshing the buttons shows one of three states.
LEMMA RefreshTyped == Refresh => shown' \in {"off", "ready", "busy"}
BY DEF Refresh

\* A callback takes the job's view only when there is one.
LEMMA ShotTyped ==
  ASSUME Typed
  PROVE  /\ job.phase \in {"before", "after"} /\ job.done => job.shot \in Shots
         /\ check # NoJob /\ check.done => check.shot \in Shots
         /\ \A cams \in SUBSET Cameras : Seen(cams) \in Shots
<1>1. \A cams \in SUBSET Cameras : Seen(cams) \in Shots
  BY DEF Typed, GhostTyped, Seen, Shots
<1> QED
  BY <1>1 DEF Typed, DeskTyped, PanelTyped, JobShape, CheckShape, NoJob

\* The clicks keep the types.
LEMMA ClicksTyped ==
  ASSUME Typed, Connect \/ Disconnect \/ ClickCalibrate \/ ClickNudge \/ ClickScreenMove
                \/ ClickStop \/ ClickStopMount \/ ChangeMode
  PROVE  Typed'
<1> USE DEF Typed
<1>0. shown' \in {"off", "ready", "busy"}
  BY RefreshTyped DEF Connect, Disconnect, ClickCalibrate, ClickNudge, ClickScreenMove,
                      ClickStop, ClickStopMount, ChangeMode, panelVars, PanelTyped
<1>1. CASE Connect \/ Disconnect
  <2>1. connected' \in BOOLEAN
    BY <1>1 DEF Connect, Disconnect
  <2>2. /\ UNCHANGED <<mode, queue, pending, job, check, awaiting, paused, said, runVars, runnerVars,
                       pos, drift>>
    BY <1>1 DEF Connect, Disconnect, Event, ghostVars
  <2>3. events' = events \/ (events' = events + 1 /\ events < MaxEvents)
    BY <1>1 DEF Connect, Disconnect, Event, ghostVars
  <2>4. GhostTyped'
    BY <2>2, <2>3, BoundsAssumption DEF GhostTyped, BoundsAssumption, runnerVars
  <2> QED
    BY <1>0, <2>1, <2>2, <2>4 DEF DeskTyped, RunnerTyped, Early, PanelTyped, MeasuredTyped, RunTyped, GhostTyped,
                            runVars, runnerVars
<1>2. CASE ClickCalibrate
  <2>1. /\ primitive' \in {"guide", "axis"} /\ sized' \in BOOLEAN
        /\ net' \in [Axes -> Int] /\ pos' \in [Axes -> Int]
    BY <1>2 DEF ClickCalibrate, Primitives
  <2>2. reference' \in References
    <3>1. Rebased \in References
      <4> DEFINE R == [pos : [Axes -> Int], drift : Int, mode : {"astronomical", "terrestrial"}]
      <4>1. CASE reference = NoReference
        BY <4>1 DEF Rebased, References
      <4>2. CASE reference # NoReference
        <5>1. reference \in R /\ pos \in [Axes -> Int] /\ drift \in Int
          BY <4>2 DEF RunTyped, References, GhostTyped
        <5>2. [a \in Axes |-> reference.pos[a] - pos[a]] \in [Axes -> Int]
          BY <5>1
        <5>3. Rebased = [pos |-> [a \in Axes |-> reference.pos[a] - pos[a]],
                         drift |-> reference.drift - drift, mode |-> reference.mode]
          BY <4>2, <5>1 DEF Rebased
        <5> QED
          BY <5>1, <5>2, <5>3 DEF References
      <4> QED
        BY <4>1, <4>2
    <3> QED
      BY <1>2, <3>1 DEF ClickCalibrate
  <2>3. RunTyped'
    BY <2>1, <2>2 DEF RunTyped
  <2>4. MeasuredTyped'
    <3>1. FirstSize \in MinSize .. MaxSize /\ 1 \in 1 .. MaxAttempts
      BY SizesTyped, BoundsAssumption DEF BoundsAssumption
    <3> QED
      BY <1>2, <3>1 DEF ClickCalibrate, MeasuredTyped
  <2>5. DeskTyped'
    <3>1. queue' \in Seq(Steps)
      BY <1>2, CalibrationTyped DEF ClickCalibrate
    <3>2. JobShape(job')
      BY <1>2 DEF ClickCalibrate, Capture, JobShape
    <3>3. RunnerTyped'
      BY <1>2 DEF ClickCalibrate, RunnerTyped, Early, DeskTyped
    <3> QED
      BY <1>2, <3>1, <3>2, <3>3 DEF ClickCalibrate, DeskTyped, CalibrationSteps, Group
  <2>6. PanelTyped'
    BY <1>0, <1>2 DEF ClickCalibrate, PanelTyped
  <2>7. GhostTyped'
    <3>1. drift' = 0 /\ claim' = claim /\ events' = events + 1 /\ events < MaxEvents
      BY <1>2 DEF ClickCalibrate, Click, Event
    <3> QED
      BY <2>1, <3>1, BoundsAssumption DEF GhostTyped, BoundsAssumption
  <2> QED
    BY <2>3, <2>4, <2>5, <2>6, <2>7
<1>3. CASE ClickNudge
  <2>1. PICK p \in Primitives, cam \in Cameras, move \in Nudges, reuse \in BOOLEAN :
          /\ primitive' = p
          /\ pending' = [kind |-> "nudge", move |-> move,
                         before |-> IF reuse THEN <<reference>> ELSE <<>>]
          /\ Submit(<<move>>, Untouched)
    BY <1>3 DEF ClickNudge
  <2>2. move \in Moves /\ <<move>> \in Seq(Moves) /\ <<move>> # <<>>
    BY SizesAssumption DEF SizesAssumption
  <2>3. RunnerTyped'
    BY <2>1, <2>2, SubmitTyped, LeftsTyped DEF DeskTyped
  <2>4. pending' \in NudgeMoves
    BY <2>1, <2>2 DEF NudgeMoves, RunTyped
  <2>5. claim' \in {claim, "align"}
    BY <2>1, PieceFrame
  <2>6. primitive' \in {"guide", "axis"}
    BY <2>1 DEF Primitives
  <2>7. /\ UNCHANGED <<connected, mode, queue, job, awaiting, sized, size, attempt, net, failed, first,
                       measured, calibration, reference, pos, drift>>
        /\ check' = NoJob /\ paused' = TRUE /\ events' = events + 1 /\ events < MaxEvents
    BY <1>3 DEF ClickNudge, Click, Event
  <2>8. GhostTyped'
    BY <2>5, <2>7, BoundsAssumption DEF GhostTyped, BoundsAssumption
  <2> QED
    BY <1>0, <2>3, <2>4, <2>6, <2>7, <2>8 DEF DeskTyped, PanelTyped, MeasuredTyped, RunTyped
<1>4. CASE ClickScreenMove
  <2>1. PICK seq \in ScreenMoves : Submit(seq, Untouched)
    BY <1>4 DEF ClickScreenMove
  <2>2. seq \in Seq(Moves) /\ seq # <<>>
    BY SizesAssumption DEF SizesAssumption
  <2>3. RunnerTyped'
    BY <2>1, <2>2, SubmitTyped, LeftsTyped DEF DeskTyped
  <2>5. claim' \in {claim, "align"}
    BY <2>1, PieceFrame
  <2>6. primitive' \in {"guide", "axis"}
    BY <1>4 DEF ClickScreenMove, DeskTyped
  <2>7. /\ UNCHANGED <<connected, mode, queue, job, awaiting, sized, size, attempt, net, failed, first,
                       measured, calibration, reference, pos, drift>>
        /\ pending' = [kind |-> "screen"] /\ CancelCheck
        /\ events' = events + 1 /\ events < MaxEvents
    BY <1>4 DEF ClickScreenMove, Click, Event
  <2>8. GhostTyped'
    BY <2>5, <2>7, BoundsAssumption DEF GhostTyped, BoundsAssumption
  <2>9. check' = NoJob /\ paused' \in BOOLEAN
    BY <2>7 DEF CancelCheck, DeskTyped
  <2> QED
    BY <1>0, <2>3, <2>6, <2>7, <2>8, <2>9 DEF DeskTyped, PanelTyped, MeasuredTyped, RunTyped
<1>5. CASE ClickStop \/ ChangeMode
  <2>1. /\ UNCHANGED <<connected, runVars, pos, drift, worker, outcome, commanded, claim>>
        /\ events' = events + 1 /\ events < MaxEvents
        /\ halted' \in {halted, "panel"} /\ latch' \in BOOLEAN
        /\ mode' \in {"astronomical", "terrestrial"}
    BY <1>5 DEF ClickStop, ChangeMode, StopAll, Event, runnerVars, DeskTyped, RunnerTyped, PanelTyped
  <2>2. /\ queue' \in {queue, <<>>} /\ pending' \in {pending, NoMove}
        /\ job' = NoJob \/ UNCHANGED <<queue, job>>
        /\ check' \in {check, NoJob} /\ awaiting' \in BOOLEAN /\ paused' \in BOOLEAN
    BY <1>5 DEF ClickStop, ChangeMode, StopAll, CancelActivity, CancelCheck, DeskTyped
  <2>3. GhostTyped'
    BY <2>1, BoundsAssumption DEF GhostTyped, BoundsAssumption
  <2>4. RunnerTyped'
    BY <2>1 DEF RunnerTyped, Early, DeskTyped
  <2>5. DeskTyped'
    <3>1. queue' \in Seq(Steps)
      <4>1. queue \in Seq(Steps) /\ <<>> \in Seq(Steps)
        BY DEF DeskTyped
      <4> QED
        BY <2>2, <4>1
    <3>3. /\ job' = NoJob \/ JobShape(job')
          /\ job'.phase = "before" => queue' # <<>>
      BY <2>2 DEF DeskTyped, JobShape, NoJob
    <3>2. pending' \in {NoMove, [kind |-> "screen"]} \cup Calibrations \cup NudgeMoves
      BY <2>2 DEF DeskTyped
    <3> QED
      BY <2>1, <2>2, <2>4, <3>1, <3>2, <3>3 DEF DeskTyped, runVars
  <2> QED
    BY <1>0, <2>1, <2>2, <2>3, <2>5 DEF PanelTyped, MeasuredTyped, RunTyped, runVars
<1>6. CASE ClickStopMount
  <2>1. /\ UNCHANGED <<panelVars, runVars, worker, outcome, commanded, claim, pos, drift>>
        /\ halted' = "mount" /\ latch' = TRUE /\ events' = events + 1 /\ events < MaxEvents
    BY <1>6 DEF ClickStopMount, Event
  <2>2. GhostTyped'
    BY <2>1, BoundsAssumption DEF GhostTyped, BoundsAssumption
  <2> QED
    BY <2>1, <2>2 DEF DeskTyped, RunnerTyped, Early, PanelTyped, MeasuredTyped, RunTyped, panelVars, runVars
<1> QED
  BY <1>1, <1>2, <1>3, <1>4, <1>5, <1>6

\* A view that has been taken keeps the types.
LEMMA CapturesTyped ==
  ASSUME Typed, CaptureEnds \/ CheckEnds
  PROVE  Typed'
<1> USE DEF Typed
<1>1. \A cams \in Views, error \in BOOLEAN : Seen(IF error THEN {} ELSE cams) \in Shots
  BY ShotTyped, SizesAssumption DEF SizesAssumption
<1>2. CASE CaptureEnds
  <2>1. job # NoJob /\ ~job.done
    BY <1>2 DEF CaptureEnds
  <2>2. JobShape(job')
    BY <1>1, <1>2, <2>1 DEF CaptureEnds, DeskTyped, JobShape
  <2> QED
    BY <1>2, <2>2 DEF CaptureEnds, DeskTyped, RunnerTyped, Early, PanelTyped, MeasuredTyped, RunTyped,
                      GhostTyped, runVars, runnerVars, ghostVars
<1>3. CASE CheckEnds
  <2>1. check # NoJob /\ ~check.done
    BY <1>3 DEF CheckEnds
  <2>2. CheckShape(check')
    BY <1>1, <1>3, <2>1 DEF CheckEnds, PanelTyped, CheckShape
  <2> QED
    BY <1>3, <2>2 DEF CheckEnds, DeskTyped, RunnerTyped, Early, PanelTyped, MeasuredTyped, RunTyped,
                      GhostTyped, runVars, runnerVars, ghostVars
<1> QED
  BY <1>2, <1>3

\* The polls keep the types.
LEMMA PollsTyped ==
  ASSUME Typed, Poll
  PROVE  Typed'
<1> USE DEF Typed
<1>0. /\ shown' \in {"off", "ready", "busy"} /\ UNCHANGED <<connected, mode, ghostVars, primitive, sized>>
  BY RefreshTyped DEF Poll, PollCheck, PollCaptureError, PollBefore, PollAfter, PollPulse, PollNudge,
                      PollScreenMove, PollReturn, PollIdle, runVars
<1>1. CASE PollCheck
  <2>1. check.shot \in Shots /\ reference' \in References
    BY <1>1, ShotTyped, VerifiedTyped DEF PollCheck
  <2>2. NoSubmit(Captured(check.shot)) /\ LeftTyped(Captured(check.shot))
    BY <1>1, LeftsTyped DEF PollCheck, DeskTyped
  <2>3. RunnerTyped' /\ claim' = claim
    BY <2>2, NoSubmitTyped, PieceFrame DEF DeskTyped
  <2>4. GhostTyped'
    BY <1>0, <2>3 DEF GhostTyped, ghostVars
  <2> QED
    BY <1>0, <1>1, <2>1, <2>3, <2>4 DEF PollCheck, DeskTyped, PanelTyped, MeasuredTyped, RunTyped
<1>2. CASE PollCaptureError \/ PollIdle
  <2>1. /\ queue' \in {queue, <<>>} /\ pending' \in {pending, NoMove}
        /\ job' = NoJob \/ UNCHANGED <<queue, job>>
        /\ check' \in {check, NoJob} /\ awaiting' \in BOOLEAN /\ paused' \in BOOLEAN
        /\ UNCHANGED <<runVars, runnerVars>>
    BY <1>2 DEF PollCaptureError, PollIdle, CancelActivity, DeskTyped
  <2>2. RunnerTyped'
    BY <2>1 DEF RunnerTyped, Early, DeskTyped, runnerVars
  <2>3. DeskTyped'
    <3>1. queue' \in Seq(Steps)
      <4>1. queue \in Seq(Steps) /\ <<>> \in Seq(Steps)
        BY DEF DeskTyped
      <4> QED
        BY <2>1, <4>1
    <3>3. /\ job' = NoJob \/ JobShape(job')
          /\ job'.phase = "before" => queue' # <<>>
      BY <2>1 DEF DeskTyped, JobShape, NoJob
    <3>2. pending' \in {NoMove, [kind |-> "screen"]} \cup Calibrations \cup NudgeMoves
      BY <2>1 DEF DeskTyped
    <3> QED
      BY <2>1, <2>2, <3>1, <3>2, <3>3 DEF DeskTyped, runVars
  <2>4. PanelTyped'
    BY <1>0, <2>1 DEF PanelTyped
  <2> QED
    BY <1>0, <2>1, <2>3, <2>4 DEF MeasuredTyped, RunTyped, GhostTyped, runVars, runnerVars, ghostVars
<1>3. CASE PollBefore
  <2> DEFINE left == Captured(job.shot)
  <2>1. job.shot \in Shots /\ reference' \in References /\ LeftTyped(left)
    BY <1>3, ShotTyped, VerifiedTyped, LeftsTyped DEF PollBefore, DeskTyped
  <2>2. /\ IF job.shot.got = {} THEN Abort(Head(queue).axis, net, left)
           ELSE SubmitStep(queue, job.shot, net, left)
        /\ UNCHANGED <<check, net, size, attempt, failed, first, measured, calibration>>
    BY <1>3 DEF PollBefore
  <2>3. net \in [Axes -> Int] /\ queue \in Seq(Steps) /\ queue # <<>>
    BY <1>3 DEF RunTyped, DeskTyped, PollBefore
  <2>4. Head(queue).axis \in Axes
    <3>1. Head(queue) \in Steps
      BY <2>3, HeadTailProperties
    <3> QED
      BY <3>1 DEF Steps
  <2> HIDE DEF left
  <2>5. DeskTyped' /\ claim' \in {claim, "align"}
    <3>1. CASE Abort(Head(queue).axis, net, left)
      <4>1. DeskTyped'
        BY <2>1, <2>2, <2>3, <2>4, <3>1, AbortTyped
      <4> QED
        BY <3>1, <4>1, PieceFrame
    <3>2. CASE SubmitStep(queue, job.shot, net, left)
      <4>1. DeskTyped'
        BY <2>1, <2>2, <2>3, <3>2, SubmitStepTyped
      <4> QED
        BY <3>2, <4>1, PieceFrame
    <3> QED
      BY <2>2, <3>1, <3>2
  <2>6. GhostTyped'
    BY <1>0, <2>5, GhostKept
  <2> QED
    BY <1>0, <2>1, <2>2, <2>5, <2>6 DEF PanelTyped, MeasuredTyped, RunTyped
<1>4. CASE PollAfter
  <2> DEFINE step == job.move.step
             left == Captured(job.shot)
  <2>1. job.shot \in Shots /\ reference' \in References /\ LeftTyped(left) /\ step \in Steps
    BY <1>4, ShotTyped, VerifiedTyped, LeftsTyped DEF PollAfter, DeskTyped, JobShape, NoJob, Calibrations
  <2>2. UNCHANGED <<check, net>>
    BY <1>4 DEF PollAfter
  <2>3. net \in [Axes -> Int] /\ queue \in Seq(Steps) /\ step.axis \in Axes
    BY <2>1 DEF RunTyped, DeskTyped, Steps
  <2>5. DeskTyped' /\ claim' \in {claim, "align"}
    <3>1. \/ Abort(step.axis, net, left) /\ calibration' = calibration
          \/ \E q \in Seq(Steps) : BeginStep(q, net, left)
      <4>1. <<step>> \o queue \in Seq(Steps)
        BY <2>1, <2>3, ConcatProperties
      <4>2. \/ Abort(step.axis, net, left) /\ calibration' = calibration
            \/ BeginStep(<<step>> \o queue, net, left)
            \/ BeginStep(queue, net, left)
            \/ \E verdicts :
                 /\ \A c \in DOMAIN verdicts :
                      verdicts[c].action = "retry" => verdicts[c].size \in MinSize .. MaxSize
                 /\ BeginStep(WayBack(step) \o WideGroups(step, verdicts) \o queue, net, left)
        BY <1>4, PollAfterCases
      <4> HIDE DEF left, step
      <4>3. ASSUME NEW verdicts,
                   \A c \in DOMAIN verdicts :
                     verdicts[c].action = "retry" => verdicts[c].size \in MinSize .. MaxSize
            PROVE  WayBack(step) \o WideGroups(step, verdicts) \o queue \in Seq(Steps)
        BY <2>1, <4>3, FollowupsTyped
      <4> QED
        BY <2>3, <4>1, <4>2, <4>3
    <3> HIDE DEF left, step
    <3>2. CASE Abort(step.axis, net, left) /\ calibration' = calibration
      BY <2>1, <2>3, <3>2, AbortTyped, PieceFrame
    <3>3. ASSUME NEW q \in Seq(Steps), BeginStep(q, net, left)
          PROVE  DeskTyped' /\ claim' \in {claim, "align"}
      BY <2>1, <2>3, <3>3, BeginStepTyped, PieceFrame
    <3> QED
      BY <3>1, <3>2, <3>3
  <2>6. GhostTyped'
    BY <1>0, <2>5, GhostKept
  <2>7. MeasuredTyped'
    BY <1>4, PollAfterCases
  <2> QED
    BY <1>0, <2>1, <2>2, <2>5, <2>6, <2>7 DEF PanelTyped, RunTyped
<1>5. CASE PollPulse
  <2> DEFINE step == pending.step
             done == Accounted(step, pending.size)
             sent == Accounted(step, outcome.sent)
  <2>1. pending \in Calibrations /\ outcome \in Results
    BY <1>5 DEF PollPulse, Take, DeskTyped, RunnerTyped, NoMove, NudgeMoves
  <2>2. step \in Steps /\ pending.size \in Int /\ outcome.sent \in Int /\ net \in [Axes -> Int]
    BY <2>1 DEF Calibrations, Results, RunTyped
  <2>3. done \in [Axes -> Int] /\ sent \in [Axes -> Int] /\ step.axis \in Axes
    BY <2>2 DEF Accounted, Steps
  <2>4. LeftTyped(Taken) /\ queue \in Seq(Steps)
    BY LeftsTyped DEF DeskTyped
  <2>5. \/ /\ net' \in {done, sent}
           /\ Abort(step.axis, net', Taken) /\ calibration' = calibration
        \/ net' = done /\ BeginStep(queue, done, Taken)
        \/ /\ net' = done
           /\ job' = Capture("after", pending) /\ pending' = NoMove /\ NoSubmit(Taken)
           /\ UNCHANGED <<queue, awaiting, paused, said, calibration>>
    BY <1>5 DEF PollPulse
  <2> HIDE DEF done, sent, step
  <2>6. net' \in [Axes -> Int]
    BY <2>3, <2>5
  <2>7. DeskTyped' /\ claim' \in {claim, "align"}
    <3>1. CASE Abort(step.axis, net', Taken) /\ calibration' = calibration
      BY <2>3, <2>4, <2>6, <3>1, AbortTyped, PieceFrame
    <3>2. CASE BeginStep(queue, done, Taken)
      BY <2>3, <2>4, <3>2, BeginStepTyped, PieceFrame
    <3>3. CASE /\ job' = Capture("after", pending) /\ pending' = NoMove /\ NoSubmit(Taken)
               /\ UNCHANGED <<queue, awaiting, paused, said, calibration>>
      <4>1. RunnerTyped' /\ claim' = claim
        BY <2>4, <3>3, NoSubmitTyped, PieceFrame DEF DeskTyped
      <4>2. JobShape(job') /\ job'.phase # "before"
        BY <2>1, <3>3 DEF Capture, JobShape
      <4> QED
        BY <3>3, <4>1, <4>2 DEF DeskTyped
    <3> QED
      BY <2>5, <3>1, <3>2, <3>3
  <2>8. GhostTyped'
    BY <1>0, <2>7, GhostKept
  <2> QED
    BY <1>0, <1>5, <2>6, <2>7, <2>8 DEF PollPulse, PanelTyped, MeasuredTyped, RunTyped
<1>6. CASE PollNudge \/ PollScreenMove \/ PollReturn
  <2>1. NoSubmit(Taken) /\ LeftTyped(Taken)
    BY <1>6, LeftsTyped DEF PollNudge, PollScreenMove, PollReturn, DeskTyped
  <2>2. RunnerTyped' /\ claim' = claim
    BY <2>1, NoSubmitTyped, PieceFrame DEF DeskTyped
  <2>3. /\ UNCHANGED <<queue, job, runVars>> /\ pending' \in {pending, NoMove}
        /\ awaiting' \in BOOLEAN /\ paused' \in BOOLEAN
    BY <1>6 DEF PollNudge, PollScreenMove, PollReturn, DeskTyped
  <2>4. check' = NoJob \/ CheckShape(check')
    <3>1. CASE PollNudge
      <4>1. pending \in NudgeMoves
        BY <3>1 DEF PollNudge, Take, DeskTyped, NoMove, Calibrations
      <4>2. CheckShape(Capture("check", pending))
        BY <4>1 DEF Capture, CheckShape
      <4>3. check' = Capture("check", pending) \/ check' = check
        BY <3>1 DEF PollNudge
      <4>4. CASE check' = check
        BY <4>4 DEF PanelTyped, CheckShape
      <4> QED
        BY <4>2, <4>3, <4>4
    <3>2. CASE check' = check
      BY <3>2 DEF PanelTyped, CheckShape
    <3> QED
      BY <1>6, <3>1, <3>2 DEF PollScreenMove, PollReturn
  <2>5. DeskTyped'
    <3>1. pending' \in {NoMove, [kind |-> "screen"]} \cup Calibrations \cup NudgeMoves
      BY <2>3 DEF DeskTyped
    <3>2. job' = NoJob \/ JobShape(job')
      BY <2>3 DEF DeskTyped, JobShape
    <3> QED
      BY <2>2, <2>3, <3>1, <3>2 DEF DeskTyped, runVars
  <2>6. GhostTyped'
    BY <1>0, <2>2, GhostKept
  <2> QED
    BY <1>0, <2>3, <2>4, <2>5, <2>6 DEF PanelTyped, MeasuredTyped, RunTyped, runVars
<1> QED
  BY <1>1, <1>2, <1>3, <1>4, <1>5, <1>6 DEF Poll

\* The guide milliseconds of some of a move's pulses are none, or some.
LEMMA SentTyped ==
  ASSUME NEW total \in Nat \ {0}, NEW k \in Nat
  PROVE  Sent(total, k) \in Nat
<1> DEFINE count == Ceil(total, GuideMax)
           part == total \div count
           long == total % count
<1>1. count \in Nat \ {0}
  <2>1. GuideMax \in Nat \ {0}
    BY SizesTyped
  <2>2. count \in 1 .. total
    BY <2>1, CeilBounds
  <2> QED
    BY <2>2
<1>2. part \in Nat /\ long \in Nat
  <2>1. total \in Nat
    OBVIOUS
  <2> HIDE DEF count
  <2>2. total \div count \in Nat /\ total % count \in 0 .. count - 1
    BY <1>1, <2>1, Division
  <2> QED
    BY <1>1, <2>2
<1>3. Sent(total, k) = k * part + (IF k < long THEN k ELSE long)
  BY DEF Sent
<1> HIDE DEF part, long
<1>4. k * part \in Nat
  BY <1>2
<1> QED
  BY <1>2, <1>3, <1>4

\* What is left of a move to send is a natural number.
LEMMA SentOfMove ==
  ASSUME NEW m \in Moves, NEW k \in 0 .. (IF primitive = "guide" THEN Ceil(m.size, GuideMax) - 1 ELSE 0)
  PROVE  Sent(m.size, k) \in Nat
<1>1. m.size \in Nat \ {0} /\ GuideMax \in Nat \ {0}
  BY SizesTyped DEF Moves
<1>2. \A a \in Nat \ {0}, b \in Nat \ {0} : Ceil(a, b) \in Nat
  <2> SUFFICES ASSUME NEW a \in Nat \ {0}, NEW b \in Nat \ {0} PROVE Ceil(a, b) \in Nat
    OBVIOUS
  <2>1. Ceil(a, b) \in 1 .. a
    BY CeilBounds
  <2> QED
    BY <2>1
<1>3. Ceil(m.size, GuideMax) \in Nat
  BY <1>1, <1>2
<1>4. k \in Nat
  BY <1>3
<1> QED
  BY <1>1, <1>4, SentTyped

\* The worker at a move of its sequence.
LEMMA CurrentTyped ==
  ASSUME RunnerTyped, worker.at \in {"sending", "moving"}
  PROVE  /\ worker \in [at : {"sending", "moving"}, seq : Seq(Moves), i : Nat \ {0}]
         /\ worker.i \in 1 .. Len(worker.seq) /\ Len(worker.seq) \in Nat /\ Current \in Moves
<1>1. worker \in [at : {"sending", "moving"}, seq : Seq(Moves), i : Nat \ {0}]
  BY DEF RunnerTyped, Workers, NoWork
<1>2. worker.i \in 1 .. Len(worker.seq) /\ Len(worker.seq) \in Nat
  BY <1>1 DEF RunnerTyped, Early
<1>3. worker.seq[worker.i] \in Moves
  BY <1>1, <1>2
<1> QED
  BY <1>1, <1>2, <1>3 DEF Current

\* The worker keeps the types.
LEMMA WorkersTyped ==
  ASSUME Typed, Worker
  PROVE  Typed'
<1> USE DEF Typed
<1>0. /\ UNCHANGED <<panelVars, runVars, commanded, latch, halted, events>> \/ WorkerFails
      /\ UNCHANGED <<panelVars, runVars, commanded, latch, halted>>
      /\ RunnerTyped
  BY DEF Worker, WorkerIssues, WorkerMoves, WorkerRefuses, WorkerFails, WorkerReleases,
         WorkerPublishes, ghostVars, DeskTyped
<1>1. RunnerTyped' /\ GhostTyped'
  <2>1. CASE WorkerIssues \/ WorkerRefuses
    <3>1. worker \in [at : {"sending", "moving"}, seq : Seq(Moves), i : Nat \ {0}]
          /\ worker.i <= Len(worker.seq)
      BY <1>0, <2>1, CurrentTyped DEF WorkerIssues, WorkerRefuses
    <3>2. worker' \in Workers /\ (Early' => worker'.i <= Len(worker'.seq))
      <4>1. CASE WorkerIssues
        BY <3>1, <4>1 DEF WorkerIssues, Workers, Early
      <4>2. CASE WorkerRefuses
        BY <4>2 DEF WorkerRefuses, Workers, Early, Failure, Results
      <4> QED
        BY <2>1, <4>1, <4>2
    <3>3. UNCHANGED <<outcome, claim, ghostVars>>
      BY <2>1 DEF WorkerIssues, WorkerRefuses
    <3> QED
      BY <1>0, <3>2, <3>3 DEF RunnerTyped, GhostTyped, ghostVars
  <2>2. CASE WorkerMoves
    <3>1. /\ worker \in [at : {"sending", "moving"}, seq : Seq(Moves), i : Nat \ {0}]
          /\ worker.i \in 1 .. Len(worker.seq) /\ Len(worker.seq) \in Nat /\ Current \in Moves
      BY <1>0, <2>2, CurrentTyped DEF WorkerMoves
    <3>2. worker' \in Workers /\ (Early' => worker'.i <= Len(worker'.seq))
      <4>1. CASE worker.i < Len(worker.seq)
        <5>1. worker' = [at |-> "sending", seq |-> worker.seq, i |-> worker.i + 1]
          BY <2>2, <3>1, <4>1 DEF WorkerMoves
        <5>2. worker.i + 1 \in Nat \ {0} /\ worker.i + 1 <= Len(worker.seq) /\ worker.seq \in Seq(Moves)
          BY <3>1, <4>1
        <5> QED
          BY <5>1, <5>2 DEF Workers, Early
      <4>2. CASE ~(worker.i < Len(worker.seq))
        BY <2>2, <4>2 DEF WorkerMoves, Workers, Early, Success, Results
      <4> QED
        BY <4>1, <4>2
    <3>3. UNCHANGED <<outcome, claim, drift, events>>
      BY <2>2 DEF WorkerMoves
    <3>4. pos' \in [Axes -> Int]
      <4>1. pos \in [Axes -> Int] /\ Current.axis \in Axes /\ Current.dir * Current.size \in Int
        BY <3>1 DEF GhostTyped, Moves
      <4>2. pos' = [pos EXCEPT ![Current.axis] = @ + Current.dir * Current.size]
        BY <2>2 DEF WorkerMoves
      <4> QED
        BY <4>1, <4>2
    <3> QED
      BY <1>0, <3>2, <3>3, <3>4 DEF RunnerTyped, GhostTyped
  <2>3. CASE WorkerFails
    <3>1. Current \in Moves
      BY <1>0, <2>3, CurrentTyped DEF WorkerFails
    <3>2. PICK k \in 0 .. (IF primitive = "guide" THEN Ceil(Current.size, GuideMax) - 1 ELSE 0) :
            /\ pos' = [pos EXCEPT ![Current.axis] = @ + Current.dir * Sent(Current.size, k)]
            /\ worker' = [at |-> "ending", result |-> Failure(Sent(Current.size, k))]
      BY <2>3 DEF WorkerFails
    <3>3. Sent(Current.size, k) \in Nat
      BY <3>1, SentOfMove
    <3>4. worker' \in Workers /\ (Early' => worker'.i <= Len(worker'.seq))
      BY <3>2, <3>3 DEF Workers, Early, Failure, Results
    <3>5. pos' \in [Axes -> Int]
      <4>1. pos \in [Axes -> Int] /\ Current.axis \in Axes /\ Current.dir * Sent(Current.size, k) \in Int
        BY <3>1, <3>3 DEF GhostTyped, Moves
      <4> QED
        BY <3>2, <4>1
    <3>6. /\ UNCHANGED <<outcome, claim>>
          /\ \/ UNCHANGED <<drift, events>>
             \/ drift' = drift + 1 /\ events' = events + 1 /\ events < MaxEvents
      BY <2>3 DEF WorkerFails, Event
    <3>7. GhostTyped'
      BY <3>5, <3>6, BoundsAssumption DEF GhostTyped, BoundsAssumption
    <3> QED
      BY <1>0, <3>4, <3>6, <3>7 DEF RunnerTyped
  <2>4. CASE WorkerReleases \/ WorkerPublishes
    <3>1. worker \in [at : {"ending", "released"}, result : Results]
      BY <1>0, <2>4 DEF WorkerReleases, WorkerPublishes, RunnerTyped, Workers, NoWork
    <3>2. worker' \in Workers /\ (Early' => worker'.i <= Len(worker'.seq))
      BY <2>4, <3>1 DEF WorkerReleases, WorkerPublishes, Workers, Early, NoWork
    <3>3. outcome' \in Results \cup {NoOutcome} /\ claim' \in {claim, "none"} /\ UNCHANGED ghostVars
      BY <1>0, <2>4, <3>1 DEF WorkerReleases, WorkerPublishes, RunnerTyped
    <3>4. GhostTyped'
      BY <3>3, GhostKept
    <3> QED
      BY <1>0, <3>2, <3>3, <3>4 DEF RunnerTyped
  <2> QED
    BY <2>1, <2>2, <2>3, <2>4 DEF Worker
<1>2. DeskTyped'
  BY <1>0, <1>1 DEF DeskTyped, panelVars, runVars
<1> QED
  BY <1>0, <1>1, <1>2 DEF PanelTyped, MeasuredTyped, RunTyped, panelVars, runVars

\* The other claimants of the mount keep the types.
LEMMA OthersTyped ==
  ASSUME Typed, OtherClaims \/ OtherReleases \/ UNCHANGED vars
  PROVE  Typed'
<1> USE DEF Typed
<1>1. /\ UNCHANGED <<panelVars, runVars, worker, outcome, commanded, halted, pos>>
      /\ latch' \in BOOLEAN /\ claim' \in {"none", "align", "other"}
  BY DEF OtherClaims, OtherReleases, vars, runnerVars, ghostVars, DeskTyped, RunnerTyped
<1>2. GhostTyped'
  BY BoundsAssumption DEF GhostTyped, BoundsAssumption, OtherClaims, OtherReleases, vars, runnerVars,
                          ghostVars, Event
<1>3. DeskTyped'
  BY <1>1 DEF DeskTyped, RunnerTyped, Early, panelVars, runVars
<1> QED
  BY <1>1, <1>2, <1>3 DEF PanelTyped, MeasuredTyped, RunTyped, panelVars, runVars

\* The panel starts in its types.
LEMMA InitTyped == Init => Typed
<1> SUFFICES ASSUME Init PROVE Typed
  OBVIOUS
<1>1. DeskTyped
  <2>1. RunnerTyped
    BY DEF Init, RunnerTyped, Workers, Early, NoWork
  <2>2. calibration \in [cams : SUBSET Cameras, unit : {"guide", "axis"}]
    BY DEF Init
  <2>3. queue \in Seq(Steps)
    BY DEF Init
  <2> QED
    BY <2>1, <2>2, <2>3 DEF Init, DeskTyped, NoJob
<1>2. PanelTyped /\ RunTyped
  <2>1. net \in [Axes -> Int]
    BY DEF Init
  <2> QED
    BY <2>1, BoundsAssumption DEF BoundsAssumption, Init, PanelTyped, RunTyped, References
<1>3. MeasuredTyped
  <2>1. FirstSize \in MinSize .. MaxSize /\ 1 \in 1 .. MaxAttempts
    BY SizesTyped, BoundsAssumption DEF BoundsAssumption
  <2> QED
    BY <2>1 DEF Init, MeasuredTyped
<1>4. GhostTyped
  BY BoundsAssumption DEF BoundsAssumption, Init, GhostTyped
<1> QED
  BY <1>1, <1>2, <1>3, <1>4 DEF Typed

\* Typed is inductive, and holds throughout.
LEMMA AlwaysTyped == Spec => []Typed
<1>1. ASSUME Typed, [Next]_vars PROVE Typed'
  BY <1>1, ClicksTyped, CapturesTyped, PollsTyped, WorkersTyped, OthersTyped DEF Next
<1> QED
  BY InitTyped, <1>1, PTL DEF Spec

\* The panel's run, its captures, the runner's worker and its results have the shapes the
\* callbacks take for granted, and every size asked of the mount lies within the sizing's
\* limits, whatever the cameras measured (movement_sizing.py, mount_test_move_panel.py).
THEOREM TypeCorrect == Spec => []TypeOK
BY AlwaysTyped, TypedImplies, PTL

-----------------------------------------------------------------------------
(* Nothing after Stop.                                                       *)

\* A Stop leaves nothing of a run behind: no queue, no pending move and no capture a later
\* poll could carry on with.
StopEndsRun == halted = "panel" => ~Running

\* A step that is not the operator's hands a move over only for a run.
LEMMA SubmitsForRun ==
  ASSUME Typed, Next, events' = events, Submits
  PROVE  Running
<1>1. CASE Connect \/ ClickCalibrate \/ CaptureEnds \/ CheckEnds \/ PollCheck \/ PollCaptureError
           \/ PollNudge \/ PollScreenMove \/ PollReturn \/ PollIdle \/ OtherClaims \/ OtherReleases
  BY <1>1 DEF Connect, ClickCalibrate, CaptureEnds, CheckEnds, PollCheck, PollCaptureError,
              PollNudge, PollScreenMove, PollReturn, PollIdle, OtherClaims, OtherReleases,
              NoSubmit, runnerVars, Submits, Busy
<1>2. CASE Worker
  BY <1>2 DEF Worker, WorkerIssues, WorkerMoves, WorkerRefuses, WorkerFails, WorkerReleases,
              WorkerPublishes, Submits, Busy
<1>3. CASE PollBefore \/ PollAfter \/ PollPulse
  BY <1>3 DEF PollBefore, PollAfter, PollPulse, Take, Running, NoJob, NoMove
<1>4. ~(Disconnect \/ ClickNudge \/ ClickScreenMove \/ ClickStop \/ ClickStopMount \/ ChangeMode)
  <2>1. ~Event
    BY DEF Event, Typed, GhostTyped
  <2> QED
    BY <2>1 DEF Disconnect, ClickNudge, ClickScreenMove, ClickStop, ClickStopMount, ChangeMode, Click
<1> QED
  BY <1>1, <1>2, <1>3, <1>4 DEF Next, Poll

\* A Stop leaves no run behind, after every step.
LEMMA StopEndsRunKept ==
  ASSUME Typed, StopEndsRun, [Next]_vars
  PROVE  StopEndsRun'
<1>1. CASE ClickCalibrate \/ ClickNudge \/ ClickScreenMove \/ ClickStopMount
  <2>1. halted' # "panel"
    BY <1>1, PieceFrame DEF ClickCalibrate, ClickNudge, ClickScreenMove, ClickStopMount
  <2> QED
    BY <2>1 DEF StopEndsRun
<1>2. CASE ClickStop \/ ChangeMode
  BY <1>2 DEF StopEndsRun, ClickStop, ChangeMode, StopAll, CancelActivity, Running, runnerVars
<1>3. CASE CaptureEnds \/ PollBefore \/ PollAfter \/ PollPulse
  <2>1. Running
    BY <1>3 DEF CaptureEnds, PollBefore, PollAfter, PollPulse, Take, Running, NoJob, NoMove
  <2>2. halted' \in {halted, "no"}
    <3>1. CASE CaptureEnds
      BY <3>1 DEF CaptureEnds, runnerVars
    <3>2. CASE PollBefore
      BY <3>2, PieceFrame DEF PollBefore
    <3>3. CASE PollAfter
      <4>1. \/ \E axis, n : Abort(axis, n, Captured(job.shot))
            \/ \E q, n : BeginStep(q, n, Captured(job.shot))
        BY <3>3, PollAfterCases
      <4> QED
        BY <4>1, PieceFrame
    <3>4. CASE PollPulse
      BY <3>4, PieceFrame DEF PollPulse
    <3> QED
      BY <1>3, <3>1, <3>2, <3>3, <3>4
  <2> QED
    BY <2>1, <2>2 DEF StopEndsRun
<1>4. CASE Connect \/ Disconnect \/ CheckEnds \/ PollCheck \/ PollCaptureError \/ PollNudge
           \/ PollScreenMove \/ PollReturn \/ PollIdle
  <2>1. halted' = halted /\ (Running' => Running)
    BY <1>4 DEF Connect, Disconnect, CheckEnds, PollCheck, PollCaptureError, PollNudge, PollScreenMove,
                PollReturn, PollIdle, NoSubmit, CancelActivity, Running, runnerVars
  <2> QED
    BY <2>1 DEF StopEndsRun
<1>5. CASE Worker \/ OtherClaims \/ OtherReleases \/ UNCHANGED vars
  <2>1. halted' = halted /\ UNCHANGED panelVars
    BY <1>5 DEF Worker, WorkerIssues, WorkerMoves, WorkerRefuses, WorkerFails, WorkerReleases,
                WorkerPublishes, OtherClaims, OtherReleases, vars, runnerVars
  <2> QED
    BY <2>1 DEF StopEndsRun, Running, panelVars
<1> QED
  BY <1>1, <1>2, <1>3, <1>4, <1>5 DEF Next, Poll

\* After the panel's Stop, or a mode change that stopped something, no move of the panel is
\* handed to the runner before the operator's next click: no step of the run, no way back of
\* its abort, no capture that comes in late carries it on (mount_test_move_panel.py).
THEOREM QuietAfterStop == Spec => NothingAfterStop
<1>1. Init => StopEndsRun
  BY DEF Init, StopEndsRun
<1>2. Typed /\ StopEndsRun /\ [Next]_vars => StopEndsRun'
  BY StopEndsRunKept
<1>3. Typed /\ StopEndsRun /\ [Next]_vars => [halted = "panel" /\ events' = events => ~Submits]_vars
  BY SubmitsForRun DEF StopEndsRun
<1> QED
  BY <1>1, <1>2, <1>3, AlwaysTyped, PTL DEF Spec, NothingAfterStop

-----------------------------------------------------------------------------
(* One thing at a time: the run, its captures, the worker and its outcome.   *)

\* The operator's clicks come after the poll that takes an outcome; README, section 4.
ClicksAfterPoll == ~QuickClicks

\* A sequence, its outcome, a capture and a nudge's check exclude each other, and whatever the
\* panel still waits for is at one of them.
Handover ==
  /\ shown = "ready" => worker = NoWork /\ job = NoJob
  /\ outcome # NoOutcome => worker = NoWork
  /\ pending # NoMove => Busy \/ outcome # NoOutcome
  /\ queue # <<>> => job # NoJob \/ pending.kind = "calibration"
  /\ job # NoJob \/ check # NoJob => worker = NoWork /\ outcome = NoOutcome
  /\ check # NoJob => job = NoJob /\ pending = NoMove
  /\ job # NoJob => pending = NoMove
  /\ Busy => commanded
\* What the panel says is what it is at.
Telling ==
  /\ awaiting => (Busy \/ outcome # NoOutcome) /\ job = NoJob /\ pending = NoMove /\ said = "failed"
  /\ job # NoJob \/ pending.kind = "calibration" => said = "running"
  /\ said \in {"calibrated", "returned"} => worker = NoWork /\ ~Running
\* A screen move holds no exposure.
Holding == ExposureHeld /\ (pending.kind = "screen" => ~paused)

OneAtATime == Handover /\ Telling /\ Holding

\* Kinds and phases tell the shapes apart.
Distinct ==
  /\ worker = NoWork \/ Busy
  /\ Busy => worker # NoWork
  /\ \A r \in Results : r # NoOutcome
  /\ pending = NoMove <=> pending.kind = "none"
  /\ job = NoJob <=> job.phase = "none"
  /\ check = NoJob <=> check.phase = "none"

\* No record of a job, a check or a worker is the one that says there is none.
LEMMA Shapes == Typed => Distinct
<1> SUFFICES ASSUME Typed PROVE Distinct
  OBVIOUS
<1>1. worker = NoWork \/ Busy
  BY DEF Typed, DeskTyped, RunnerTyped, Workers, Busy, NoWork
<1>2. \A r \in Results : r # NoOutcome
  BY DEF Results, NoOutcome
<1>3. pending = NoMove <=> pending.kind = "none"
  BY DEF Typed, DeskTyped, NoMove, Calibrations, NudgeMoves
<1>4. (job = NoJob <=> job.phase = "none") /\ (check = NoJob <=> check.phase = "none")
  BY DEF Typed, DeskTyped, PanelTyped, JobShape, CheckShape, NoJob
<1> QED
  BY <1>1, <1>2, <1>3, <1>4 DEF Distinct, Busy, NoWork

\* What is at rest when a poll goes on with a run.
Resting(left) ==
  /\ worker = NoWork /\ left.outcome = NoOutcome /\ check' = NoJob
  /\ ~awaiting /\ said = "running" /\ paused

\* A sequence handed over while nothing moves: under way, or refused.
LEMMA Handed ==
  ASSUME NEW seq, NEW left, left.outcome = NoOutcome, worker = NoWork, Submit(seq, left)
  PROVE  \/ /\ worker' = [at |-> "sending", seq |-> seq, i |-> 1] /\ outcome' = NoOutcome
            /\ commanded' = TRUE
         \/ worker' = NoWork /\ outcome' = Failure(0) /\ commanded' = left.commanded
BY DEF Submit

\* A sequence that is handed over makes the runner busy, or is refused at once.
LEMMA HandedBusy ==
  ASSUME NEW seq, NEW left, left.outcome = NoOutcome, worker = NoWork, Submit(seq, left)
  PROVE  /\ Busy' \/ outcome' # NoOutcome
         /\ Busy' => commanded' /\ worker' # NoWork
         /\ outcome' # NoOutcome => worker' = NoWork
         /\ worker'.at = "idle" => worker' = NoWork
<1>1. CASE worker' = [at |-> "sending", seq |-> seq, i |-> 1] /\ outcome' = NoOutcome /\ commanded' = TRUE
  BY <1>1 DEF Busy, NoWork
<1>2. CASE worker' = NoWork /\ outcome' = Failure(0)
  <2>1. Failure(0) # NoOutcome
    BY DEF Failure, NoOutcome
  <2> QED
    BY <1>2, <2>1 DEF Busy, NoWork
<1> QED
  BY <1>1, <1>2, Handed

\* An abort from rest keeps one thing at a time.
LEMMA AbortOne ==
  ASSUME NEW axis, NEW n, NEW left, Resting(left), Abort(axis, n, left), Refresh
  PROVE  OneAtATime'
<1>1. ~Busy
  BY DEF Resting, Busy, NoWork
<1>2. CASE AbortReturn(axis, n) = <<>>
  <2>1. NoSubmit(left) /\ awaiting' = FALSE
    BY <1>2 DEF Abort, Resting
  <2> QED
    BY <1>1, <2>1 DEF Abort, NoSubmit, Resting, Refresh, OneAtATime, Handover, Telling, Holding, ExposureHeld,
                 Running, Busy, NoWork, NoJob, NoMove, NoOutcome
<1>3. CASE AbortReturn(axis, n) # <<>>
  <2>1. Submit(AbortReturn(axis, n), left)
    BY <1>1, <1>3 DEF Abort
  <2>2. /\ Busy' \/ outcome' # NoOutcome
        /\ Busy' => commanded' /\ worker' # NoWork
        /\ outcome' # NoOutcome => worker' = NoWork
        /\ worker'.at = "idle" => worker' = NoWork
    BY <2>1, HandedBusy DEF Resting
  <2>3. /\ queue' = <<>> /\ pending' = NoMove /\ job' = NoJob /\ check' = NoJob
        /\ paused' = FALSE /\ said' = "failed"
    BY DEF Abort, Resting
  <2> QED
    BY <2>2, <2>3 DEF Refresh, OneAtATime, Handover, Telling, Holding, ExposureHeld,
                 Running, Busy, NoJob, NoMove
<1> QED
  BY <1>2, <1>3

\* So does a step that is sent from rest.
LEMMA SubmitStepOne ==
  ASSUME NEW q, NEW before, NEW n, NEW left, Resting(left), SubmitStep(q, before, n, left), Refresh
  PROVE  OneAtATime'
<1>1. ~Busy
  BY DEF Resting, Busy, NoWork
<1> DEFINE move == [axis |-> Head(q).axis, dir |-> Head(q).dir, size |-> StepSize(Head(q))]
<1>2. /\ job' = NoJob /\ Submit(<<move>>, left) /\ UNCHANGED <<awaiting, paused, said>>
      /\ pending' = [kind |-> "calibration", step |-> Head(q), size |-> StepSize(Head(q)), before |-> before]
  BY <1>1 DEF SubmitStep
<1>3. /\ Busy' \/ outcome' # NoOutcome
      /\ Busy' => commanded' /\ worker' # NoWork
      /\ outcome' # NoOutcome => worker' = NoWork
      /\ worker'.at = "idle" => worker' = NoWork
  BY <1>2, HandedBusy DEF Resting
<1>4. pending'.kind = "calibration" /\ pending' # NoMove
  BY <1>2 DEF NoMove
<1>5. ~awaiting' /\ said' = "running" /\ paused' /\ check' = NoJob
  BY <1>2 DEF Resting
<1> QED
  BY <1>2, <1>3, <1>4, <1>5 DEF Refresh, OneAtATime, Handover, Telling, Holding, ExposureHeld,
               Running, Busy, NoJob

\* And one that begins from rest.
LEMMA BeginStepOne ==
  ASSUME NEW q, NEW n, NEW left, Resting(left), BeginStep(q, n, left), Refresh
  PROVE  OneAtATime'
<1>1. CASE q = <<>>
  <2>1. /\ queue' = <<>> /\ pending' = NoMove /\ job' = NoJob /\ check' = NoJob
        /\ paused' = FALSE /\ said' = "calibrated" /\ ~awaiting'
        /\ worker' = NoWork /\ outcome' = NoOutcome
    BY <1>1 DEF BeginStep, FinishCalibration, NoSubmit, Resting
  <2> QED
    BY <2>1 DEF Refresh, OneAtATime, Handover, Telling, Holding, ExposureHeld,
                 Running, Busy, NoWork, NoJob, NoMove
<1>2. CASE q # <<>> /\ Head(q).role = "return"
  BY <1>2, SubmitStepOne DEF BeginStep
<1>3. CASE q # <<>> /\ Head(q).role # "return"
  <2>1. /\ pending' = NoMove /\ job' = Capture("before", NoMove) /\ check' = NoJob
        /\ paused' /\ said' = "running" /\ ~awaiting'
        /\ worker' = NoWork /\ outcome' = NoOutcome
    BY <1>3 DEF BeginStep, NoSubmit, Resting
  <2>2. job' # NoJob
    BY <2>1 DEF Capture, NoJob
  <2> QED
    BY <2>1, <2>2 DEF Refresh, OneAtATime, Handover, Telling, Holding, ExposureHeld,
                 Running, Busy, NoWork, NoMove
<1> QED
  BY <1>1, <1>2, <1>3

\* A poll that goes on with a run finds everything else at rest.
LEMMA RunRests ==
  ASSUME Typed, OneAtATime
  PROVE  /\ job # NoJob /\ check' = check => \A shot : Resting(Captured(shot))
         /\ pending.kind = "calibration" /\ outcome # NoOutcome /\ check' = check => Resting(Taken)
<1>1. ASSUME job # NoJob, check' = check PROVE \A shot : Resting(Captured(shot))
  BY <1>1 DEF OneAtATime, Handover, Telling, Holding, ExposureHeld, Resting, Captured
<1>2. ASSUME pending.kind = "calibration", outcome # NoOutcome, check' = check PROVE Resting(Taken)
  BY <1>2, Shapes DEF Distinct, OneAtATime, Handover, Telling, Holding, ExposureHeld, Resting, Taken
<1> QED
  BY <1>1, <1>2

\* The operator's clicks find the panel with nothing under way.
LEMMA ClickRests ==
  ASSUME ClicksAfterPoll, Typed, OneAtATime, Click
  PROVE  /\ worker = NoWork /\ outcome = NoOutcome /\ queue = <<>> /\ pending = NoMove /\ job = NoJob
         /\ ~awaiting /\ (paused => check # NoJob)
BY Shapes DEF Distinct, ClicksAfterPoll, Click, OneAtATime, Handover, Telling, Holding, ExposureHeld, Running

\* Every step keeps one thing at a time, when clicks come between polls.
LEMMA OneAtATimeKept ==
  ASSUME ClicksAfterPoll, Typed, Typed', OneAtATime, [Next]_vars
  PROVE  OneAtATime'
<1> USE DEF OneAtATime
<1>0. /\ worker' = NoWork \/ Busy'
      /\ Busy' => worker' # NoWork
      /\ \A r \in Results : r # NoOutcome
      /\ pending' = NoMove <=> pending'.kind = "none"
      /\ job' = NoJob <=> job'.phase = "none"
      /\ check' = NoJob <=> check'.phase = "none"
      /\ worker = NoWork \/ Busy
      /\ Busy => worker # NoWork
      /\ pending = NoMove <=> pending.kind = "none"
      /\ job = NoJob <=> job.phase = "none"
      /\ check = NoJob <=> check.phase = "none"
  <2>1. Distinct /\ Distinct'
    BY Shapes, PTL
  <2> QED
    BY <2>1 DEF Distinct
<1>1. CASE Connect \/ Disconnect \/ PollIdle
  <2>1. /\ UNCHANGED <<queue, pending, job, check, awaiting, paused, said, runnerVars>>
        /\ Refresh
    BY <1>1 DEF Connect, Disconnect, PollIdle
  <2> QED
    BY <1>0, <2>1 DEF Refresh, Handover, Telling, Holding, ExposureHeld, Running, Busy, runnerVars
<1>2. CASE ClickCalibrate
  <2>1. /\ worker' = NoWork /\ outcome' = NoOutcome /\ pending' = NoMove
        /\ ~awaiting' /\ check' = NoJob /\ paused' /\ said' = "running"
        /\ job' = Capture("before", NoMove)
    BY <1>2, ClickRests DEF ClickCalibrate
  <2>2. Refresh /\ job' # NoJob
    BY <1>2, <2>1 DEF ClickCalibrate, Capture, NoJob
  <2> QED
    BY <1>0, <2>1, <2>2 DEF Refresh, Handover, Telling, Holding, ExposureHeld, Running, Busy
<1>3. CASE ClickNudge
  <2>1. \E seq : Submit(seq, Untouched)
    BY <1>3 DEF ClickNudge
  <2>2. worker = NoWork /\ Untouched.outcome = NoOutcome
    BY <1>3, ClickRests DEF ClickNudge, Untouched
  <2>3. /\ Busy' \/ outcome' # NoOutcome
        /\ Busy' => commanded' /\ worker' # NoWork
        /\ outcome' # NoOutcome => worker' = NoWork
    BY <2>1, <2>2, HandedBusy
  <2>4. /\ queue' = <<>> /\ job' = NoJob /\ ~awaiting' /\ check' = NoJob /\ paused' /\ said' = "moving"
        /\ Refresh
    BY <1>3, ClickRests DEF ClickNudge
  <2>5. pending'.kind = "nudge"
    BY <1>3 DEF ClickNudge
  <2> QED
    BY <1>0, <2>3, <2>4, <2>5 DEF Refresh, Handover, Telling, Holding, ExposureHeld, Running, Busy
<1>4. CASE ClickScreenMove
  <2>1. \E seq : Submit(seq, Untouched)
    BY <1>4 DEF ClickScreenMove
  <2>2. worker = NoWork /\ Untouched.outcome = NoOutcome
    BY <1>4, ClickRests DEF ClickScreenMove, Untouched
  <2>3. /\ Busy' \/ outcome' # NoOutcome
        /\ Busy' => commanded' /\ worker' # NoWork
        /\ outcome' # NoOutcome => worker' = NoWork
    BY <2>1, <2>2, HandedBusy
  <2>4. /\ queue' = <<>> /\ job' = NoJob /\ ~awaiting' /\ check' = NoJob /\ ~paused' /\ said' = "moving"
        /\ Refresh /\ pending' = [kind |-> "screen"]
    BY <1>4, ClickRests DEF ClickScreenMove, CancelCheck, Typed, DeskTyped
  <2> QED
    BY <1>0, <2>3, <2>4 DEF Refresh, Handover, Telling, Holding, ExposureHeld, Running, Busy
<1>5. CASE ClickStop \/ ChangeMode
  <2>1. UNCHANGED <<worker, outcome, commanded>>
    BY <1>5 DEF ClickStop, ChangeMode, StopAll, runnerVars
  <2>2. CASE Running
    <3>1. /\ queue' = <<>> /\ pending' = NoMove /\ job' = NoJob /\ check' = NoJob /\ ~awaiting'
          /\ ~paused' /\ said' = "stopped" /\ Refresh
      BY <1>5, <2>2 DEF ClickStop, ChangeMode, StopAll, CancelActivity
    <3> QED
      BY <1>0, <2>1, <3>1 DEF Refresh, Handover, Telling, Holding, ExposureHeld, Running, Busy
  <2>3. CASE ~Running
    <3>1. /\ UNCHANGED <<queue, pending, job, awaiting, said>>
          /\ UNCHANGED <<shown, check, paused>> \/ (CancelCheck /\ Refresh)
      <4>1. CASE ClickStop
        BY <2>3, <4>1 DEF ClickStop, StopAll, Running
      <4>2. CASE ChangeMode
        BY <2>3, <4>2 DEF ChangeMode, StopAll, Running
      <4> QED
        BY <1>5, <4>1, <4>2
    <3> QED
      BY <1>0, <2>1, <2>3, <3>1 DEF Refresh, CancelCheck, Handover, Telling, Holding, ExposureHeld, Running, Busy
  <2> QED
    BY <2>2, <2>3
<1>6. CASE ClickStopMount \/ OtherClaims \/ OtherReleases \/ UNCHANGED vars
  <2>1. UNCHANGED <<panelVars, worker, outcome, commanded>>
    BY <1>6 DEF ClickStopMount, OtherClaims, OtherReleases, vars, runnerVars
  <2> QED
    BY <1>0, <2>1 DEF Handover, Telling, Holding, ExposureHeld, Running, Busy, panelVars
<1>7. CASE CaptureEnds
  <2>1. /\ job # NoJob /\ job'.phase = job.phase
        /\ UNCHANGED <<shown, queue, pending, check, awaiting, paused, said, runnerVars>>
    BY <1>7 DEF CaptureEnds
  <2> QED
    BY <1>0, <2>1 DEF Handover, Telling, Holding, ExposureHeld, Running, Busy, runnerVars
<1>8. CASE CheckEnds
  <2>1. /\ check # NoJob /\ check'.phase = "check"
        /\ UNCHANGED <<shown, queue, pending, job, awaiting, paused, said, runnerVars>>
    BY <1>8 DEF CheckEnds
  <2> QED
    BY <1>0, <2>1 DEF Handover, Telling, Holding, ExposureHeld, Running, Busy, runnerVars
<1>9. CASE PollCheck \/ PollCaptureError
  <2>1. CASE PollCheck
    <3>1. /\ UNCHANGED <<worker, outcome, queue, pending, job, awaiting, said>>
          /\ check # NoJob /\ check' = NoJob /\ ~paused' /\ Refresh
      BY <2>1 DEF PollCheck, NoSubmit, Captured
    <3>2. worker' = NoWork /\ outcome' = NoOutcome /\ job' = NoJob /\ pending' = NoMove /\ queue' = <<>>
      BY <1>0, <3>1 DEF Handover
    <3> QED
      BY <1>0, <3>1, <3>2 DEF Refresh, Handover, Telling, Holding, ExposureHeld, Running, Busy
  <2>2. CASE PollCaptureError
    <3>1. /\ UNCHANGED <<worker, outcome>> /\ job # NoJob /\ check' = NoJob /\ ~paused' /\ Refresh
          /\ queue' = <<>> /\ pending' = NoMove /\ job' = NoJob /\ ~awaiting' /\ said' = "failed"
      BY <2>2 DEF PollCaptureError, CancelActivity, runnerVars
    <3>2. worker' = NoWork /\ outcome' = NoOutcome
      BY <3>1 DEF Handover
    <3> QED
      BY <1>0, <3>1, <3>2 DEF Refresh, Handover, Telling, Holding, ExposureHeld, Running, Busy
  <2> QED
    BY <1>9, <2>1, <2>2
<1>10. CASE PollBefore
  <2>1. Resting(Captured(job.shot)) /\ Refresh
    BY <1>10, <1>0, RunRests DEF PollBefore
  <2> QED
    BY <1>10, <2>1, AbortOne, SubmitStepOne DEF PollBefore
<1>11. CASE PollAfter
  <2>1. Resting(Captured(job.shot)) /\ Refresh
    BY <1>11, <1>0, RunRests DEF PollAfter
  <2> QED
    BY <1>11, <2>1, AbortOne, BeginStepOne, PollAfterCases
<1>12. CASE PollPulse
  <2>1. Resting(Taken) /\ Refresh
    BY <1>12, RunRests DEF PollPulse, Take
  <2>2. CASE job' = Capture("after", pending) /\ pending' = NoMove /\ NoSubmit(Taken)
             /\ UNCHANGED <<queue, awaiting, paused, said, calibration>>
    <3>1. /\ job' # NoJob /\ pending' = NoMove /\ check' = NoJob /\ paused' /\ said' = "running" /\ ~awaiting'
          /\ worker' = NoWork /\ outcome' = NoOutcome
      BY <2>1, <2>2 DEF Capture, NoJob, NoSubmit, Resting
    <3> QED
      BY <1>0, <2>1, <3>1 DEF Refresh, Handover, Telling, Holding, ExposureHeld, Running, Busy
  <2> QED
    BY <1>12, <2>1, <2>2, AbortOne, BeginStepOne DEF PollPulse
<1>13. CASE PollNudge \/ PollScreenMove \/ PollReturn
  <2>1. /\ worker = NoWork /\ worker' = NoWork /\ outcome' = NoOutcome /\ job = NoJob /\ job' = NoJob
        /\ pending' = NoMove /\ queue' = queue /\ Refresh /\ outcome # NoOutcome
        /\ pending.kind \in {"nudge", "screen", "none"}
    BY <1>13, <1>0 DEF PollNudge, PollScreenMove, PollReturn, Take, NoSubmit, Taken, Handover
  <2>2. CASE PollNudge
    <3>1. awaiting' = awaiting /\ queue' = <<>> /\ pending # NoMove
      BY <1>0, <2>1, <2>2 DEF PollNudge, Take, Handover, NoMove
    <3>2. \/ check'.phase = "check" /\ paused' /\ said' = "done"
          \/ check' = NoJob /\ ~paused' /\ said' = "failed"
      <4>1. check = NoJob /\ paused
        BY <2>2, <3>1 DEF PollNudge, Take, Handover, Holding, ExposureHeld
      <4>2. /\ outcome.pulsed => check' = Capture("check", pending) /\ said' = "done" /\ paused' = paused
            /\ ~outcome.pulsed => check' = check /\ said' = "failed" /\ paused' = FALSE
        BY <2>2 DEF PollNudge
      <4>3. CASE outcome.pulsed
        <5>1. check' = Capture("check", pending) /\ said' = "done" /\ paused'
          BY <4>1, <4>2, <4>3, Zenon
        <5> QED
          BY <5>1 DEF Capture
      <4>4. CASE ~outcome.pulsed
        BY <4>1, <4>2, <4>4
      <4> QED
        BY <4>3, <4>4
    <3> QED
      BY <1>0, <2>1, <3>1, <3>2 DEF Refresh, Handover, Telling, Holding, ExposureHeld, Running, Busy
  <2>3. CASE PollScreenMove
    <3>1. UNCHANGED <<awaiting, check, paused>> /\ ~paused /\ pending # NoMove /\ said' \in {"done", "failed"}
      BY <1>0, <2>3 DEF PollScreenMove, Take, Holding, NoMove
    <3> QED
      BY <1>0, <2>1, <3>1 DEF Refresh, Handover, Telling, Holding, ExposureHeld, Running, Busy
  <2>4. CASE PollReturn
    <3>1. UNCHANGED <<check, paused>> /\ ~awaiting' /\ said' \in {said, "returned", "unsure"} /\ pending = NoMove
      BY <1>0, <2>4 DEF PollReturn, Take
    <3> QED
      BY <1>0, <2>1, <3>1 DEF Refresh, Handover, Telling, Holding, ExposureHeld, Running, Busy
  <2> QED
    BY <1>13, <2>2, <2>3, <2>4
<1>14. CASE Worker
  <2>1. UNCHANGED <<panelVars, commanded>> /\ Busy
    BY <1>14 DEF Worker, WorkerIssues, WorkerMoves, WorkerRefuses, WorkerFails, WorkerReleases,
                 WorkerPublishes, Busy
  <2>2. outcome = NoOutcome
    BY <1>0, <2>1 DEF Handover
  <2>3. \/ outcome' = NoOutcome /\ Busy'
        \/ outcome' # NoOutcome /\ worker' = NoWork
    <3>1. CASE WorkerPublishes
      <4>1. outcome' \in Results /\ worker' = NoWork
        BY <3>1 DEF WorkerPublishes, Typed, DeskTyped, RunnerTyped, Workers, NoWork
      <4> QED
        BY <1>0, <4>1
    <3>2. CASE ~WorkerPublishes
      <4>1. outcome' = outcome
        BY <1>14, <3>2 DEF Worker, WorkerIssues, WorkerMoves, WorkerRefuses, WorkerFails, WorkerReleases
      <4>3. worker'.at # "idle"
        <5>1. CASE WorkerIssues \/ WorkerMoves
          <6>1. worker \in [at : {"sending", "moving"}, seq : Seq(Moves), i : Nat \ {0}]
            BY <5>1, CurrentTyped DEF WorkerIssues, WorkerMoves, Typed, DeskTyped
          <6>2. CASE WorkerIssues
            BY <6>1, <6>2 DEF WorkerIssues
          <6>3. CASE WorkerMoves
            <7>1. CASE worker.i < Len(worker.seq)
              BY <6>1, <6>3, <7>1 DEF WorkerMoves
            <7>2. CASE ~(worker.i < Len(worker.seq))
              BY <6>3, <7>2 DEF WorkerMoves
            <7> QED
              BY <7>1, <7>2
          <6> QED
            BY <5>1, <6>2, <6>3
        <5>2. CASE WorkerReleases
          BY <5>2 DEF WorkerReleases, Typed, DeskTyped, RunnerTyped, Workers, NoWork
        <5>3. CASE WorkerRefuses \/ WorkerFails
          BY <5>3 DEF WorkerRefuses, WorkerFails
        <5> QED
          BY <1>14, <3>2, <5>1, <5>2, <5>3 DEF Worker
      <4> QED
        BY <2>2, <4>1, <4>3 DEF Busy
    <3> QED
      BY <3>1, <3>2
  <2> QED
    BY <1>0, <2>1, <2>2, <2>3 DEF Handover, Telling, Holding, ExposureHeld, Running, panelVars
<1> QED
  BY <1>1, <1>2, <1>3, <1>4, <1>5, <1>6, <1>7, <1>8, <1>9, <1>10, <1>11, <1>12, <1>13, <1>14
  DEF Next, Poll

\* Hence there is one thing at a time, always.
LEMMA AlwaysOneAtATime ==
  ASSUME ClicksAfterPoll
  PROVE  Spec => []OneAtATime
<1>1. Init => OneAtATime
  BY DEF Init, OneAtATime, Handover, Telling, Holding, ExposureHeld, Busy, NoWork, NoMove, NoJob
<1>2. Typed /\ Typed' /\ OneAtATime /\ [Next]_vars => OneAtATime'
  BY OneAtATimeKept
<1> QED
  BY <1>1, <1>2, AlwaysTyped, PTL DEF Spec

\* Auto-exposure is held for every view a run or a nudge's check takes, and let go on every
\* path out of it (mount_test_move_panel.py), when clicks come after the poll.
THEOREM ExposureLetGo ==
  ASSUME ClicksAfterPoll
  PROVE  Spec => []ExposureHeld
<1>1. OneAtATime => ExposureHeld
  BY DEF OneAtATime, Holding
<1> QED
  BY <1>1, AlwaysOneAtATime, PTL

-----------------------------------------------------------------------------
(* Evidence: where the mount stood at each view, and at the move between.    *)

SameAs(p) == \A a \in Axes : pos[a] = p[a]
MovedBy(p, m) == \A a \in Axes : pos[a] = p[a] + (IF a = m.axis THEN m.dir * m.size ELSE 0)
MoveOf(p) == [axis |-> p.step.axis, dir |-> p.step.dir, size |-> p.size]
\* What the runner reports, or is about to.
Report == IF worker = NoWork THEN outcome ELSE worker.result

\* A move sent at the place p: not carried out yet and the only one of its sequence, or
\* carried out in full if it is reported so.
Sequel(p, m) ==
  /\ p \in [Axes -> Int]
  /\ IF Early THEN worker.seq = <<m>> /\ worker.i = 1 /\ SameAs(p) ELSE Report.pulsed => MovedBy(p, m)

\* The same after a step.
SequelNext(p, m) ==
  /\ p \in [Axes -> Int]
  /\ IF Early' THEN worker'.seq = <<m>> /\ worker'.i = 1 /\ (\A a \in Axes : pos'[a] = p[a])
     ELSE Report'.pulsed => \A a \in Axes : pos'[a] = p[a] + (IF a = m.axis THEN m.dir * m.size ELSE 0)

ReferenceStands == reference # NoReference /\ ~commanded => SameAs(reference.pos)
ViewsStand ==
  /\ job # NoJob /\ job.done => SameAs(job.shot.pos)
  /\ check # NoJob /\ check.done => SameAs(check.shot.pos)
MovesFollow ==
  /\ pending.kind = "calibration" /\ pending.step.role # "return" => Sequel(pending.before.pos, MoveOf(pending))
  /\ pending.kind = "nudge" => \A k \in DOMAIN pending.before : Sequel(pending.before[k].pos, pending.move)
PulsesStand ==
  /\ job.phase = "after" =>
       /\ job.move.before.pos \in [Axes -> Int]
       /\ MovedBy(job.move.before.pos, MoveOf(job.move))
  /\ check # NoJob => \A k \in DOMAIN check.move.before :
       /\ check.move.before[k].pos \in [Axes -> Int]
       /\ MovedBy(check.move.before[k].pos, check.move.move)
EvidenceInv == ReferenceStands /\ ViewsStand /\ MovesFollow /\ PulsesStand

\* The invariant of the evidence implies the property the runs check.
LEMMA EvidenceImplies == Typed /\ OneAtATime /\ EvidenceInv => EvidenceOfOwnPulse
<1> SUFFICES ASSUME Typed, OneAtATime, EvidenceInv PROVE EvidenceOfOwnPulse
  OBVIOUS
<1>1. ASSUME NEW b, NEW s, NEW m, SameAs(s.pos), MovedBy(b.pos, m), b.pos \in [Axes -> Int],
             s.pos \in [Axes -> Int], m \in Moves
      PROVE  OwnMove(m, b, s)
  <2>1. ASSUME NEW a \in Axes
        PROVE  s.pos[a] - b.pos[a] = IF a = m.axis THEN m.dir * m.size ELSE 0
    <3>1. /\ s.pos[a] = b.pos[a] + (IF a = m.axis THEN m.dir * m.size ELSE 0)
          /\ s.pos[a] \in Int /\ b.pos[a] \in Int /\ m.dir * m.size \in Int
      BY <1>1 DEF SameAs, MovedBy, Moves
    <3> QED
      BY <3>1
  <2> QED
    BY <2>1 DEF OwnMove
<1>2. ASSUME job.phase = "after", job.done
      PROVE  OwnMove([axis |-> job.move.step.axis, dir |-> job.move.step.dir, size |-> job.move.size],
                     job.move.before, job.shot)
  <2>1. job.move \in Calibrations /\ job.shot \in Shots /\ job # NoJob
    BY <1>2, ShotTyped DEF Typed, DeskTyped, JobShape, NoJob
  <2>2. MoveOf(job.move) \in Moves
    <3>1. job.move.step \in Steps /\ job.move.size \in Nat \ {0}
      BY <2>1 DEF Calibrations
    <3> QED
      BY <3>1 DEF MoveOf, Moves, Steps
  <2>3. job.shot.pos \in [Axes -> Int]
    BY <2>1 DEF Shots
  <2>4. /\ SameAs(job.shot.pos) /\ MovedBy(job.move.before.pos, MoveOf(job.move))
        /\ job.move.before.pos \in [Axes -> Int]
    BY <1>2, <2>1 DEF EvidenceInv, ViewsStand, PulsesStand
  <2>5. OwnMove(MoveOf(job.move), job.move.before, job.shot)
    BY <1>1, <2>2, <2>3, <2>4
  <2> QED
    BY <2>5 DEF MoveOf
<1>3. ASSUME check # NoJob, check.done, NEW k \in DOMAIN check.move.before
      PROVE  OwnMove(check.move.move, check.move.before[k], check.shot)
  <2>1. check.move.move \in Moves /\ check.shot.pos \in [Axes -> Int]
    BY <1>3, ShotTyped DEF Typed, PanelTyped, CheckShape, NudgeMoves, Shots
  <2>2. /\ SameAs(check.shot.pos) /\ MovedBy(check.move.before[k].pos, check.move.move)
        /\ check.move.before[k].pos \in [Axes -> Int]
    BY <1>3 DEF EvidenceInv, ViewsStand, PulsesStand
  <2> QED
    BY <1>1, <2>1, <2>2
<1> QED
  BY <1>2, <1>3 DEF EvidenceOfOwnPulse

\* A reference is replaced by the view just taken, or stays while nothing is commanded.
LEMMA VerifiedStands ==
  ASSUME ReferenceStands, NEW shot, SameAs(shot.pos), Verified(shot), pos' = pos,
         \/ commanded' = TRUE
         \/ commanded' = (commanded /\ shot.got = {})
  PROVE  ReferenceStands'
<1>1. CASE commanded' = TRUE
  BY <1>1 DEF ReferenceStands
<1>2. CASE commanded' = (commanded /\ shot.got = {}) /\ shot.got = {}
  BY <1>2 DEF ReferenceStands, Verified, SameAs
<1>3. CASE shot.got # {}
  BY <1>3 DEF ReferenceStands, Verified, SameAs
<1> QED
  BY <1>1, <1>2, <1>3

\* A piece that goes on asks for a view that is not taken yet, or sends a way back.
LEMMA PieceEvidence ==
  ASSUME NEW left, worker = NoWork
  PROVE  /\ \A axis, n : Abort(axis, n, left) =>
              /\ pending' = NoMove /\ job' = NoJob
              /\ commanded' = TRUE \/ commanded' = left.commanded
         /\ \A q, before, n : SubmitStep(q, before, n, left) =>
              /\ job' = NoJob /\ (commanded' = TRUE \/ commanded' = left.commanded)
              /\ pending' = [kind |-> "calibration", step |-> Head(q), size |-> StepSize(Head(q)), before |-> before]
         /\ \A q, n : BeginStep(q, n, left) =>
              /\ job' = NoJob \/ job' = Capture("before", NoMove)
              /\ pending'.kind = "none" \/ (pending'.kind = "calibration" /\ pending'.step.role = "return")
              /\ commanded' = TRUE \/ commanded' = left.commanded
<1>0. ~Busy
  BY DEF Busy, NoWork
<1>1. \A seq : Submit(seq, left) => commanded' = TRUE \/ commanded' = left.commanded
  BY DEF Submit
<1>2. NoSubmit(left) => commanded' = left.commanded
  BY DEF NoSubmit
<1>3. \A axis, n : Abort(axis, n, left) =>
        /\ pending' = NoMove /\ job' = NoJob
        /\ commanded' = TRUE \/ commanded' = left.commanded
  BY <1>0, <1>1, <1>2 DEF Abort
<1>4. \A q, before, n : SubmitStep(q, before, n, left) =>
        /\ job' = NoJob /\ (commanded' = TRUE \/ commanded' = left.commanded)
        /\ pending' = [kind |-> "calibration", step |-> Head(q), size |-> StepSize(Head(q)), before |-> before]
  BY <1>0, <1>1 DEF SubmitStep
<1>5. ASSUME NEW q, NEW n, BeginStep(q, n, left)
      PROVE  /\ job' = NoJob \/ job' = Capture("before", NoMove)
             /\ pending'.kind = "none" \/ (pending'.kind = "calibration" /\ pending'.step.role = "return")
             /\ commanded' = TRUE \/ commanded' = left.commanded
  <2>1. CASE q = <<>>
    BY <1>2, <1>5, <2>1 DEF BeginStep, FinishCalibration, NoMove
  <2>2. CASE q # <<>> /\ Head(q).role = "return"
    <3>1. SubmitStep(q, <<>>, n, left)
      BY <1>5, <2>2 DEF BeginStep
    <3> QED
      BY <1>4, <2>2, <3>1
  <2>3. CASE q # <<>> /\ Head(q).role # "return"
    BY <1>2, <1>5, <2>3 DEF BeginStep, NoMove
  <2> QED
    BY <2>1, <2>2, <2>3
<1> QED
  BY <1>3, <1>4, <1>5

\* A move just handed over at the place p is under way, or refused.
LEMMA SequelOfSubmit ==
  ASSUME NEW m, NEW left, left.outcome = NoOutcome, worker = NoWork, Submit(<<m>>, left),
         NEW p \in [Axes -> Int], SameAs(p), pos' = pos
  PROVE  SequelNext(p, m)
<1>1. CASE worker' = [at |-> "sending", seq |-> <<m>>, i |-> 1]
  BY <1>1 DEF SequelNext, Early, SameAs
<1>2. CASE worker' = NoWork /\ outcome' = Failure(0)
  BY <1>2 DEF SequelNext, Early, Report, NoWork, Failure
<1> QED
  BY <1>1, <1>2, Handed

\* The steps of the worker keep what is known of the move it was given.
LEMMA SequelKept ==
  ASSUME Typed, OneAtATime, NEW p, NEW m \in Moves, Sequel(p, m), Worker
  PROVE  SequelNext(p, m)
<1>1. CASE WorkerIssues
  <2>1. /\ worker \in [at : {"sending", "moving"}, seq : Seq(Moves), i : Nat \ {0}]
        /\ worker' = [worker EXCEPT !.at = "moving"] /\ pos' = pos
    BY <1>1, CurrentTyped DEF WorkerIssues, Typed, DeskTyped, ghostVars
  <2>2. worker' = [at |-> "moving", seq |-> worker.seq, i |-> worker.i]
    BY <2>1
  <2>3. Early /\ Early'
    BY <2>1, <2>2 DEF Early
  <2> QED
    BY <2>1, <2>2, <2>3 DEF Sequel, SequelNext, SameAs
<1>2. CASE WorkerMoves
  <2>1. Early
    BY <1>2 DEF WorkerMoves, Early
  <2>2. worker.seq = <<m>> /\ worker.i = 1 /\ SameAs(p) /\ p \in [Axes -> Int]
    BY <2>1 DEF Sequel
  <2>3. Current = m /\ Len(worker.seq) = 1
    BY <2>2 DEF Current
  <2>4. /\ worker' = [at |-> "ending", result |-> Success]
        /\ pos' = [pos EXCEPT ![m.axis] = @ + m.dir * m.size]
    BY <1>2, <2>2, <2>3 DEF WorkerMoves
  <2>5. pos \in [Axes -> Int] /\ m.axis \in Axes
    BY DEF Typed, GhostTyped, Moves
  <2>6. \A a \in Axes : pos'[a] = p[a] + (IF a = m.axis THEN m.dir * m.size ELSE 0)
    BY <2>2, <2>4, <2>5 DEF SameAs, Moves
  <2> QED
    BY <2>2, <2>4, <2>6 DEF SequelNext, Early, Report, NoWork
<1>3. CASE WorkerRefuses \/ WorkerFails
  <2>1. \E sent : worker' = [at |-> "ending", result |-> Failure(sent)]
    BY <1>3 DEF WorkerRefuses, WorkerFails
  <2>2. ~Early' /\ ~Report'.pulsed
    BY <2>1 DEF Early, Report, NoWork, Failure
  <2> QED
    BY <2>2 DEF Sequel, SequelNext
<1>4. CASE WorkerReleases \/ WorkerPublishes
  <2>1. worker \in [at : {"ending", "released"}, result : Results]
    BY <1>4 DEF WorkerReleases, WorkerPublishes, Typed, DeskTyped, RunnerTyped, Workers, NoWork
  <2>2. ~Early /\ ~Early' /\ Report' = Report /\ pos' = pos
    <3>1. CASE WorkerReleases
      <4>1. worker' = [at |-> "released", result |-> worker.result]
        BY <2>1, <3>1 DEF WorkerReleases
      <4> QED
        BY <2>1, <3>1, <4>1 DEF WorkerReleases, Early, Report, NoWork, ghostVars
    <3>2. CASE WorkerPublishes
      BY <2>1, <3>2 DEF WorkerPublishes, Early, Report, NoWork, ghostVars
    <3> QED
      BY <1>4, <3>1, <3>2
  <2> QED
    BY <2>2 DEF Sequel, SequelNext, MovedBy
<1> QED
  BY <1>1, <1>2, <1>3, <1>4 DEF Worker

\* A callback that leaves no view taken and no measured pulse under way.
LEMMA NothingToShow ==
  ASSUME ReferenceStands',
         job' = NoJob \/ job' = Capture("before", NoMove),
         pending'.kind \in {"none", "screen"} \/ (pending'.kind = "calibration" /\ pending'.step.role = "return"),
         check' = NoJob
  PROVE  EvidenceInv'
BY DEF EvidenceInv, ViewsStand, MovesFollow, PulsesStand, Capture, NoJob

\* A click that begins a run has no evidence of another one.
LEMMA EvidenceOfClicks ==
  ASSUME ClicksAfterPoll, Typed, OneAtATime, EvidenceInv, ClickCalibrate \/ ClickNudge \/ ClickScreenMove
  PROVE  EvidenceInv'
<1>0. Click /\ worker = NoWork /\ outcome = NoOutcome /\ job = NoJob /\ pending = NoMove
  BY ClickRests DEF ClickCalibrate, ClickNudge, ClickScreenMove
<1>1. CASE ClickCalibrate
  <2>1. /\ job' = Capture("before", NoMove) /\ pending' = NoMove /\ check' = NoJob
        /\ reference' = Rebased /\ commanded' = commanded /\ pos' = [a \in Axes |-> 0]
    BY <1>0, <1>1 DEF ClickCalibrate
  <2>2. ReferenceStands'
    <3>1. ASSUME reference' # NoReference, ~commanded', NEW a \in Axes PROVE pos'[a] = reference'.pos[a]
      <4>1. reference # NoReference
        BY <2>1, <3>1 DEF Rebased
      <4>2. reference \in [pos : [Axes -> Int], drift : Int, mode : {"astronomical", "terrestrial"}]
        BY <4>1 DEF Typed, RunTyped, References
      <4>3. reference'.pos = [b \in Axes |-> reference.pos[b] - pos[b]]
        BY <2>1, <4>1, <4>2 DEF Rebased
      <4>4. pos[a] = reference.pos[a] /\ pos[a] \in Int
        BY <2>1, <3>1, <4>1 DEF EvidenceInv, ReferenceStands, SameAs, Typed, GhostTyped
      <4> QED
        BY <2>1, <4>3, <4>4
    <3> QED
      BY <3>1 DEF ReferenceStands, SameAs
  <2> QED
    BY <2>1, <2>2, NothingToShow DEF NoMove
<1>2. CASE ClickNudge
  <2>1. PICK p \in Primitives, cam \in Cameras, move \in Nudges, reuse \in BOOLEAN :
          /\ reuse => Reusable
          /\ pending' = [kind |-> "nudge", move |-> move,
                         before |-> IF reuse THEN <<reference>> ELSE <<>>]
          /\ Submit(<<move>>, Untouched)
    BY <1>2 DEF ClickNudge
  <2>2. job' = NoJob /\ check' = NoJob /\ UNCHANGED <<reference, pos>> /\ Untouched.outcome = NoOutcome
        /\ Untouched.commanded = commanded
    BY <1>0, <1>2 DEF ClickNudge, Untouched
  <2>3. ReferenceStands'
    <3>1. commanded' = TRUE \/ commanded' = commanded
      BY <2>1, <2>2 DEF Submit
    <3> QED
      BY <2>2, <3>1 DEF EvidenceInv, ReferenceStands, SameAs
  <2>4. \A k \in DOMAIN pending'.before : Sequel(pending.before[k].pos, pending.move)'
    <3>1. CASE ~reuse
      BY <2>1, <3>1
    <3>2. CASE reuse
      <4>1. /\ reference \in [pos : [Axes -> Int], drift : Int, mode : {"astronomical", "terrestrial"}]
            /\ SameAs(reference.pos)
        BY <2>1, <3>2 DEF Reusable, EvidenceInv, ReferenceStands, Typed, RunTyped, References
      <4>2. SequelNext(reference.pos, move)
        BY <1>0, <2>1, <2>2, <4>1, SequelOfSubmit
      <4>3. pending'.before = <<reference>> /\ pending'.move = move
        BY <2>1, <3>2
      <4>4. \A k \in DOMAIN pending'.before : pending'.before[k] = reference'
        BY <2>2, <4>3
      <4> QED
        BY <2>2, <4>2, <4>3, <4>4 DEF Sequel, SequelNext, SameAs, MovedBy
    <3> QED
      BY <3>1, <3>2
  <2>5. pending'.kind = "nudge"
    BY <2>1
  <2> QED
    BY <2>2, <2>3, <2>4, <2>5 DEF EvidenceInv, ViewsStand, MovesFollow, PulsesStand, NoJob
<1>3. CASE ClickScreenMove
  <2>1. /\ \E seq : Submit(seq, Untouched)
        /\ job' = NoJob /\ check' = NoJob /\ UNCHANGED <<reference, pos>> /\ Untouched.commanded = commanded
        /\ pending' = [kind |-> "screen"]
    BY <1>0, <1>3 DEF ClickScreenMove, CancelCheck, Untouched
  <2>2. commanded' = TRUE \/ commanded' = commanded
    BY <2>1 DEF Submit
  <2>3. ReferenceStands'
    BY <2>1, <2>2 DEF EvidenceInv, ReferenceStands, SameAs
  <2> QED
    BY <2>1, <2>3, NothingToShow
<1> QED
  BY <1>1, <1>2, <1>3

\* The polls that take views and outcomes keep the evidence of its own pulse.
LEMMA EvidenceOfPolls ==
  ASSUME Typed, OneAtATime, EvidenceInv, PollBefore \/ PollAfter \/ PollPulse
  PROVE  EvidenceInv'
<1>1. pos' = pos /\ worker = NoWork /\ check = NoJob /\ check' = NoJob
  BY Shapes DEF Distinct, PollBefore, PollAfter, PollPulse, Take, OneAtATime, Handover, ghostVars
<1>2. CASE PollBefore \/ PollAfter
  <2> DEFINE left == Captured(job.shot)
  <2>1. /\ Verified(job.shot) /\ job # NoJob /\ job.done /\ outcome = NoOutcome
        /\ left.commanded = (commanded /\ job.shot.got = {}) /\ left.outcome = NoOutcome
    BY <1>2, Shapes DEF Distinct, PollBefore, PollAfter, Captured, OneAtATime, Handover
  <2>2. SameAs(job.shot.pos)
    BY <2>1 DEF EvidenceInv, ViewsStand
  <2>3. commanded' = TRUE \/ commanded' = left.commanded => ReferenceStands'
    BY <1>1, <2>1, <2>2, VerifiedStands DEF EvidenceInv
  <2>4. \/ \E axis, n : Abort(axis, n, left)
        \/ \E q, n : BeginStep(q, n, left)
        \/ \E n : SubmitStep(queue, job.shot, n, left)
    BY <1>2, PollAfterCases DEF PollBefore
  <2>6. job.shot.pos \in [Axes -> Int]
    <3>1. job.shot \in Shots
      BY <2>1, ShotTyped, Shapes DEF Distinct, Typed, DeskTyped, JobShape
    <3> QED
      BY <3>1 DEF Shots
  <2> HIDE DEF left
  <2>5. CASE (\E axis, n : Abort(axis, n, left)) \/ (\E q, n : BeginStep(q, n, left))
    <3>1. /\ job' = NoJob \/ job' = Capture("before", NoMove)
          /\ pending'.kind = "none" \/ (pending'.kind = "calibration" /\ pending'.step.role = "return")
          /\ commanded' = TRUE \/ commanded' = left.commanded
      <4>1. ASSUME NEW axis, NEW n, Abort(axis, n, left)
            PROVE  /\ job' = NoJob /\ pending'.kind = "none"
                   /\ commanded' = TRUE \/ commanded' = left.commanded
        <5>1. NoMove.kind = "none"
          BY DEF NoMove
        <5> QED
          BY <1>1, <4>1, <5>1, PieceEvidence
      <4>2. ASSUME NEW q, NEW n, BeginStep(q, n, left)
            PROVE  /\ job' = NoJob \/ job' = Capture("before", NoMove)
                   /\ pending'.kind = "none" \/ (pending'.kind = "calibration" /\ pending'.step.role = "return")
                   /\ commanded' = TRUE \/ commanded' = left.commanded
        BY <1>1, <4>2, PieceEvidence
      <4> QED
        BY <2>5, <4>1, <4>2
    <3> QED
      BY <1>1, <2>3, <3>1, NothingToShow
  <2>7. CASE \E n : SubmitStep(queue, job.shot, n, left)
    <3> DEFINE move == [axis |-> Head(queue).axis, dir |-> Head(queue).dir, size |-> StepSize(Head(queue))]
    <3>1. /\ job' = NoJob /\ (commanded' = TRUE \/ commanded' = left.commanded)
          /\ pending' = [kind |-> "calibration", step |-> Head(queue), size |-> StepSize(Head(queue)),
                         before |-> job.shot]
      BY <1>1, <2>7, PieceEvidence
    <3>2. Submit(<<move>>, left)
      BY <1>1, <2>7 DEF SubmitStep, Busy, NoWork
    <3>3. SequelNext(job.shot.pos, move)
      BY <1>1, <2>1, <2>2, <2>6, <3>2, SequelOfSubmit
    <3>4. pending'.before.pos = job.shot.pos /\ MoveOf(pending)' = move
      BY <3>1 DEF MoveOf
    <3> HIDE DEF move
    <3>5. Sequel(pending.before.pos, MoveOf(pending))'
      BY <3>3, <3>4 DEF Sequel, SequelNext, SameAs, MovedBy
    <3>6. ReferenceStands'
      BY <2>3, <3>1
    <3>7. pending'.kind = "calibration"
      BY <3>1
    <3> QED
      BY <1>1, <3>1, <3>5, <3>6, <3>7 DEF EvidenceInv, ViewsStand, MovesFollow, PulsesStand, NoJob
  <2> QED
    BY <2>4, <2>5, <2>7
<1>3. CASE PollPulse
  <2>1. reference' = reference /\ Taken.commanded = commanded /\ outcome # NoOutcome
        /\ pending.kind = "calibration"
    BY <1>3 DEF PollPulse, Taken, Take
  <2>2. commanded' = TRUE \/ commanded' = commanded => ReferenceStands'
    BY <1>1, <2>1 DEF EvidenceInv, ReferenceStands, SameAs
  <2>3. CASE (\E axis, n : Abort(axis, n, Taken)) \/ (\E q, n : BeginStep(q, n, Taken))
    <3>1. /\ job' = NoJob \/ job' = Capture("before", NoMove)
          /\ pending'.kind = "none" \/ (pending'.kind = "calibration" /\ pending'.step.role = "return")
          /\ commanded' = TRUE \/ commanded' = Taken.commanded
      <4>1. ASSUME NEW axis, NEW n, Abort(axis, n, Taken)
            PROVE  /\ job' = NoJob /\ pending'.kind = "none"
                   /\ commanded' = TRUE \/ commanded' = Taken.commanded
        <5>1. NoMove.kind = "none"
          BY DEF NoMove
        <5> QED
          BY <1>1, <4>1, <5>1, PieceEvidence
      <4>2. ASSUME NEW q, NEW n, BeginStep(q, n, Taken)
            PROVE  /\ job' = NoJob \/ job' = Capture("before", NoMove)
                   /\ pending'.kind = "none" \/ (pending'.kind = "calibration" /\ pending'.step.role = "return")
                   /\ commanded' = TRUE \/ commanded' = Taken.commanded
        BY <1>1, <4>2, PieceEvidence
      <4> QED
        BY <2>3, <4>1, <4>2
    <3> QED
      BY <1>1, <2>1, <2>2, <3>1, NothingToShow
  <2>4. CASE /\ outcome.pulsed /\ pending.step.role # "return"
             /\ job' = Capture("after", pending) /\ pending' = NoMove /\ NoSubmit(Taken)
    <3>1. Sequel(pending.before.pos, MoveOf(pending))
      BY <2>1, <2>4 DEF EvidenceInv, MovesFollow
    <3>2. pending.before.pos \in [Axes -> Int] /\ MovedBy(pending.before.pos, MoveOf(pending))
      BY <1>1, <2>4, <3>1 DEF Sequel, Early, Report, NoWork
    <3>3. ReferenceStands'
      BY <2>1, <2>2, <2>4 DEF NoSubmit
    <3>4. job'.phase = "after" /\ job'.move = pending /\ ~job'.done
      BY <2>4 DEF Capture
    <3>5. MovedBy(job.move.before.pos, MoveOf(job.move))' /\ job'.move.before.pos \in [Axes -> Int]
      BY <1>1, <3>2, <3>4 DEF MovedBy, MoveOf
    <3>6. pending'.kind = "none"
      BY <2>4 DEF NoMove
    <3> QED
      BY <1>1, <3>3, <3>4, <3>5, <3>6 DEF EvidenceInv, ViewsStand, MovesFollow, PulsesStand
  <2> QED
    BY <1>3, <2>3, <2>4 DEF PollPulse
<1> QED
  BY <1>2, <1>3

\* Every step keeps the evidence of its own pulse.
LEMMA EvidenceKept ==
  ASSUME ClicksAfterPoll, Typed, OneAtATime, EvidenceInv, [Next]_vars
  PROVE  EvidenceInv'
<1> DEFINE Kept == /\ UNCHANGED <<worker, outcome, pos>>
                   /\ (reference' = reference /\ commanded' = commanded) \/ ReferenceStands'
                   /\ job' = NoJob \/ job' = job
                   /\ check' = NoJob \/ check' = check
                   /\ pending' = NoMove \/ pending' = pending
<1>1. ASSUME Kept PROVE EvidenceInv'
  <2>1. ReferenceStands'
    BY <1>1 DEF EvidenceInv, ReferenceStands, SameAs
  <2>2. ViewsStand'
    BY <1>1 DEF EvidenceInv, ViewsStand, SameAs
  <2>3. MovesFollow'
    BY <1>1 DEF EvidenceInv, MovesFollow, Sequel, SameAs, MovedBy, Early, Report, MoveOf, NoMove
  <2>4. PulsesStand'
    BY <1>1 DEF EvidenceInv, PulsesStand, MovedBy, MoveOf, NoJob
  <2> QED
    BY <2>1, <2>2, <2>3, <2>4 DEF EvidenceInv
<1>2. CASE Connect \/ Disconnect \/ ClickStop \/ ClickStopMount \/ ChangeMode \/ PollCaptureError
           \/ PollIdle \/ OtherClaims \/ OtherReleases \/ UNCHANGED vars
  <2>1. Kept
    BY <1>2 DEF Connect, Disconnect, ClickStop, ClickStopMount, ChangeMode, PollCaptureError, PollIdle,
         OtherClaims, OtherReleases, StopAll, CancelActivity, CancelCheck, vars, panelVars, runVars,
         runnerVars, ghostVars
  <2> QED
    BY <1>1, <2>1
<1>3. CASE ClickCalibrate \/ ClickNudge \/ ClickScreenMove
  BY <1>3, EvidenceOfClicks
<1>4. CASE PollBefore \/ PollAfter \/ PollPulse
  BY <1>4, EvidenceOfPolls
<1>5. CASE CaptureEnds
  <2>1. /\ job # NoJob /\ job'.phase = job.phase /\ job'.move = job.move /\ job'.shot.pos = pos
        /\ UNCHANGED <<pending, check, worker, outcome, pos, reference, commanded>>
    BY <1>5 DEF CaptureEnds, Seen, runVars, runnerVars, ghostVars
  <2>2. ReferenceStands' /\ ViewsStand'
    BY <2>1 DEF EvidenceInv, ReferenceStands, ViewsStand, SameAs
  <2>3. MovesFollow'
    BY <2>1 DEF EvidenceInv, MovesFollow, Sequel, SameAs, MovedBy, Early, Report, MoveOf
  <2>4. PulsesStand'
    BY <2>1 DEF EvidenceInv, PulsesStand, MovedBy, MoveOf
  <2> QED
    BY <2>2, <2>3, <2>4 DEF EvidenceInv
<1>6. CASE CheckEnds
  <2>1. /\ check # NoJob /\ check'.move = check.move /\ check'.shot.pos = pos
        /\ UNCHANGED <<pending, job, worker, outcome, pos, reference, commanded>>
    BY <1>6 DEF CheckEnds, Seen, runVars, runnerVars, ghostVars
  <2>2. ReferenceStands' /\ ViewsStand'
    BY <2>1 DEF EvidenceInv, ReferenceStands, ViewsStand, SameAs
  <2>3. MovesFollow'
    BY <2>1 DEF EvidenceInv, MovesFollow, Sequel, SameAs, MovedBy, Early, Report, MoveOf
  <2>4. PulsesStand'
    BY <2>1 DEF EvidenceInv, PulsesStand, MovedBy, MoveOf
  <2> QED
    BY <2>2, <2>3, <2>4 DEF EvidenceInv
<1>7. CASE PollCheck
  <2>1. /\ check' = NoJob /\ UNCHANGED <<worker, outcome, pos, job, pending>> /\ Verified(check.shot)
        /\ commanded' = (commanded /\ check.shot.got = {}) /\ SameAs(check.shot.pos)
    BY <1>7 DEF PollCheck, NoSubmit, Captured, ghostVars, EvidenceInv, ViewsStand
  <2>2. ReferenceStands'
    BY <2>1, VerifiedStands DEF EvidenceInv
  <2> QED
    BY <1>1, <2>1, <2>2
<1>8. CASE PollNudge \/ PollScreenMove \/ PollReturn
  <2>1. /\ worker = NoWork /\ job' = NoJob /\ pending' = NoMove
        /\ UNCHANGED <<reference, commanded, pos>>
    BY <1>8, Shapes DEF Distinct, PollNudge, PollScreenMove, PollReturn, Take, NoSubmit, Taken, runVars, ghostVars,
                        OneAtATime, Handover
  <2>2. ReferenceStands'
    BY <2>1 DEF EvidenceInv, ReferenceStands, SameAs
  <2>3. CASE check' = Capture("check", pending) /\ outcome.pulsed /\ pending.kind = "nudge"
    <3>1. ASSUME NEW k \in DOMAIN pending.before
          PROVE  pending.before[k].pos \in [Axes -> Int] /\ MovedBy(pending.before[k].pos, pending.move)
      BY <2>1, <2>3 DEF EvidenceInv, MovesFollow, Sequel, Early, Report, NoWork
    <3>2. check'.move = pending /\ ~check'.done
      BY <2>3 DEF Capture
    <3>3. PulsesStand'
      BY <2>1, <3>1, <3>2 DEF PulsesStand, MovedBy, NoJob
    <3> QED
      BY <2>1, <2>2, <3>2, <3>3 DEF EvidenceInv, ViewsStand, MovesFollow, NoMove
  <2>4. CASE check' = check
    <3>1. ViewsStand' /\ PulsesStand'
      BY <2>1, <2>4 DEF EvidenceInv, ViewsStand, PulsesStand, SameAs, MovedBy, NoJob
    <3> QED
      BY <2>1, <2>2, <3>1 DEF EvidenceInv, MovesFollow, NoMove
  <2> QED
    BY <1>8, <2>3, <2>4 DEF PollNudge, PollScreenMove, PollReturn, Take
<1>9. CASE Worker
  <2>1. Busy /\ UNCHANGED <<reference, commanded, job, check, pending>>
    BY <1>9 DEF Worker, WorkerIssues, WorkerMoves, WorkerRefuses, WorkerFails, WorkerReleases,
                WorkerPublishes, Busy, panelVars, runVars
  <2>2. commanded /\ job = NoJob /\ check = NoJob
    BY <2>1, Shapes DEF Distinct, OneAtATime, Handover
  <2>3. ReferenceStands' /\ ViewsStand' /\ PulsesStand'
    BY <2>1, <2>2 DEF ReferenceStands, ViewsStand, PulsesStand, NoJob
  <2>4. \A p, m : m \in Moves /\ Sequel(p, m) => SequelNext(p, m)
    BY <1>9, SequelKept
  <2>5. MovesFollow'
    <3>1. pending.kind = "calibration" => MoveOf(pending) \in Moves
      <4> SUFFICES ASSUME pending.kind = "calibration" PROVE MoveOf(pending) \in Moves
        OBVIOUS
      <4>1. pending \in Calibrations
        BY DEF Typed, DeskTyped, NoMove, NudgeMoves
      <4>2. pending.step \in Steps /\ pending.size \in Nat \ {0}
        BY <4>1 DEF Calibrations
      <4> QED
        BY <4>2 DEF MoveOf, Moves, Steps
    <3>2. pending.kind = "nudge" => pending.move \in Moves
      BY DEF Typed, DeskTyped, NoMove, NudgeMoves, Calibrations
    <3>3. MoveOf(pending)' = MoveOf(pending)
      BY <2>1 DEF MoveOf
    <3>4. pending.kind = "calibration" /\ pending.step.role # "return" =>
            Sequel(pending.before.pos, MoveOf(pending))'
      <4> SUFFICES ASSUME pending.kind = "calibration", pending.step.role # "return"
                   PROVE  Sequel(pending.before.pos, MoveOf(pending))'
        OBVIOUS
      <4>1. SequelNext(pending.before.pos, MoveOf(pending))
        BY <2>4, <3>1 DEF EvidenceInv, MovesFollow
      <4> QED
        BY <2>1, <3>3, <4>1 DEF Sequel, SequelNext, SameAs, MovedBy
    <3>5. pending.kind = "nudge" => \A k \in DOMAIN pending.before : Sequel(pending.before[k].pos, pending.move)'
      <4> SUFFICES ASSUME pending.kind = "nudge", NEW k \in DOMAIN pending.before
                   PROVE  Sequel(pending.before[k].pos, pending.move)'
        BY <2>1
      <4>1. SequelNext(pending.before[k].pos, pending.move)
        BY <2>4, <3>2 DEF EvidenceInv, MovesFollow
      <4> QED
        BY <2>1, <4>1 DEF Sequel, SequelNext, SameAs, MovedBy
    <3> QED
      BY <2>1, <3>4, <3>5 DEF MovesFollow
  <2> QED
    BY <2>3, <2>5 DEF EvidenceInv
<1> QED
  BY <1>2, <1>3, <1>4, <1>5, <1>6, <1>7, <1>8, <1>9 DEF Next, Poll

\* Hence the evidence is of its own pulse, always.
LEMMA AlwaysEvidence ==
  ASSUME ClicksAfterPoll
  PROVE  Spec => []EvidenceInv
<1>1. Init => EvidenceInv
  BY DEF Init, EvidenceInv, ReferenceStands, ViewsStand, MovesFollow, PulsesStand, NoMove, NoJob
<1>2. Typed /\ OneAtATime /\ EvidenceInv /\ [Next]_vars => EvidenceInv'
  BY EvidenceKept
<1> QED
  BY <1>1, <1>2, AlwaysTyped, AlwaysOneAtATime, PTL DEF Spec

\* Every displacement a run records or a nudge's check judges is that of its own move, at the
\* size it was sent with (mount_test_move_panel.py, mount_align_capture.py), when clicks come
\* after the poll.
THEOREM OwnEvidence ==
  ASSUME ClicksAfterPoll
  PROVE  Spec => []EvidenceOfOwnPulse
BY EvidenceImplies, AlwaysTyped, AlwaysOneAtATime, AlwaysEvidence, PTL

-----------------------------------------------------------------------------
(* The run's account: its net is where the mount stands.                     *)

\* What a failed move carried out and counted.
Counted(m) == [axis |-> m.axis, dir |-> m.dir, size |-> Report.sent]
\* A calibration pulse sent from the place p, and what is counted of it when it fails.
Settled(p, m) ==
  /\ Sequel(p, m)
  /\ ~Early /\ ~Report.pulsed => MovedBy(p, Counted(m))
\* The same after a step.
SettledNext(p, m) ==
  /\ SequelNext(p, m)
  /\ ~Early' /\ ~Report'.pulsed =>
       \A a \in Axes : pos'[a] = p[a] + (IF a = m.axis THEN m.dir * Report'.sent ELSE 0)

NetInv ==
  /\ job # NoJob => SameAs(net)
  /\ pending.kind = "calibration" => Settled(net, MoveOf(pending))

\* A move that is handed over is settled or still to be told.
LEMMA SettledOfSubmit ==
  ASSUME NEW m \in Moves, NEW left, left.outcome = NoOutcome, worker = NoWork, Submit(<<m>>, left),
         NEW p \in [Axes -> Int], SameAs(p), pos' = pos
  PROVE  SettledNext(p, m)
<1>1. SequelNext(p, m)
  BY SequelOfSubmit
<1>2. CASE worker' = [at |-> "sending", seq |-> <<m>>, i |-> 1]
  BY <1>1, <1>2 DEF SettledNext, Early
<1>3. CASE worker' = NoWork /\ outcome' = Failure(0)
  <2>1. Report'.sent = 0
    BY <1>3 DEF Report, Failure
  <2>2. \A a \in Axes : pos'[a] = p[a] + (IF a = m.axis THEN m.dir * 0 ELSE 0)
    BY DEF SameAs, Moves
  <2> QED
    BY <1>1, <2>1, <2>2 DEF SettledNext
<1> QED
  BY <1>2, <1>3, Handed

\* The worker keeps the account of the move it makes.
LEMMA SettledKept ==
  ASSUME Typed, OneAtATime, NEW p, NEW m \in Moves, Settled(p, m), Worker
  PROVE  SettledNext(p, m)
<1>1. SequelNext(p, m)
  BY SequelKept DEF Settled
<1>2. CASE WorkerIssues
  <2>1. worker' = [worker EXCEPT !.at = "moving"]
        /\ worker \in [at : {"sending", "moving"}, seq : Seq(Moves), i : Nat \ {0}]
    BY <1>2, CurrentTyped DEF WorkerIssues, Typed, DeskTyped
  <2> QED
    BY <1>1, <2>1 DEF SettledNext, Early
<1>3. CASE WorkerMoves
  <2>1. Early
    BY <1>3 DEF WorkerMoves, Early
  <2>2. worker.seq = <<m>> /\ worker.i = 1
    BY <2>1 DEF Settled, Sequel
  <2>3. worker' = [at |-> "ending", result |-> Success]
    BY <1>3, <2>2 DEF WorkerMoves
  <2>4. Report'.pulsed
    BY <2>3 DEF Report, NoWork, Success
  <2> QED
    BY <1>1, <2>4 DEF SettledNext
<1>4. CASE WorkerRefuses \/ WorkerFails
  <2>1. Early
    BY <1>4 DEF WorkerRefuses, WorkerFails, Early
  <2>2. worker.seq = <<m>> /\ worker.i = 1 /\ SameAs(p) /\ p \in [Axes -> Int]
    BY <2>1 DEF Settled, Sequel
  <2>3. PICK sent \in Nat : /\ worker' = [at |-> "ending", result |-> Failure(sent)]
                            /\ pos' = [pos EXCEPT ![m.axis] = @ + m.dir * sent]
    <3>1. CASE WorkerRefuses
      <4>1. pos' = [pos EXCEPT ![m.axis] = @ + m.dir * 0]
        BY <3>1 DEF WorkerRefuses, ghostVars, Typed, GhostTyped, Moves
      <4> QED
        BY <3>1, <4>1 DEF WorkerRefuses
    <3>2. CASE WorkerFails
      <4>1. Current = m
        BY <2>2 DEF Current
      <4>2. PICK k \in 0 .. (IF primitive = "guide" THEN Ceil(m.size, GuideMax) - 1 ELSE 0) :
              /\ pos' = [pos EXCEPT ![m.axis] = @ + m.dir * Sent(m.size, k)]
              /\ worker' = [at |-> "ending", result |-> Failure(Sent(m.size, k))]
        BY <3>2, <4>1 DEF WorkerFails
      <4>3. Sent(m.size, k) \in Nat
        BY SentOfMove
      <4> QED
        BY <4>2, <4>3
    <3> QED
      BY <1>4, <3>1, <3>2
  <2>4. Report'.sent = sent
    BY <2>3 DEF Report, NoWork, Failure
  <2>5. pos \in [Axes -> Int] /\ m.axis \in Axes /\ m.dir * sent \in Int
    BY DEF Typed, GhostTyped, Moves
  <2>6. \A a \in Axes : pos'[a] = p[a] + (IF a = m.axis THEN m.dir * sent ELSE 0)
    BY <2>2, <2>3, <2>5 DEF SameAs
  <2> QED
    BY <1>1, <2>4, <2>6 DEF SettledNext
<1>5. CASE WorkerReleases \/ WorkerPublishes
  <2>1. worker \in [at : {"ending", "released"}, result : Results]
    BY <1>5 DEF WorkerReleases, WorkerPublishes, Typed, DeskTyped, RunnerTyped, Workers, NoWork
  <2>2. ~Early /\ Report' = Report /\ pos' = pos
    <3>1. CASE WorkerReleases
      <4>1. worker' = [at |-> "released", result |-> worker.result]
        BY <2>1, <3>1 DEF WorkerReleases
      <4> QED
        BY <2>1, <3>1, <4>1 DEF WorkerReleases, Early, Report, NoWork, ghostVars
    <3>2. CASE WorkerPublishes
      BY <2>1, <3>2 DEF WorkerPublishes, Early, Report, NoWork, ghostVars
    <3> QED
      BY <1>5, <3>1, <3>2
  <2> QED
    BY <1>1, <2>2 DEF Settled, SettledNext, MovedBy, Counted
<1> QED
  BY <1>2, <1>3, <1>4, <1>5 DEF Worker

\* What a piece sends or asks for starts where the run counts the mount to be.
LEMMA PieceSettled ==
  ASSUME Typed, NEW left, left.outcome = NoOutcome, worker = NoWork, NEW q \in Seq(Steps),
         NEW n \in [Axes -> Int], SameAs(n), pos' = pos, net' = n
  PROVE  /\ \A before : q # <<>> /\ SubmitStep(q, before, n, left) => NetInv'
         /\ BeginStep(q, n, left) => NetInv'
<1>0. ~Busy
  BY DEF Busy, NoWork
<1>1. ASSUME NEW before, q # <<>>, SubmitStep(q, before, n, left) PROVE NetInv'
  <2> DEFINE m == [axis |-> Head(q).axis, dir |-> Head(q).dir, size |-> StepSize(Head(q))]
  <2>1. /\ job' = NoJob /\ Submit(<<m>>, left)
        /\ pending' = [kind |-> "calibration", step |-> Head(q), size |-> StepSize(Head(q)), before |-> before]
    BY <1>0, <1>1 DEF SubmitStep
  <2>2. m \in Moves
    <3>1. Head(q) \in Steps
      BY <1>1, HeadTailProperties
    <3>2. size \in Nat \ {0}
      BY SMTT(60), SizesTyped DEF Typed, MeasuredTyped
    <3> QED
      BY <3>1, <3>2 DEF StepSize, Steps, Moves
  <2>3. SettledNext(n, m)
    BY <2>1, <2>2, SettledOfSubmit
  <2>4. MoveOf(pending)' = m
    BY <2>1 DEF MoveOf
  <2> HIDE DEF m
  <2> QED
    BY <2>1, <2>3, <2>4 DEF NetInv, SettledNext, SequelNext, Settled, Sequel, SameAs, MovedBy, Counted, NoJob
<1>2. ASSUME BeginStep(q, n, left) PROVE NetInv'
  <2>1. CASE q # <<>> /\ Head(q).role = "return"
    BY <1>1, <1>2, <2>1 DEF BeginStep
  <2>2. CASE ~(q # <<>> /\ Head(q).role = "return")
    <3>1. pending' = NoMove
      BY <1>2, <2>2 DEF BeginStep, FinishCalibration
    <3> QED
      BY <3>1 DEF NetInv, SameAs, NoMove
  <2> QED
    BY <2>1, <2>2
<1> QED
  BY <1>1, <1>2

\* Nothing to account for is left after an abort.
LEMMA NothingToAccount ==
  ASSUME job' = NoJob, pending'.kind # "calibration"
  PROVE  NetInv'
BY DEF NetInv

\* The net a taken outcome leads to is where the mount stands.
LEMMA PulseCounted ==
  ASSUME Typed, OneAtATime, NetInv, PollPulse
  PROVE  /\ pending \in Calibrations /\ pending.step \in Steps /\ pending.size \in Nat \ {0}
         /\ worker = NoWork /\ outcome \in Results /\ net' \in [Axes -> Int] /\ SameAs(net') /\ pos' = pos
         /\ \E sz \in Nat : /\ outcome.pulsed => sz = pending.size
                            /\ net' = Accounted(pending.step, sz)
<1>1. pending \in Calibrations /\ worker = NoWork /\ outcome \in Results /\ pos' = pos
  BY DEF PollPulse, Take, Typed, DeskTyped, RunnerTyped, NoMove, NudgeMoves, OneAtATime, Handover, ghostVars
<1>2. pending.step \in Steps /\ pending.size \in Nat \ {0} /\ outcome.sent \in Nat /\ net \in [Axes -> Int]
  BY <1>1 DEF Calibrations, Results, Typed, RunTyped
<1>3. PICK sz \in Nat : /\ outcome.pulsed => sz = pending.size
                        /\ ~outcome.pulsed => sz = outcome.sent
                        /\ net' = Accounted(pending.step, sz)
  <2>1. \/ outcome.pulsed /\ net' = Accounted(pending.step, pending.size)
        \/ ~outcome.pulsed /\ net' = Accounted(pending.step, outcome.sent)
    BY DEF PollPulse
  <2> QED
    BY <1>2, <2>1
<1>4. Settled(net, MoveOf(pending)) /\ ~Early /\ Report = outcome
  BY <1>1 DEF NetInv, PollPulse, Take, Early, Report, NoWork
<1>5. MovedBy(net, [axis |-> pending.step.axis, dir |-> pending.step.dir, size |-> sz])
  <2>1. CASE outcome.pulsed
    BY <1>3, <1>4, <2>1 DEF Settled, Sequel, MoveOf, MovedBy
  <2>2. CASE ~outcome.pulsed
    BY <1>3, <1>4, <2>2 DEF Settled, Counted, MoveOf, MovedBy
  <2> QED
    BY <2>1, <2>2
<1>6. pending.step.axis \in Axes /\ pending.step.dir * sz \in Int
  BY <1>2 DEF Steps
<1>7. net' = [net EXCEPT ![pending.step.axis] = @ + pending.step.dir * sz]
  BY <1>3 DEF Accounted
<1>8. net' \in [Axes -> Int] /\ SameAs(net')
  BY <1>2, <1>5, <1>6, <1>7 DEF MovedBy, SameAs
<1> QED
  BY <1>1, <1>2, <1>3, <1>8

-----------------------------------------------------------------------------
(* Courses: where a sequence of moves of one axis leads.                     *)

Home(x) == Size(x) < Floor

\* From x the moves e of an axis lead to y.
Leads(e, x, y) ==
  \E T \in [1 .. Len(e) + 1 -> Int] :
    /\ T[1] = x /\ T[Len(e) + 1] = y
    /\ \A k \in 1 .. Len(e) : T[k + 1] = T[k] + e[k].dir * e[k].size

\* An axis at zero is home.
LEMMA HomeAtZero == Home(0)
BY SizesTyped DEF Home, Size

\* No moves lead nowhere.
LEMMA LeadsEmpty == \A x \in Int : Leads(<<>>, x, x)
<1> SUFFICES ASSUME NEW x \in Int PROVE Leads(<<>>, x, x)
  OBVIOUS
<1> DEFINE T == [k \in 1 .. 1 |-> x]
<1>1. T \in [1 .. Len(<<>>) + 1 -> Int] /\ T[1] = x /\ T[Len(<<>>) + 1] = x
  OBVIOUS
<1>2. \A k \in 1 .. Len(<<>>) : T[k + 1] = T[k] + <<>>[k].dir * <<>>[k].size
  OBVIOUS
<1> HIDE DEF T
<1> QED
  BY <1>1, <1>2 DEF Leads

\* Moves that follow moves lead on.
LEMMA LeadsOn ==
  ASSUME NEW S, NEW d \in Seq(S), NEW e \in Seq(S), NEW x, NEW y, NEW z, Leads(d, x, y), Leads(e, y, z)
  PROVE  Leads(d \o e, x, z)
<1>1. PICK T \in [1 .. Len(d) + 1 -> Int] :
        /\ T[1] = x /\ T[Len(d) + 1] = y
        /\ \A k \in 1 .. Len(d) : T[k + 1] = T[k] + d[k].dir * d[k].size
  BY DEF Leads
<1>2. PICK U \in [1 .. Len(e) + 1 -> Int] :
        /\ U[1] = y /\ U[Len(e) + 1] = z
        /\ \A k \in 1 .. Len(e) : U[k + 1] = U[k] + e[k].dir * e[k].size
  BY DEF Leads
<1>3. /\ Len(d) \in Nat /\ Len(e) \in Nat /\ Len(d \o e) = Len(d) + Len(e)
      /\ \A k \in 1 .. Len(d) : (d \o e)[k] = d[k]
      /\ \A k \in 1 .. Len(e) : (d \o e)[Len(d) + k] = e[k]
  BY ConcatProperties
<1> DEFINE V == [k \in 1 .. Len(d) + Len(e) + 1 |-> IF k <= Len(d) THEN T[k] ELSE U[k - Len(d)]]
<1>4. V \in [1 .. Len(d) + Len(e) + 1 -> Int]
  <2>1. ASSUME NEW k \in 1 .. Len(d) + Len(e) + 1
        PROVE  (IF k <= Len(d) THEN T[k] ELSE U[k - Len(d)]) \in Int
    <3>1. CASE k <= Len(d)
      BY <1>3, <3>1
    <3>2. CASE ~(k <= Len(d))
      <4>1. k - Len(d) \in 1 .. Len(e) + 1
        BY <1>3, <3>2
      <4> QED
        BY <3>2, <4>1
    <3> QED
      BY <3>1, <3>2
  <2> QED
    BY <2>1
<1>5. V[1] = x /\ V[Len(d) + Len(e) + 1] = z
  <2>1. V[Len(d) + Len(e) + 1] = U[Len(e) + 1]
    BY <1>3
  <2>2. V[1] = x
    <3>1. CASE Len(d) = 0
      <4>1. V[1] = U[1]
        BY <1>3, <3>1
      <4> QED
        BY <1>1, <1>2, <3>1, <4>1
    <3>2. CASE Len(d) # 0
      <4>1. V[1] = T[1]
        BY <1>3, <3>2
      <4> QED
        BY <1>1, <4>1
    <3> QED
      BY <3>1, <3>2
  <2> QED
    BY <1>2, <2>1, <2>2
<1>6. ASSUME NEW k \in 1 .. Len(d) + Len(e)
      PROVE  V[k + 1] = V[k] + (d \o e)[k].dir * (d \o e)[k].size
  <2>1. CASE k < Len(d)
    <3>1. k \in 1 .. Len(d) /\ V[k + 1] = T[k + 1] /\ V[k] = T[k]
      BY <1>3, <2>1
    <3> QED
      BY <1>1, <1>3, <3>1
  <2>2. CASE k = Len(d)
    <3>1. k \in 1 .. Len(d) /\ V[k + 1] = U[1] /\ V[k] = T[k]
      BY <1>3, <2>2
    <3>2. T[k + 1] = y
      BY <1>1, <2>2
    <3> QED
      BY <1>1, <1>2, <1>3, <3>1, <3>2
  <2>3. CASE k > Len(d)
    <3> DEFINE i == k - Len(d)
    <3>1. i \in 1 .. Len(e) /\ k = Len(d) + i /\ V[k + 1] = U[i + 1] /\ V[k] = U[i]
      BY <1>3, <2>3
    <3>2. (d \o e)[k] = e[i]
      BY <1>3, <3>1
    <3> HIDE DEF i
    <3> QED
      BY <1>2, <3>1, <3>2
  <2> QED
    BY <1>3, <2>1, <2>2, <2>3
<1> HIDE DEF V
<1> QED
  BY ZenonT(60), <1>3, <1>4, <1>5, <1>6 DEF Leads

\* A group of measured moves comes back to where it began.
LEMMA LeadsGroup ==
  ASSUME NEW axis \in Axes, NEW sz \in Nat, NEW cam, NEW x \in Int
  PROVE  Leads(Group(axis, sz, cam), x, x)
<1> DEFINE e == Group(axis, sz, cam)
           T == <<x, x + sz, x + 2 * sz, x + sz, x>>
<1>1. Len(e) = 4 /\ e[1].dir = 1 /\ e[2].dir = 1 /\ e[3].dir = -1 /\ e[4].dir = -1
  BY DEF Group, Step
<1>2. e[1].size = sz /\ e[2].size = sz /\ e[3].size = sz /\ e[4].size = sz
  BY DEF Group, Step
<1>3. T \in [1 .. 5 -> Int]
  OBVIOUS
<1>4. T[2] = T[1] + 1 * sz /\ T[3] = T[2] + 1 * sz /\ T[4] = T[3] + (-1) * sz /\ T[5] = T[4] + (-1) * sz
  OBVIOUS
<1>5. T[1] = x /\ T[5] = x
  OBVIOUS
<1> HIDE DEF e, T
<1>6. \A k \in 1 .. Len(e) : T[k + 1] = T[k] + e[k].dir * e[k].size
  <2> SUFFICES ASSUME NEW k \in 1 .. 4 PROVE T[k + 1] = T[k] + e[k].dir * e[k].size
    BY <1>1
  <2>1. k = 1 \/ k = 2 \/ k = 3 \/ k = 4
    OBVIOUS
  <2> QED
    BY <1>1, <1>2, <1>4, <2>1
<1>7. Leads(e, x, x)
  BY <1>1, <1>3, <1>5, <1>6 DEF Leads
<1> QED
  BY <1>7 DEF e

\* Equal parts of a total, all one way, lead back over the whole of it.
LEMMA LeadsBack ==
  ASSUME NEW x \in Int, x # 0, NEW c \in Nat \ {0}, NEW e, Len(e) = c,
         \A k \in 1 .. c : e[k].dir = Back(x) /\ e[k].size = Even(Size(x), c)[k]
  PROVE  Leads(e, x, 0)
<1> DEFINE a == Size(x)
           b == Back(x)
           q == a \div c
           r == a % c
           T == [k \in 1 .. c + 1 |-> x + b * ((k - 1) * q + (IF k - 1 <= r THEN k - 1 ELSE r))]
<1>1. a \in Nat /\ b \in {1, -1} /\ x + b * a = 0
  BY DEF Size, Back
<1>2. q \in Nat /\ r \in 0 .. c - 1 /\ a = c * q + r
  <2>1. a \in Nat /\ c \in Nat \ {0}
    BY <1>1
  <2> HIDE DEF a
  <2> QED
    BY <2>1, Division, Zenon
<1>3. \A k \in 1 .. c : e[k].dir = b /\ e[k].size = q + (IF k <= r THEN 1 ELSE 0)
  BY DEF Even
<1> HIDE DEF a, b, q, r
<1>4. T \in [1 .. c + 1 -> Int]
  <2>1. ASSUME NEW k \in 1 .. c + 1
        PROVE  x + b * ((k - 1) * q + (IF k - 1 <= r THEN k - 1 ELSE r)) \in Int
    <3>1. (k - 1) * q \in Int /\ (IF k - 1 <= r THEN k - 1 ELSE r) \in Int
      BY <1>2
    <3> QED
      BY <1>1, <3>1
  <2> QED
    BY <2>1
<1>5. T[1] = x
  <2>1. T[1] = x + b * ((1 - 1) * q + (IF 1 - 1 <= r THEN 1 - 1 ELSE r))
    OBVIOUS
  <2>2. (1 - 1) * q + (IF 1 - 1 <= r THEN 1 - 1 ELSE r) = 0
    BY <1>2
  <2> QED
    BY <1>1, <2>1, <2>2
<1>6. T[c + 1] = 0
  <2>1. T[c + 1] = x + b * (((c + 1) - 1) * q + (IF (c + 1) - 1 <= r THEN (c + 1) - 1 ELSE r))
    OBVIOUS
  <2>2. (c + 1) - 1 = c /\ ~(c <= r)
    BY <1>2
  <2>3. T[c + 1] = x + b * (c * q + r)
    BY <2>1, <2>2
  <2> QED
    BY <1>1, <1>2, <2>3
<1>7. ASSUME NEW k \in 1 .. c
      PROVE  T[k + 1] = T[k] + e[k].dir * e[k].size
  <2> DEFINE s == (k - 1) * q
             i == IF k - 1 <= r THEN k - 1 ELSE r
             j == IF k <= r THEN k ELSE r
  <2>1. k \in 1 .. c + 1 /\ k + 1 \in 1 .. c + 1 /\ (k + 1) - 1 = k
    OBVIOUS
  <2>2. T[k] = x + b * (s + i) /\ T[k + 1] = x + b * (k * q + j)
    BY <2>1
  <2>3. k * q = s + q /\ s \in Int
    BY <1>2
  <2>4. j = i + (IF k <= r THEN 1 ELSE 0) /\ i \in Int
    BY <1>2
  <2> HIDE DEF s, i, j, T
  <2>5. T[k + 1] = x + b * (s + q + i + (IF k <= r THEN 1 ELSE 0))
    BY <1>2, <2>2, <2>3, <2>4
  <2>6. e[k].dir * e[k].size = b * (q + (IF k <= r THEN 1 ELSE 0))
    BY <1>3
  <2> QED
    BY <1>1, <1>2, <2>2, <2>3, <2>4, <2>5, <2>6
<1> HIDE DEF T
<1> QED
  BY <1>4, <1>5, <1>6, <1>7 DEF Leads

\* The way back over a net: every move back, its end no farther than a move could still make.
LEMMA LeadsHome ==
  ASSUME NEW x \in Int, NEW cap \in Nat \ {0}, NEW e, Len(e) = Len(ReturnChunks(Size(x), cap)),
         e \in Seq(Moves) \cup Seq(Steps),
         \A k \in 1 .. Len(e) : e[k].dir = Back(x) /\ e[k].size = ReturnChunks(Size(x), cap)[k]
  PROVE  \E y \in Int : Home(y) /\ Leads(e, x, y)
<1> DEFINE top == IF cap < Floor THEN Floor ELSE cap
<1>1. top \in Nat \ {0} /\ Floor \in Nat \ {0} /\ Size(x) \in Nat
  BY SizesTyped DEF Size
<1>2. CASE Size(x) < Floor
  <2>1. Len(e) = 0
    BY <1>2 DEF ReturnChunks
  <2>2. e = <<>>
    BY <2>1
  <2> QED
    BY <1>2, <2>2, LeadsEmpty DEF Home
<1>3. CASE Size(x) >= Floor
  <2>1. Size(x) \in Nat \ {0} /\ x # 0
    BY <1>1, <1>3 DEF Size
  <2>2. Ceil(Size(x), top) \in 1 .. Size(x)
    BY <1>1, <2>1, CeilBounds
  <2> DEFINE c == Ceil(Size(x), top)
  <2>3. ReturnChunks(Size(x), cap) = Even(Size(x), c)
    BY <1>1, <1>3 DEF ReturnChunks
  <2>4. c \in Nat \ {0}
    BY <1>1, <2>2
  <2> HIDE DEF c
  <2>5. Len(Even(Size(x), c)) = c
    BY <2>4 DEF Even
  <2>6. Leads(e, x, 0)
    BY <2>1, <2>3, <2>4, <2>5, LeadsBack
  <2> QED
    BY <2>6, HomeAtZero
<1> QED
  BY <1>1, <1>2, <1>3

-----------------------------------------------------------------------------
(* The plan: what is left of a run brings the mount home.                    *)

Other(axis) == 3 - axis
\* The size of every pulse of a run that sizes none; 0 in a run that does.
Unit == IF sized THEN 0 ELSE size

\* q: l steps put in front of what the calibration has left after its first j steps.
Ahead(j, q, l) ==
  /\ Len(q) = l + 8 - j
  /\ \A k \in 1 .. 8 - j : q[l + k] = CalibrationSteps[j + k]

\* Where the run is after j steps, with nothing put in front: at its start, but for what a
\* sizing's discarded probes may have left of the axis it is at.
Main(j, n, u) ==
  IF u = 0 THEN (j <= 3 => Home(n[2])) /\ (j >= 4 => Home(n[1])) /\ (j = 8 => Home(n[2]))
  ELSE /\ n[1] = (IF j \in {1, 3} THEN u ELSE IF j = 2 THEN 2 * u ELSE 0)
       /\ n[2] = (IF j \in {5, 7} THEN u ELSE IF j = 6 THEN 2 * u ELSE 0)

CourseAxis(j) == IF j = 4 THEN 1 ELSE 2
\* The steps a closed group puts in front: ways back, groups of one camera.
Extras(axis) ==
  {s \in Steps : s.axis = axis /\ s.size > 0 /\ (s.cam = "both" => s.role = "return")}
\* They bring home the axis whose group they follow; the other one is.
Extra(j, q, l, n, u) ==
  /\ u = 0 /\ j \in {4, 8} /\ Home(n[Other(CourseAxis(j))])
  /\ \A k \in 1 .. l : q[k] \in Extras(CourseAxis(j))
  /\ \E T \in [1 .. l + 1 -> Int] :
       /\ T[1] = n[CourseAxis(j)] /\ Home(T[l + 1])
       /\ \A k \in 1 .. l : T[k + 1] = T[k] + q[k].dir * q[k].size

\* The steps q, from the net n, end with both axes home.
Ready(q, n, u) ==
  \E j \in 0 .. 8, l \in Nat :
    /\ Ahead(j, q, l)
    /\ IF l = 0 THEN Main(j, n, u) ELSE Extra(j, q, l, n, u)

\* The same, with the step s just done and what it leads to not decided yet.
Done(s, q, n, u) ==
  \/ s.cam # "both" /\ Home(n[Other(s.axis)]) /\ Ready(q, n, u)
  \/ \E j \in 1 .. 8 :
       /\ s = CalibrationSteps[j] /\ Ahead(j, q, 0)
       /\ IF u = 0 THEN Home(n[IF j <= 4 THEN 2 ELSE 1]) ELSE Main(j, n, u)

\* The eight steps of a calibration, one by one.
LEMMA PlanSteps ==
  /\ Len(CalibrationSteps) = 8
  /\ \A k \in 1 .. 8 :
       /\ CalibrationSteps[k].axis = (IF k <= 4 THEN 1 ELSE 2)
       /\ CalibrationSteps[k].dir = (IF k \in {1, 2, 5, 6} THEN 1 ELSE -1)
       /\ CalibrationSteps[k].role = (IF k \in {1, 3, 5, 7} THEN "first" ELSE "repeat")
       /\ CalibrationSteps[k].size = 0 /\ CalibrationSteps[k].cam = "both"
<1> DEFINE d == Group(1, 0, "both")
           e == Group(2, 0, "both")
<1>1. CalibrationSteps = d \o e
  BY DEF CalibrationSteps
<1>2. d \in Seq(Steps) /\ e \in Seq(Steps)
  <2>1. 1 \in Axes /\ 2 \in Axes /\ 0 \in 0 .. MaxSize /\ "both" \in Cameras \cup {"both"}
    BY SizesTyped DEF Axes
  <2> HIDE DEF d, e
  <2>2. Group(1, 0, "both") \in Seq(Steps) /\ Group(2, 0, "both") \in Seq(Steps)
    BY <2>1, GroupTyped
  <2> QED
    BY <2>2 DEF d, e
<1>3. Len(d) = 4 /\ Len(e) = 4
  BY DEF Group
<1>4. /\ d[1] = Step(1, 1, "first", 0, "both") /\ d[2] = Step(1, 1, "repeat", 0, "both")
      /\ d[3] = Step(1, -1, "first", 0, "both") /\ d[4] = Step(1, -1, "repeat", 0, "both")
      /\ e[1] = Step(2, 1, "first", 0, "both") /\ e[2] = Step(2, 1, "repeat", 0, "both")
      /\ e[3] = Step(2, -1, "first", 0, "both") /\ e[4] = Step(2, -1, "repeat", 0, "both")
  BY DEF Group
<1> HIDE DEF d, e
<1>5. Len(d \o e) = 8 /\ \A k \in 1 .. 8 : (d \o e)[k] = IF k <= 4 THEN d[k] ELSE e[k - 4]
  <2>1. /\ Len(d \o e) = Len(d) + Len(e)
        /\ \A k \in 1 .. Len(d) + Len(e) : (d \o e)[k] = IF k <= Len(d) THEN d[k] ELSE e[k - Len(d)]
    BY <1>2, ConcatProperties
  <2>2. Len(d) + Len(e) = 8
    BY <1>3
  <2> QED
    BY <1>3, <2>1, <2>2
<1>6. SUFFICES ASSUME NEW k \in 1 .. 8
               PROVE  LET s == (d \o e)[k] IN
                      /\ s.axis = (IF k <= 4 THEN 1 ELSE 2)
                      /\ s.dir = (IF k \in {1, 2, 5, 6} THEN 1 ELSE -1)
                      /\ s.role = (IF k \in {1, 3, 5, 7} THEN "first" ELSE "repeat")
                      /\ s.size = 0 /\ s.cam = "both"
  BY <1>1, <1>5
<1>7. k = 1 \/ k = 2 \/ k = 3 \/ k = 4 \/ k = 5 \/ k = 6 \/ k = 7 \/ k = 8
  OBVIOUS
<1>8. CASE k <= 4
  <2>1. (d \o e)[k] = d[k]
    BY <1>5, <1>8
  <2> HIDE DEF d, e
  <2> QED
    BY <1>4, <1>7, <1>8, <2>1 DEF Step
<1>9. CASE ~(k <= 4)
  <2>1. (d \o e)[k] = e[k - 4]
    BY <1>5, <1>9
  <2>2. (k = 5 \/ k = 6 \/ k = 7 \/ k = 8) /\ 5 - 4 = 1 /\ 6 - 4 = 2 /\ 7 - 4 = 3 /\ 8 - 4 = 4
    BY <1>7, <1>9
  <2> HIDE DEF d, e
  <2> QED
    BY <1>4, <2>1, <2>2 DEF Step
<1> QED
  BY <1>8, <1>9

\* A run that is through is home on both axes.
LEMMA ReadyEmpty ==
  ASSUME NEW n, NEW u, Ready(<<>>, n, u)
  PROVE  \A a \in Axes : Home(n[a])
<1>1. PICK j \in 0 .. 8, l \in Nat : Ahead(j, <<>>, l) /\ IF l = 0 THEN Main(j, n, u) ELSE Extra(j, <<>>, l, n, u)
  BY DEF Ready
<1>2. l + 8 - j = 0
  BY <1>1 DEF Ahead
<1>3. l = 0 /\ j = 8
  BY <1>2
<1>4. Main(8, n, u)
  BY <1>1, <1>3
<1> QED
  BY <1>4, HomeAtZero DEF Main, Axes

\* Whatever a run sends next leaves the other axis home.
LEMMA ReadyOther ==
  ASSUME NEW q \in Seq(Steps), q # <<>>, NEW n, NEW u, Ready(q, n, u)
  PROVE  Home(n[Other(q[1].axis)])
<1>1. PICK j \in 0 .. 8, l \in Nat : Ahead(j, q, l) /\ IF l = 0 THEN Main(j, n, u) ELSE Extra(j, q, l, n, u)
  BY DEF Ready
<1>2. Len(q) \in Nat \ {0}
  BY EmptySeq
<1>3. CASE l = 0
  <2>1. j \in 0 .. 7 /\ q[1] = CalibrationSteps[j + 1]
    <3>1. Len(q) = 8 - j
      BY <1>1, <1>3 DEF Ahead
    <3>2. 1 \in 1 .. 8 - j /\ j \in 0 .. 7
      BY <1>2, <3>1
    <3>3. q[0 + 1] = CalibrationSteps[j + 1]
      BY <1>1, <1>3, <3>2 DEF Ahead
    <3> QED
      BY <3>2, <3>3
  <2>2. q[1].axis = IF j + 1 <= 4 THEN 1 ELSE 2
    BY <2>1, PlanSteps
  <2>3. Main(j, n, u)
    BY <1>1, <1>3
  <2>4. CASE j <= 3
    <3>1. q[1].axis = 1 /\ Home(n[2])
      BY <2>2, <2>3, <2>4, HomeAtZero DEF Main
    <3> QED
      BY <3>1 DEF Other
  <2>5. CASE j >= 4
    <3>1. q[1].axis = 2 /\ Home(n[1])
      BY <2>1, <2>2, <2>3, <2>5, HomeAtZero DEF Main
    <3> QED
      BY <3>1 DEF Other
  <2> QED
    BY <2>1, <2>4, <2>5
<1>4. CASE l # 0
  <2>1. Extra(j, q, l, n, u) /\ 1 \in 1 .. l
    BY <1>1, <1>4
  <2> QED
    BY <2>1 DEF Extra, Extras
<1> QED
  BY <1>3, <1>4

\* A step that is done leaves the other axis home.
LEMMA DoneOther ==
  ASSUME NEW s, NEW q, NEW n, NEW u, Done(s, q, n, u)
  PROVE  Home(n[Other(s.axis)])
<1>1. ASSUME NEW j \in 1 .. 8, s = CalibrationSteps[j],
             IF u = 0 THEN Home(n[IF j <= 4 THEN 2 ELSE 1]) ELSE Main(j, n, u)
      PROVE  Home(n[Other(s.axis)])
  <2>1. s.axis = IF j <= 4 THEN 1 ELSE 2
    BY <1>1, PlanSteps
  <2>2. Home(n[IF j <= 4 THEN 2 ELSE 1])
    BY <1>1, HomeAtZero DEF Main
  <2> QED
    BY <2>1, <2>2 DEF Other
<1> QED
  BY <1>1 DEF Done

\* A step in front of others.
LEMMA InFront ==
  ASSUME NEW S, NEW s \in S, NEW q \in Seq(S)
  PROVE  /\ <<s>> \o q \in Seq(S) /\ Len(q) \in Nat /\ Len(<<s>> \o q) = Len(q) + 1
         /\ (<<s>> \o q)[1] = s
         /\ \A k \in 1 .. Len(q) : (<<s>> \o q)[k + 1] = q[k]
<1>1. <<s>> \in Seq(S) /\ Len(<<s>>) = 1 /\ <<s>>[1] = s
  OBVIOUS
<1>2. Len(q) \in Nat
  OBVIOUS
<1>3. /\ <<s>> \o q \in Seq(S) /\ Len(<<s>> \o q) = Len(<<s>>) + Len(q)
      /\ \A i \in 1 .. Len(<<s>>) + Len(q) :
           (<<s>> \o q)[i] = IF i <= Len(<<s>>) THEN <<s>>[i] ELSE q[i - Len(<<s>>)]
  BY <1>1, ConcatProperties
<1>4. \A i \in 1 .. 1 + Len(q) : (<<s>> \o q)[i] = IF i <= 1 THEN <<s>>[i] ELSE q[i - 1]
  BY <1>1, <1>3
<1>5. (<<s>> \o q)[1] = s
  BY <1>1, <1>2, <1>4
<1>6. ASSUME NEW k \in 1 .. Len(q) PROVE (<<s>> \o q)[k + 1] = q[k]
  <2>1. k + 1 \in 1 .. 1 + Len(q) /\ ~(k + 1 <= 1) /\ (k + 1) - 1 = k
    BY <1>2
  <2> QED
    BY <1>4, <2>1
<1> QED
  BY <1>1, <1>2, <1>3, <1>5, <1>6

\* A pulse of the next step, at the size it is sent with, is what the plan expects of it.
LEMMA StepDone ==
  ASSUME NEW s \in Steps, NEW q \in Seq(Steps), NEW n \in [Axes -> Int], NEW u \in Nat,
         NEW sz \in Nat \ {0}, Ready(<<s>> \o q, n, u),
         s.size > 0 => sz = s.size, s.size = 0 /\ u # 0 => sz = u,
         NEW m \in [Axes -> Int], \A a \in Axes : m[a] = n[a] + (IF a = s.axis THEN s.dir * sz ELSE 0)
  PROVE  (s.role = "return" => Ready(q, m, u)) /\ (s.role # "return" => Done(s, q, m, u))
<1> DEFINE p == <<s>> \o q
<1>1. Len(q) \in Nat /\ Len(p) = Len(q) + 1 /\ p[1] = s /\ \A k \in 1 .. Len(q) : p[k + 1] = q[k]
  BY InFront
<1>2. Ready(p, n, u)
  OBVIOUS
<1> HIDE DEF p
<1>3. PICK j \in 0 .. 8, l \in Nat : Ahead(j, p, l) /\ IF l = 0 THEN Main(j, n, u) ELSE Extra(j, p, l, n, u)
  BY <1>2 DEF Ready
<1>4. m[1] = n[1] + (IF 1 = s.axis THEN s.dir * sz ELSE 0) /\ m[2] = n[2] + (IF 2 = s.axis THEN s.dir * sz ELSE 0)
  BY DEF Axes
<1>0. n[1] \in Int /\ n[2] \in Int /\ m[1] \in Int /\ m[2] \in Int
  BY DEF Axes
<1>5. CASE l = 0
  <2>1. Len(q) + 1 = 8 - j /\ \A k \in 1 .. 8 - j : p[k] = CalibrationSteps[j + k]
    BY <1>1, <1>3, <1>5 DEF Ahead
  <2>2. j \in 0 .. 7 /\ 1 \in 1 .. 8 - j /\ Len(q) = 8 - (j + 1)
    <3>1. Len(q) \in Nat /\ Len(q) + 1 = 8 - j
      BY <1>1, <2>1
    <3> QED
      BY <3>1
  <2>3. s = CalibrationSteps[j + 1] /\ j + 1 \in 1 .. 8
    <3>1. p[1] = CalibrationSteps[j + 1]
      BY <2>1, <2>2
    <3> QED
      BY <1>1, <2>2, <3>1
  <2>4. Ahead(j + 1, q, 0)
    <3>1. ASSUME NEW k \in 1 .. 8 - (j + 1) PROVE q[0 + k] = CalibrationSteps[(j + 1) + k]
      <4>1. k \in 1 .. Len(q) /\ k + 1 \in 1 .. 8 - j /\ j + (k + 1) = (j + 1) + k /\ 0 + k = k
        BY <2>2
      <4>2. p[k + 1] = CalibrationSteps[j + (k + 1)]
        BY <2>1, <4>1
      <4> QED
        BY <1>1, <4>1, <4>2
    <3> QED
      BY <2>2, <3>1 DEF Ahead
  <2>5. /\ s.axis = (IF j <= 3 THEN 1 ELSE 2) /\ s.dir = (IF j \in {0, 1, 4, 5} THEN 1 ELSE -1)
        /\ s.role # "return" /\ s.size = 0
    <3>1. /\ s.axis = (IF j + 1 <= 4 THEN 1 ELSE 2) /\ s.dir = (IF j + 1 \in {1, 2, 5, 6} THEN 1 ELSE -1)
          /\ s.role = (IF j + 1 \in {1, 3, 5, 7} THEN "first" ELSE "repeat") /\ s.size = 0
      BY <2>3, PlanSteps
    <3> QED
      BY <3>1
  <2>6. Main(j, n, u)
    BY <1>3, <1>5
  <2>7. CASE u = 0
    <3>1. Home(n[IF j + 1 <= 4 THEN 2 ELSE 1])
      BY <2>2, <2>6, <2>7 DEF Main
    <3>2. m[IF j + 1 <= 4 THEN 2 ELSE 1] = n[IF j + 1 <= 4 THEN 2 ELSE 1]
      BY <1>0, <1>4, <2>2, <2>5
    <3>3. Home(m[IF j + 1 <= 4 THEN 2 ELSE 1])
      BY <3>1, <3>2
    <3>4. Done(s, q, m, u)
      BY <2>3, <2>4, <2>7, <3>3 DEF Done
    <3> QED
      BY <2>5, <3>4
  <2>8. CASE u # 0
    <3>1. sz = u
      BY <2>5, <2>8
    <3>2. /\ n[1] = (IF j \in {1, 3} THEN u ELSE IF j = 2 THEN 2 * u ELSE 0)
          /\ n[2] = (IF j \in {5, 7} THEN u ELSE IF j = 6 THEN 2 * u ELSE 0)
      BY <2>6, <2>8 DEF Main
    <3>3. m[1] = (IF j + 1 \in {1, 3} THEN u ELSE IF j + 1 = 2 THEN 2 * u ELSE 0)
      BY <1>4, <2>2, <2>5, <3>1, <3>2
    <3>4. m[2] = (IF j + 1 \in {5, 7} THEN u ELSE IF j + 1 = 6 THEN 2 * u ELSE 0)
      BY <1>4, <2>2, <2>5, <3>1, <3>2
    <3>5. Main(j + 1, m, u)
      BY <2>8, <3>3, <3>4 DEF Main
    <3>6. Done(s, q, m, u)
      BY <2>3, <2>4, <2>8, <3>5 DEF Done
    <3> QED
      BY <2>5, <3>6
  <2> QED
    BY <2>7, <2>8
<1>6. CASE l # 0
  <2> DEFINE a == CourseAxis(j)
  <2>1. Extra(j, p, l, n, u)
    BY <1>3, <1>6
  <2>2. u = 0 /\ j \in {4, 8} /\ Home(n[Other(a)]) /\ \A k \in 1 .. l : p[k] \in Extras(a)
    BY <2>1 DEF Extra
  <2>3. PICK T \in [1 .. l + 1 -> Int] :
          /\ T[1] = n[a] /\ Home(T[l + 1])
          /\ \A k \in 1 .. l : T[k + 1] = T[k] + p[k].dir * p[k].size
    BY <2>1 DEF Extra
  <2>4. 1 \in 1 .. l /\ l - 1 \in Nat
    BY <1>6
  <2>5. s \in Extras(a)
    BY <1>1, <2>2, <2>4
  <2>6. s.axis = a /\ sz = s.size /\ (s.cam = "both" => s.role = "return")
    BY <2>5 DEF Extras
  <2>7. a \in Axes /\ Other(a) \in Axes /\ Other(a) # a
    BY <2>2 DEF CourseAxis, Other, Axes
  <2>8. m[a] = T[2] /\ m[Other(a)] = n[Other(a)]
    <3>1. m[a] = n[a] + s.dir * sz
      BY <2>6, <2>7
    <3>2. T[1 + 1] = T[1] + p[1].dir * p[1].size
      BY <2>3, <2>4
    <3>3. m[Other(a)] = n[Other(a)] + 0 /\ n[Other(a)] \in Int
      BY <2>6, <2>7
    <3> QED
      BY <1>1, <2>3, <2>6, <3>1, <3>2, <3>3
  <2> HIDE DEF a
  <2>9. Ahead(j, q, l - 1)
    <3>1. Len(q) + 1 = l + 8 - j /\ \A k \in 1 .. 8 - j : p[l + k] = CalibrationSteps[j + k]
      BY <1>1, <1>3 DEF Ahead
    <3>2. Len(q) = (l - 1) + 8 - j
      <4>1. Len(q) \in Nat /\ Len(q) + 1 = l + 8 - j
        BY <1>1, <3>1
      <4> QED
        BY <4>1
    <3>3. ASSUME NEW k \in 1 .. 8 - j PROVE q[(l - 1) + k] = CalibrationSteps[j + k]
      <4>1. (l - 1) + k \in 1 .. Len(q) /\ ((l - 1) + k) + 1 = l + k
        BY <2>4, <3>2
      <4> QED
        BY <1>1, <3>1, <4>1
    <3> QED
      BY <3>2, <3>3 DEF Ahead
  <2>10. CASE l = 1
    <3>1. Home(m[a]) /\ Home(m[Other(a)])
      BY <2>2, <2>3, <2>8, <2>10
    <3>2. Main(j, m, u)
      BY <2>2, <3>1 DEF Main, a, CourseAxis, Other
    <3>3. l - 1 = 0
      BY <2>10
    <3>4. Ready(q, m, u)
      BY <2>4, <2>9, <3>2, <3>3 DEF Ready
    <3> QED
      BY <2>2, <2>6, <2>8, <3>4 DEF Done
  <2>11. CASE l # 1
    <3> DEFINE U == [k \in 1 .. l |-> T[k + 1]]
    <3>1. U \in [1 .. (l - 1) + 1 -> Int] /\ U[1] = m[a] /\ Home(U[(l - 1) + 1])
      <4>1. (l - 1) + 1 = l /\ l \in 1 .. l /\ \A k \in 1 .. l : k + 1 \in 1 .. l + 1
        BY <2>4
      <4>2. U \in [1 .. l -> Int]
        BY <2>3, <4>1
      <4> QED
        BY <2>3, <2>4, <2>8, <4>1, <4>2
    <3>2. ASSUME NEW k \in 1 .. l - 1
          PROVE  U[k + 1] = U[k] + q[k].dir * q[k].size /\ q[k] \in Extras(a)
      <4>1. k \in 1 .. l /\ k + 1 \in 1 .. l
        BY <2>4
      <4>2. U[k + 1] = T[(k + 1) + 1] /\ U[k] = T[k + 1]
        BY <4>1
      <4>3. T[(k + 1) + 1] = T[k + 1] + p[k + 1].dir * p[k + 1].size
        BY <2>3, <4>1
      <4>4. k \in 1 .. Len(q)
        BY <1>1, <2>4, <2>9 DEF Ahead
      <4>5. p[k + 1] = q[k]
        BY <1>1, <4>4
      <4> QED
        BY <2>2, <4>1, <4>2, <4>3, <4>5
    <3> HIDE DEF U
    <3>3. Extra(j, q, l - 1, m, u)
      <4>1. \E V \in [1 .. (l - 1) + 1 -> Int] :
              /\ V[1] = m[a] /\ Home(V[(l - 1) + 1])
              /\ \A k \in 1 .. l - 1 : V[k + 1] = V[k] + q[k].dir * q[k].size
        BY <3>1, <3>2
      <4>2. Home(m[Other(a)])
        BY <2>2, <2>8
      <4> QED
        BY <2>2, <3>2, <4>1, <4>2 DEF Extra, a
    <3>4. l - 1 # 0
      BY <2>11
    <3>5. Ready(q, m, u)
      BY <2>4, <2>9, <3>3, <3>4 DEF Ready
    <3> QED
      BY <2>2, <2>6, <2>8, <3>5 DEF Done
  <2> QED
    BY <2>10, <2>11
<1> QED
  BY <1>5, <1>6

\* It goes on with the next step,
LEMMA DoneNext ==
  ASSUME NEW s, NEW q, NEW n, NEW u, Done(s, q, n, u),
         u = 0 => ~(s.cam = "both" /\ s.dir = -1 /\ s.role = "repeat")
  PROVE  Ready(q, n, u)
<1>1. ASSUME NEW j \in 1 .. 8, s = CalibrationSteps[j], Ahead(j, q, 0),
             IF u = 0 THEN Home(n[IF j <= 4 THEN 2 ELSE 1]) ELSE Main(j, n, u)
      PROVE  Ready(q, n, u)
  <2>1. Main(j, n, u)
    <3>1. CASE u = 0
      <4>1. s.cam = "both" /\ s.dir = (IF j \in {1, 2, 5, 6} THEN 1 ELSE -1)
            /\ s.role = (IF j \in {1, 3, 5, 7} THEN "first" ELSE "repeat")
        BY <1>1, PlanSteps
      <4>2. j # 4 /\ j # 8
        BY <3>1, <4>1
      <4> QED
        BY <1>1, <3>1, <4>2 DEF Main
    <3> QED
      BY <1>1, <3>1
  <2> QED
    BY <1>1, <2>1 DEF Ready
<1> QED
  BY <1>1 DEF Done

\* or, a probe, with itself,
LEMMA DoneRetry ==
  ASSUME NEW s \in Steps, NEW q \in Seq(Steps), NEW n, Done(s, q, n, 0),
         s.cam = "both", s.dir = 1, s.role = "first"
  PROVE  Ready(<<s>> \o q, n, 0)
<1> DEFINE p == <<s>> \o q
<1>1. Len(q) \in Nat /\ Len(p) = Len(q) + 1 /\ p[1] = s /\ \A k \in 1 .. Len(q) : p[k + 1] = q[k]
  BY InFront
<1> HIDE DEF p
<1>2. PICK j \in 1 .. 8 : s = CalibrationSteps[j] /\ Ahead(j, q, 0) /\ Home(n[IF j <= 4 THEN 2 ELSE 1])
  BY DEF Done
<1>3. j \in {1, 5}
  <2>1. s.dir = (IF j \in {1, 2, 5, 6} THEN 1 ELSE -1) /\ s.role = (IF j \in {1, 3, 5, 7} THEN "first" ELSE "repeat")
    BY <1>2, PlanSteps
  <2> QED
    BY <2>1
<1>4. Main(j - 1, n, 0)
  BY <1>2, <1>3 DEF Main
<1>5. Ahead(j - 1, p, 0)
  <2>1. Len(p) = 0 + 8 - (j - 1)
    BY <1>1, <1>2 DEF Ahead
  <2>2. ASSUME NEW k \in 1 .. 8 - (j - 1) PROVE p[0 + k] = CalibrationSteps[(j - 1) + k]
    <3>1. CASE k = 1
      <4>1. 0 + k = 1 /\ (j - 1) + k = j
        BY <3>1
      <4> QED
        BY <1>1, <1>2, <4>1
    <3>2. CASE k # 1
      <4>1. k - 1 \in 1 .. 8 - j /\ k - 1 \in 1 .. Len(q) /\ (k - 1) + 1 = 0 + k /\ j + (k - 1) = (j - 1) + k
            /\ 0 + (k - 1) = k - 1
        BY <1>2, <3>2 DEF Ahead
      <4>2. q[0 + (k - 1)] = CalibrationSteps[j + (k - 1)]
        BY <1>2, <4>1 DEF Ahead
      <4>3. p[(k - 1) + 1] = q[k - 1]
        BY <1>1, <4>1
      <4> QED
        BY <4>1, <4>2, <4>3
    <3> QED
      BY <3>1, <3>2
  <2> QED
    BY <2>1, <2>2 DEF Ahead
<1>6. j - 1 \in 0 .. 8
  OBVIOUS
<1>7. Ready(p, n, 0)
  BY <1>4, <1>5, <1>6 DEF Ready
<1> QED
  BY <1>7 DEF p

\* or, the last of a sized group, with steps that bring its axis home.
LEMMA DoneCloses ==
  ASSUME NEW s \in Steps, NEW q \in Seq(Steps), NEW n, Done(s, q, n, 0),
         s.cam = "both", s.dir = -1, s.role = "repeat",
         NEW w \in Seq(Extras(s.axis)), NEW y, Home(y), Leads(w, n[s.axis], y)
  PROVE  Ready(w \o q, n, 0)
<1>1. PICK j \in 1 .. 8 : s = CalibrationSteps[j] /\ Ahead(j, q, 0) /\ Home(n[IF j <= 4 THEN 2 ELSE 1])
  BY DEF Done
<1>2. j \in {4, 8} /\ s.axis = CourseAxis(j)
  <2>1. /\ s.dir = (IF j \in {1, 2, 5, 6} THEN 1 ELSE -1) /\ s.role = (IF j \in {1, 3, 5, 7} THEN "first" ELSE "repeat")
        /\ s.axis = (IF j <= 4 THEN 1 ELSE 2)
    BY <1>1, PlanSteps
  <2> QED
    BY <2>1 DEF CourseAxis
<1>3. Home(n[Other(CourseAxis(j))])
  BY <1>1, <1>2 DEF CourseAxis, Other
<1> DEFINE a == CourseAxis(j)
           l == Len(w)
           p == w \o q
<1>4. l \in Nat /\ Len(q) \in Nat /\ Len(p) = l + Len(q)
      /\ \A i \in 1 .. l + Len(q) : p[i] = IF i <= l THEN w[i] ELSE q[i - l]
  <2>1. w \in Seq(Steps)
    <3>1. Extras(s.axis) \subseteq Steps
      BY DEF Extras
    <3> QED
      BY <3>1
  <2> QED
    BY <2>1, ConcatProperties
<1>5. \A k \in 1 .. l : w[k] \in Extras(a)
  BY <1>2
<1>6. PICK T \in [1 .. l + 1 -> Int] :
        /\ T[1] = n[a] /\ T[l + 1] = y
        /\ \A k \in 1 .. l : T[k + 1] = T[k] + w[k].dir * w[k].size
  BY <1>2 DEF Leads
<1> HIDE DEF a, l, p
<1>7. Ahead(j, p, l)
  <2>1. Len(q) = 8 - j /\ \A k \in 1 .. 8 - j : q[0 + k] = CalibrationSteps[j + k]
    BY <1>1 DEF Ahead
  <2>2. Len(p) = l + 8 - j
    BY <1>4, <2>1
  <2>3. ASSUME NEW k \in 1 .. 8 - j PROVE p[l + k] = CalibrationSteps[j + k]
    <3>1. l + k \in 1 .. l + Len(q) /\ ~(l + k <= l) /\ (l + k) - l = 0 + k
      BY <1>4, <2>1
    <3> QED
      BY <1>4, <2>1, <3>1
  <2> QED
    BY <2>2, <2>3 DEF Ahead
<1>8. CASE l = 0
  <2>1. Home(n[a])
    BY <1>6, <1>8
  <2>2. Main(j, n, 0)
    BY <1>2, <1>3, <2>1 DEF Main, a, CourseAxis, Other
  <2>3. Ready(p, n, 0)
    BY <1>4, <1>7, <1>8, <2>2 DEF Ready
  <2> QED
    BY <2>3 DEF p
<1>9. CASE l # 0
  <2>1. \A k \in 1 .. l : p[k] = w[k]
    BY <1>4
  <2>2. \A k \in 1 .. l : p[k] \in Extras(a) /\ T[k + 1] = T[k] + p[k].dir * p[k].size
    BY <1>5, <1>6, <2>1
  <2>3. \E U \in [1 .. l + 1 -> Int] :
          /\ U[1] = n[a] /\ Home(U[l + 1])
          /\ \A k \in 1 .. l : U[k + 1] = U[k] + p[k].dir * p[k].size
    BY <1>6, <2>2
  <2>4. Extra(j, p, l, n, 0)
    BY <1>2, <1>3, <2>2, <2>3 DEF Extra, a
  <2>5. Ready(p, n, 0)
    BY <1>4, <1>7, <1>9, <2>4 DEF Ready
  <2> QED
    BY <2>5 DEF p
<1> QED
  BY <1>8, <1>9

\* What a closed group puts in front brings its axis home.
LEMMA FollowupsLead ==
  ASSUME Typed, NEW step \in Steps, NEW verdicts,
         \A c \in DOMAIN verdicts : verdicts[c].action = "retry" => verdicts[c].size \in MinSize .. MaxSize
  PROVE  /\ WayBack(step) \o WideGroups(step, verdicts) \in Seq(Extras(step.axis))
         /\ \E y \in Int : Home(y) /\ Leads(WayBack(step) \o WideGroups(step, verdicts), net[step.axis], y)
<1> DEFINE chunks == ReturnChunks(Size(net[step.axis]), MaxSize)
           x == net[step.axis]
           E == Extras(step.axis)
<1>0. x \in Int /\ MaxSize \in Nat \ {0} /\ MinSize \in Nat \ {0} /\ step.axis \in Axes
  BY SizesTyped DEF Typed, RunTyped, Steps
<1>1. /\ chunks \in Seq(1 .. MaxSize)
  <2>1. /\ Size(net[step.axis]) \in Nat /\ MaxSize \in Nat \ {0}
        /\ (IF MaxSize < Floor THEN Floor ELSE MaxSize) = MaxSize
    <3>2. Floor <= MaxSize
      BY SizesTyped, SizesAssumption DEF SizesAssumption
    <3> QED
      BY <1>0, <3>2, SizesTyped DEF Size
  <2> QED
    BY <2>1, ChunksTyped
<1>2. WayBack(step) = [k \in DOMAIN chunks |-> Step(step.axis, Back(x), "return", chunks[k], "both")]
  BY DEF WayBack
<1> HIDE DEF chunks, x, E
<1>3. DOMAIN chunks = 1 .. Len(chunks) /\ Len(chunks) \in Nat /\ \A k \in 1 .. Len(chunks) : chunks[k] \in 1 .. MaxSize
  <2>1. DOMAIN chunks = 1 .. Len(chunks) /\ Len(chunks) \in Nat
    BY <1>1
  <2>2. ASSUME NEW k \in 1 .. Len(chunks) PROVE chunks[k] \in 1 .. MaxSize
    BY <1>1, ElementOfSeq
  <2> QED
    BY <2>1, <2>2
<1>4. ASSUME NEW k \in 1 .. Len(chunks)
      PROVE  Step(step.axis, Back(x), "return", chunks[k], "both") \in E
  BY <1>0, <1>3 DEF Step, Steps, Back, E, Extras
<1>5. /\ WayBack(step) \in Seq(E) /\ Len(WayBack(step)) = Len(chunks)
      /\ \A k \in 1 .. Len(chunks) : WayBack(step)[k].dir = Back(x) /\ WayBack(step)[k].size = chunks[k]
  <2>1. WayBack(step) \in [1 .. Len(chunks) -> E]
    BY <1>2, <1>3, <1>4
  <2>2. \A k \in 1 .. Len(chunks) : WayBack(step)[k] = Step(step.axis, Back(x), "return", chunks[k], "both")
    BY <1>2, <1>3
  <2> QED
    BY <1>3, <2>1, <2>2, SeqOfParts DEF Step
<1>6. E \subseteq Steps
  BY DEF E, Extras
<1>7. PICK y \in Int : Home(y) /\ Leads(WayBack(step), x, y)
  <2>1. WayBack(step) \in Seq(Moves) \cup Seq(Steps)
    BY <1>5, <1>6
  <2> QED
    BY SMTT(30), <1>0, <1>5, <2>1, LeadsHome DEF chunks, x
<1> DEFINE wide == {c \in DOMAIN verdicts : verdicts[c].action = "retry"}
           of(c) == IF c \in wide THEN Group(step.axis, verdicts[c].size, c) ELSE <<>>
           other == CHOOSE c \in Cameras : c # Narrow \/ Cameras = {Narrow}
<1>8. Narrow \in Cameras /\ other \in Cameras
  BY CamerasAssumption DEF CamerasAssumption
<1>9. ASSUME NEW c \in Cameras PROVE of(c) \in Seq(E) /\ Leads(of(c), y, y)
  <2>1. CASE c \notin wide
    BY <2>1, LeadsEmpty
  <2>2. CASE c \in wide
    <3>1. verdicts[c].size \in 1 .. MaxSize /\ c # "both"
      BY <1>0, <2>2, CamerasAssumption DEF CamerasAssumption
    <3> DEFINE sz == verdicts[c].size
    <3>2. \A dir \in {1, -1}, role \in {"first", "repeat"} : Step(step.axis, dir, role, sz, c) \in E
      BY <1>0, <3>1 DEF Step, Steps, E, Extras
    <3>3. Group(step.axis, sz, c) \in Seq(E)
      BY <3>2 DEF Group
    <3>4. Leads(Group(step.axis, sz, c), y, y)
      BY <1>0, <3>1, LeadsGroup
    <3> QED
      BY <2>2, <3>3, <3>4
  <2> QED
    BY <2>1, <2>2
<1>10. WideGroups(step, verdicts) = of(other) \o (IF other = Narrow THEN <<>> ELSE of(Narrow))
  BY DEF WideGroups
<1> HIDE DEF of, other
<1>11. WideGroups(step, verdicts) \in Seq(E) /\ Leads(WideGroups(step, verdicts), y, y)
  <2> DEFINE v == IF other = Narrow THEN <<>> ELSE of(Narrow)
  <2>1. of(other) \in Seq(E) /\ Leads(of(other), y, y)
    BY <1>8, <1>9
  <2>2. v \in Seq(E) /\ Leads(v, y, y)
    BY <1>8, <1>9, LeadsEmpty
  <2> HIDE DEF v
  <2>3. of(other) \o v \in Seq(E) /\ Leads(of(other) \o v, y, y)
    BY <2>1, <2>2, ConcatProperties, LeadsOn
  <2> QED
    BY <1>10, <2>3 DEF v
<1>12. Leads(WayBack(step) \o WideGroups(step, verdicts), x, y)
  BY <1>5, <1>7, <1>11, LeadsOn
<1>13. WayBack(step) \o WideGroups(step, verdicts) \in Seq(E)
  BY <1>5, <1>11, ConcatProperties
<1> QED
  BY <1>7, <1>12, <1>13 DEF x, E

-----------------------------------------------------------------------------
(* The run keeps to its plan.                                                *)

PlanInv ==
  /\ job.phase = "before" => Ready(queue, net, Unit)
  /\ job.phase = "after" => Done(job.move.step, queue, net, Unit)
  /\ pending.kind = "calibration" =>
       /\ Ready(<<pending.step>> \o queue, net, Unit)
       /\ pending.step.size > 0 => pending.size = pending.step.size
       /\ pending.step.size = 0 /\ Unit # 0 => pending.size = Unit

\* What a poll of a run leads to: an end of the run with the other axis home, a step or what
\* comes next of the plan, or the view after a pulse.
LeadsToAbort(left) ==
  \E axis \in Axes, n \in [Axes -> Int] : net' = n /\ Home(n[Other(axis)]) /\ Abort(axis, n, left)
LeadsToStep(left) ==
  \E q \in Seq(Steps), n \in [Axes -> Int], before \in Shots :
    net' = n /\ q # <<>> /\ Ready(q, n, Unit) /\ SubmitStep(q, before, n, left)
LeadsToNext(left) ==
  \E q \in Seq(Steps), n \in [Axes -> Int] : net' = n /\ Ready(q, n, Unit) /\ BeginStep(q, n, left)
LeadsToView(left) ==
  \E n \in [Axes -> Int] :
    /\ net' = n /\ pending.kind = "calibration" /\ Done(pending.step, queue, n, Unit)
    /\ job' = Capture("after", pending) /\ pending' = NoMove
    /\ NoSubmit(left) /\ UNCHANGED <<queue, awaiting, paused, said>>

\* A sequence's head in front of its tail.
LEMMA HeadInFront ==
  ASSUME NEW S, NEW q \in Seq(S), q # <<>>
  PROVE  <<Head(q)>> \o Tail(q) = q
<1>1. /\ Head(q) \in S /\ Tail(q) \in Seq(S) /\ Len(Tail(q)) = Len(q) - 1
      /\ \A i \in 1 .. Len(Tail(q)) : Tail(q)[i] = q[i + 1]
  BY HeadTailProperties
<1>2. Len(q) \in Nat \ {0}
  BY EmptySeq
<1>3. Head(q) = q[1]
  OBVIOUS
<1> DEFINE p == <<Head(q)>> \o Tail(q)
<1>4. /\ p \in Seq(S) /\ Len(p) = Len(Tail(q)) + 1 /\ p[1] = Head(q)
      /\ \A k \in 1 .. Len(Tail(q)) : p[k + 1] = Tail(q)[k]
  BY <1>1, InFront
<1> HIDE DEF p
<1>5. Len(p) = Len(q)
  BY <1>1, <1>2, <1>4
<1>6. ASSUME NEW k \in 1 .. Len(q) PROVE p[k] = q[k]
  <2>1. CASE k = 1
    BY <1>3, <1>4, <2>1
  <2>2. CASE k # 1
    <3>1. k - 1 \in 1 .. Len(Tail(q)) /\ (k - 1) + 1 = k
      BY <1>1, <1>2, <2>2
    <3> QED
      BY <1>1, <1>4, <3>1
  <2> QED
    BY <2>1, <2>2
<1>7. p = q
  BY <1>4, <1>5, <1>6, SeqEqual
<1> QED
  BY <1>7 DEF p

\* The view before a step leads to an abort or to the step.
LEMMA PollBeforeCases ==
  ASSUME Typed, OneAtATime, NetInv, PlanInv, PollBefore
  PROVE  /\ SameAs(net') /\ Unit' = Unit
         /\ LeadsToAbort(Captured(job.shot)) \/ LeadsToStep(Captured(job.shot))
<1>1. /\ job # NoJob /\ job.phase = "before" /\ queue # <<>> /\ queue \in Seq(Steps)
      /\ net' = net /\ net \in [Axes -> Int] /\ sized' = sized /\ size' = size
  BY Shapes DEF Distinct, PollBefore, Typed, DeskTyped, RunTyped
<1>2. Ready(queue, net, Unit) /\ SameAs(net)
  BY <1>1 DEF PlanInv, NetInv
<1>3. Head(queue) \in Steps /\ Head(queue) = queue[1]
  BY <1>1, HeadTailProperties
<1>4. Home(net[Other(Head(queue).axis)]) /\ Head(queue).axis \in Axes
  BY <1>1, <1>2, <1>3, ReadyOther DEF Steps
<1>5. job.shot \in Shots
  BY <1>1, ShotTyped DEF PollBefore, Typed, DeskTyped, JobShape
<1>6. Abort(Head(queue).axis, net, Captured(job.shot)) \/ SubmitStep(queue, job.shot, net, Captured(job.shot))
  BY DEF PollBefore
<1>7. SameAs(net') /\ Unit' = Unit
  BY <1>1, <1>2 DEF SameAs, Unit
<1>8. CASE Abort(Head(queue).axis, net, Captured(job.shot))
  BY <1>1, <1>4, <1>7, <1>8 DEF LeadsToAbort
<1>9. CASE SubmitStep(queue, job.shot, net, Captured(job.shot))
  BY <1>1, <1>2, <1>5, <1>7, <1>9 DEF LeadsToStep
<1> QED
  BY <1>6, <1>7, <1>8, <1>9

\* The view after a step leads to an abort or to the next step.
LEMMA PollAfterPlan ==
  ASSUME Typed, OneAtATime, NetInv, PlanInv, PollAfter
  PROVE  /\ SameAs(net') /\ Unit' = Unit
         /\ LeadsToAbort(Captured(job.shot)) \/ LeadsToNext(Captured(job.shot))
<1> DEFINE step == job.move.step
           left == Captured(job.shot)
<1>1. /\ job # NoJob /\ job.phase = "after" /\ queue \in Seq(Steps)
      /\ net' = net /\ net \in [Axes -> Int] /\ sized' = sized
  BY Shapes DEF Distinct, PollAfter, Typed, DeskTyped, RunTyped
<1>2. Done(step, queue, net, Unit) /\ SameAs(net) /\ Home(net[Other(step.axis)])
  BY <1>1, DoneOther DEF PlanInv, NetInv
<1>3. step \in Steps /\ step.axis \in Axes
  <2>1. job.move \in Calibrations
    BY <1>1 DEF Typed, DeskTyped, JobShape, NoJob
  <2> QED
    BY <2>1 DEF Calibrations, Steps
<1>4. size \in Nat \ {0} /\ (Unit = 0 <=> sized)
  BY SizesTyped DEF Typed, MeasuredTyped, RunTyped, Unit
<1>5. SameAs(net')
  BY <1>1, <1>2 DEF SameAs
<1> HIDE DEF step, left
<1>6. CASE Abort(step.axis, net, left) /\ UNCHANGED <<size, calibration>>
  <2>1. LeadsToAbort(left)
    BY <1>1, <1>2, <1>3, <1>6 DEF LeadsToAbort
  <2>2. Unit' = Unit
    BY <1>1, <1>6 DEF Unit
  <2> QED
    BY <1>5, <2>1, <2>2 DEF left
<1>7. CASE IsProbe(step) /\ BeginStep(<<step>> \o queue, net, left)
  <2>1. sized /\ step.cam = "both" /\ step.dir = 1 /\ step.role = "first" /\ Unit = 0
    BY <1>4, <1>7 DEF IsProbe
  <2>2. Ready(<<step>> \o queue, net, Unit)
    BY <1>1, <1>2, <1>3, <2>1, DoneRetry
  <2>3. <<step>> \o queue \in Seq(Steps)
    BY <1>1, <1>3, InFront
  <2>4. LeadsToNext(left)
    BY <1>1, <1>7, <2>2, <2>3 DEF LeadsToNext
  <2>5. Unit' = Unit
    BY <1>1, <2>1 DEF Unit
  <2> QED
    BY <1>5, <2>4, <2>5 DEF left
<1>8. CASE ~ClosesGroup(step) /\ size' = size /\ BeginStep(queue, net, left)
  <2>1. Unit = 0 => ~(step.cam = "both" /\ step.dir = -1 /\ step.role = "repeat")
    BY <1>4, <1>8 DEF ClosesGroup
  <2>2. Ready(queue, net, Unit)
    BY <1>2, <2>1, DoneNext
  <2>3. LeadsToNext(left)
    BY <1>1, <1>8, <2>2 DEF LeadsToNext
  <2>4. Unit' = Unit
    BY <1>1, <1>8 DEF Unit
  <2> QED
    BY <1>5, <2>3, <2>4 DEF left
<1>9. ASSUME ClosesGroup(step), size' = size,
             NEW verdicts, \A c \in DOMAIN verdicts :
               verdicts[c].action = "retry" => verdicts[c].size \in MinSize .. MaxSize,
             BeginStep(WayBack(step) \o WideGroups(step, verdicts) \o queue, net, left)
      PROVE  SameAs(net') /\ Unit' = Unit /\ LeadsToNext(left)
  <2> DEFINE w == WayBack(step) \o WideGroups(step, verdicts)
  <2>1. step.cam = "both" /\ step.dir = -1 /\ step.role = "repeat" /\ Unit = 0
    BY <1>4, <1>9 DEF ClosesGroup
  <2>2. w \in Seq(Extras(step.axis)) /\ \E y \in Int : Home(y) /\ Leads(w, net[step.axis], y)
    BY <1>3, <1>9, FollowupsLead
  <2>3. w \o queue \in Seq(Steps)
    BY <1>3, <1>9, FollowupsTyped
  <2>4. BeginStep(w \o queue, net, left)
    BY <1>9
  <2> HIDE DEF w
  <2>5. Ready(w \o queue, net, 0)
    BY <1>1, <1>2, <1>3, <2>1, <2>2, DoneCloses
  <2>6. LeadsToNext(left)
    BY <1>1, <2>1, <2>3, <2>4, <2>5 DEF LeadsToNext
  <2>7. Unit' = Unit
    BY <1>1, <1>9 DEF Unit
  <2> QED
    BY <1>5, <2>6, <2>7
<1>10. \/ Abort(step.axis, net, left) /\ UNCHANGED <<size, calibration>>
       \/ IsProbe(step) /\ BeginStep(<<step>> \o queue, net, left)
       \/ ~ClosesGroup(step) /\ size' = size /\ BeginStep(queue, net, left)
       \/ /\ ClosesGroup(step) /\ size' = size
          /\ \E verdicts :
               /\ \A c \in DOMAIN verdicts :
                    verdicts[c].action = "retry" => verdicts[c].size \in MinSize .. MaxSize
               /\ BeginStep(WayBack(step) \o WideGroups(step, verdicts) \o queue, net, left)
  BY PollAfterCases DEF step, left
<1>11. CASE /\ ClosesGroup(step) /\ size' = size
            /\ \E verdicts :
                 /\ \A c \in DOMAIN verdicts :
                      verdicts[c].action = "retry" => verdicts[c].size \in MinSize .. MaxSize
                 /\ BeginStep(WayBack(step) \o WideGroups(step, verdicts) \o queue, net, left)
  BY <1>9, <1>11 DEF left
<1> QED
  BY <1>6, <1>7, <1>8, <1>10, <1>11

\* The outcome of a pulse leads to an abort, the next step, or the view after it.
LEMMA PollPulsePlan ==
  ASSUME Typed, OneAtATime, NetInv, PlanInv, PollPulse
  PROVE  /\ SameAs(net') /\ Unit' = Unit
         /\ LeadsToAbort(Taken) \/ LeadsToNext(Taken) \/ LeadsToView(Taken)
<1> DEFINE step == pending.step
<1>1. /\ pending \in Calibrations /\ step \in Steps /\ pending.size \in Nat \ {0}
      /\ net' \in [Axes -> Int] /\ SameAs(net')
      /\ \E sz \in Nat : /\ outcome.pulsed => sz = pending.size
                         /\ net' = Accounted(step, sz)
  BY PulseCounted
<1>2. /\ sized' = sized /\ size' = size /\ queue \in Seq(Steps) /\ net \in [Axes -> Int]
      /\ pending.kind = "calibration"
  BY DEF PollPulse, Take, Typed, DeskTyped, RunTyped
<1>3. /\ Ready(<<step>> \o queue, net, Unit) /\ step.axis \in Axes /\ step.dir \in {1, -1}
      /\ step.size > 0 => pending.size = step.size
      /\ step.size = 0 /\ Unit # 0 => pending.size = Unit
  BY <1>1, <1>2 DEF PlanInv, Steps
<1>4. Unit \in Nat /\ Unit' = Unit
  BY <1>2, SizesTyped DEF Unit, Typed, MeasuredTyped
<1>5. PICK sz \in Nat : (outcome.pulsed => sz = pending.size) /\ net' = Accounted(step, sz)
  BY <1>1
<1> HIDE DEF step
<1>6. \A a \in Axes : net'[a] = net[a] + (IF a = step.axis THEN step.dir * sz ELSE 0)
  <2>1. net' = [net EXCEPT ![step.axis] = @ + step.dir * sz] /\ step.dir * sz \in Int
    BY <1>3, <1>5 DEF Accounted
  <2> QED
    BY <1>2, <1>3, <2>1
<1>7. Home(net'[Other(step.axis)])
  <2>1. <<step>> \o queue \in Seq(Steps) /\ (<<step>> \o queue)[1] = step /\ Len(<<step>> \o queue) = Len(queue) + 1
        /\ Len(queue) \in Nat
    BY <1>1, <1>2, InFront DEF step
  <2>2. <<step>> \o queue # <<>>
    <3>1. Len(<<step>> \o queue) # 0
      BY <2>1
    <3>2. Len(<<>>) = 0
      OBVIOUS
    <3> QED
      BY <3>1, <3>2
  <2>3. Home(net[Other(step.axis)])
    BY <1>3, <2>1, <2>2, ReadyOther
  <2>4. Other(step.axis) \in Axes /\ Other(step.axis) # step.axis
    BY <1>3 DEF Other, Axes
  <2>5. net'[Other(step.axis)] = net[Other(step.axis)]
    BY <1>2, <1>6, <2>4
  <2> QED
    BY <2>3, <2>5
<1>8. outcome.pulsed => /\ step.role = "return" => Ready(queue, net', Unit)
                        /\ step.role # "return" => Done(step, queue, net', Unit)
  <2> SUFFICES ASSUME outcome.pulsed
               PROVE  /\ step.role = "return" => Ready(queue, net', Unit)
                      /\ step.role # "return" => Done(step, queue, net', Unit)
    OBVIOUS
  <2>1. sz = pending.size
    BY <1>5
  <2>2. /\ sz \in Nat \ {0} /\ (step.size > 0 => sz = step.size)
        /\ (step.size = 0 /\ Unit # 0 => sz = Unit)
    BY <1>1, <1>3, <2>1
  <2>3. step \in Steps
    BY <1>1 DEF step
  <2> QED
    BY ZenonT(60), <1>1, <1>2, <1>3, <1>4, <1>6, <2>2, <2>3, StepDone
<1>9. \/ Abort(step.axis, net', Taken)
      \/ outcome.pulsed /\ step.role = "return" /\ BeginStep(queue, net', Taken)
      \/ /\ outcome.pulsed /\ step.role # "return" /\ job' = Capture("after", pending) /\ pending' = NoMove
         /\ NoSubmit(Taken) /\ UNCHANGED <<queue, awaiting, paused, said>>
  BY DEF PollPulse, step
<1>10. LeadsToAbort(Taken) \/ LeadsToNext(Taken) \/ LeadsToView(Taken)
  <2>1. CASE Abort(step.axis, net', Taken)
    BY <1>1, <1>3, <1>7, <2>1 DEF LeadsToAbort
  <2>2. CASE outcome.pulsed /\ step.role = "return" /\ BeginStep(queue, net', Taken)
    BY <1>1, <1>2, <1>8, <2>2 DEF LeadsToNext
  <2>3. CASE /\ outcome.pulsed /\ step.role # "return" /\ job' = Capture("after", pending) /\ pending' = NoMove
             /\ NoSubmit(Taken) /\ UNCHANGED <<queue, awaiting, paused, said>>
    BY <1>1, <1>2, <1>8, <2>3 DEF LeadsToView, step
  <2> QED
    BY <1>9, <2>1, <2>2, <2>3
<1> QED
  BY <1>1, <1>4, <1>10

\* A step that is sent is the one the plan has next.
LEMMA StepPlanned ==
  ASSUME Typed, NEW left, worker = NoWork, NEW q \in Seq(Steps), q # <<>>, NEW n, NEW before,
         Ready(q, n, Unit), net' = n, Unit' = Unit, SubmitStep(q, before, n, left)
  PROVE  PlanInv'
<1>1. ~Busy
  BY DEF Busy, NoWork
<1>2. /\ job' = NoJob /\ queue' = Tail(q) /\ pending'.step = Head(q) /\ pending'.size = StepSize(Head(q))
  BY <1>1 DEF SubmitStep
<1>3. <<pending'.step>> \o queue' = q
  BY <1>2, HeadInFront
<1>4. Head(q) \in Steps
  BY HeadTailProperties
<1>5. /\ Head(q).size > 0 => StepSize(Head(q)) = Head(q).size
      /\ Head(q).size = 0 /\ Unit # 0 => StepSize(Head(q)) = Unit
  BY <1>4 DEF StepSize, Unit
<1>6. /\ Ready(<<pending'.step>> \o queue', net', Unit')
      /\ pending'.step.size > 0 => pending'.size = pending'.step.size
      /\ pending'.step.size = 0 /\ Unit' # 0 => pending'.size = Unit'
  BY <1>2, <1>3, <1>5
<1> QED
  BY <1>2, <1>6 DEF PlanInv, NoJob

\* Every poll of a run keeps it to its plan, and its net to the mount.
LEMMA AccountOfPolls ==
  ASSUME Typed, OneAtATime, NetInv, PlanInv, PollBefore \/ PollAfter \/ PollPulse
  PROVE  NetInv' /\ PlanInv'
<1>1. PICK left \in {Captured(job.shot), Taken} :
        /\ left.outcome = NoOutcome
        /\ LeadsToAbort(left) \/ LeadsToStep(left) \/ LeadsToNext(left) \/ LeadsToView(left)
  <2>1. CASE PollBefore \/ PollAfter
    <3>1. job # NoJob
      BY <2>1, Shapes DEF Distinct, PollBefore, PollAfter
    <3>2. Captured(job.shot).outcome = NoOutcome
      BY <3>1 DEF Captured, OneAtATime, Handover
    <3> QED
      BY <2>1, <3>2, PollBeforeCases, PollAfterPlan
  <2>2. CASE PollPulse
    <3>1. Taken.outcome = NoOutcome
      BY DEF Taken
    <3> QED
      BY <2>2, <3>1, PollPulsePlan
  <2> QED
    BY <2>1, <2>2
<1>2. SameAs(net') /\ Unit' = Unit
  BY PollBeforeCases, PollAfterPlan, PollPulsePlan
<1>3. worker = NoWork /\ pos' = pos
  BY Shapes DEF Distinct, PollBefore, PollAfter, PollPulse, Take, OneAtATime, Handover, ghostVars
<1>4. NoMove.kind = "none" /\ NoJob.phase = "none"
  BY DEF NoMove, NoJob
<1>5. CASE LeadsToAbort(left)
  <2>1. job' = NoJob /\ pending' = NoMove
    BY <1>5 DEF LeadsToAbort, Abort
  <2>2. NetInv'
    BY <1>4, <2>1, NothingToAccount
  <2> QED
    BY <1>4, <2>1, <2>2 DEF PlanInv
<1>6. CASE LeadsToStep(left)
  <2>1. PICK q \in Seq(Steps), n \in [Axes -> Int], before \in Shots :
          net' = n /\ q # <<>> /\ Ready(q, n, Unit) /\ SubmitStep(q, before, n, left)
    BY <1>6 DEF LeadsToStep
  <2>2. SameAs(n)
    BY <1>2, <2>1
  <2>3. NetInv'
    BY <1>1, <1>3, <2>1, <2>2, PieceSettled
  <2>4. PlanInv'
    BY <1>2, <1>3, <2>1, StepPlanned
  <2> QED
    BY <2>3, <2>4
<1>7. CASE LeadsToNext(left)
  <2>1. PICK q \in Seq(Steps), n \in [Axes -> Int] : net' = n /\ Ready(q, n, Unit) /\ BeginStep(q, n, left)
    BY <1>7 DEF LeadsToNext
  <2>2. SameAs(n)
    BY <1>2, <2>1
  <2>3. NetInv'
    BY <1>1, <1>3, <2>1, <2>2, PieceSettled
  <2>4. CASE q = <<>>
    <3>1. job' = NoJob /\ pending' = NoMove
      BY <2>1, <2>4 DEF BeginStep, FinishCalibration
    <3> QED
      BY <1>4, <2>3, <3>1 DEF PlanInv
  <2>5. CASE q # <<>> /\ Head(q).role = "return"
    <3>1. SubmitStep(q, <<>>, n, left)
      BY <2>1, <2>5 DEF BeginStep
    <3> QED
      BY <1>2, <1>3, <2>1, <2>3, <2>5, <3>1, StepPlanned
  <2>6. CASE q # <<>> /\ Head(q).role # "return"
    <3>1. queue' = q /\ pending' = NoMove /\ job' = Capture("before", NoMove)
      BY <2>1, <2>6 DEF BeginStep
    <3>2. job'.phase = "before"
      BY <3>1 DEF Capture
    <3>3. Ready(queue', net', Unit')
      BY <1>2, <2>1, <3>1
    <3> QED
      BY <1>4, <2>3, <3>1, <3>2, <3>3 DEF PlanInv
  <2> QED
    BY <2>4, <2>5, <2>6
<1>8. CASE LeadsToView(left)
  <2>1. /\ Done(pending.step, queue, net', Unit) /\ queue' = queue
        /\ job' = Capture("after", pending) /\ pending' = NoMove
    BY <1>8 DEF LeadsToView
  <2>2. job'.phase = "after" /\ job'.move = pending
    BY <2>1 DEF Capture
  <2>3. SameAs(net)'
    BY <1>2, <1>3 DEF SameAs
  <2>4. NetInv'
    BY <1>4, <2>1, <2>3 DEF NetInv
  <2>5. Done(job'.move.step, queue', net', Unit')
    BY <1>2, <2>1, <2>2
  <2> QED
    BY <1>4, <2>1, <2>2, <2>4, <2>5 DEF PlanInv
<1> QED
  BY <1>1, <1>5, <1>6, <1>7, <1>8

\* Every step keeps the account of the axes and the plan of the calibration.
LEMMA AccountKept ==
  ASSUME ClicksAfterPoll, Typed, OneAtATime, NetInv, PlanInv, [Next]_vars
  PROVE  NetInv' /\ PlanInv'
<1> DEFINE Kept == /\ UNCHANGED <<net, size, sized>>
                   /\ job' = NoJob \/ (job # NoJob /\ job'.phase = job.phase /\ job'.move = job.move /\ queue' = queue)
                   /\ pending'.kind # "calibration" \/ (pending' = pending /\ queue' = queue)
<1>1. ASSUME Kept PROVE PlanInv'
  <2>1. Unit' = Unit /\ NoJob.phase = "none"
    BY <1>1 DEF Unit, NoJob
  <2> QED
    BY <1>1, <2>1 DEF PlanInv
<1>2. ASSUME Kept, UNCHANGED <<worker, outcome, pos>> PROVE NetInv'
  BY <1>2 DEF NetInv, SameAs, Settled, Sequel, MovedBy, Counted, Early, Report, MoveOf
<1>3. CASE Connect \/ Disconnect \/ ClickStop \/ ClickStopMount \/ ChangeMode \/ PollCaptureError
           \/ PollIdle \/ OtherClaims \/ OtherReleases \/ PollCheck \/ CheckEnds \/ CaptureEnds \/ UNCHANGED vars
  <2>1. NoMove.kind = "none" /\ NoJob.phase = "none"
    BY DEF NoMove, NoJob
  <2>2. Kept /\ UNCHANGED <<worker, outcome, pos>>
    <3>1. CASE CaptureEnds
      BY <3>1 DEF CaptureEnds, runVars, runnerVars, ghostVars
    <3>2. CASE PollCheck
      BY <3>2 DEF PollCheck, NoSubmit, Captured, ghostVars
    <3>3. CASE ~CaptureEnds /\ ~PollCheck
      <4>1. UNCHANGED <<net, size, sized, worker, outcome, pos>>
        BY <1>3, <3>3 DEF Connect, Disconnect, ClickStop, ClickStopMount, ChangeMode, PollCaptureError, PollIdle,
           OtherClaims, OtherReleases, CheckEnds, StopAll, CancelActivity, CancelCheck, vars, panelVars, runVars,
           runnerVars, ghostVars
      <4>2. \/ UNCHANGED <<job, pending, queue>>
            \/ job' = NoJob /\ pending' = NoMove
        BY <1>3, <3>3 DEF Connect, Disconnect, ClickStop, ClickStopMount, ChangeMode, PollCaptureError, PollIdle,
           OtherClaims, OtherReleases, CheckEnds, StopAll, CancelActivity, CancelCheck, vars, panelVars, runVars,
           runnerVars, ghostVars
      <4> QED
        BY <2>1, <4>1, <4>2
    <3> QED
      BY <1>3, <3>1, <3>2, <3>3
  <2> QED
    BY <1>1, <1>2, <2>2
<1>4. CASE ClickCalibrate
  <2>1. /\ queue' = CalibrationSteps /\ job' = Capture("before", NoMove) /\ pending' = NoMove
        /\ net' = [a \in Axes |-> 0] /\ pos' = [a \in Axes |-> 0]
    BY <1>4, ClickRests DEF ClickCalibrate
  <2>2. NoMove.kind = "none" /\ job'.phase = "before"
    BY <2>1 DEF NoMove, Capture
  <2>3. NetInv'
    BY <2>1, <2>2 DEF NetInv, SameAs
  <2>4. Ahead(0, CalibrationSteps, 0)
    BY PlanSteps DEF Ahead
  <2>5. \A u : Main(0, [a \in Axes |-> 0], u)
    BY HomeAtZero DEF Main, Axes
  <2>6. \A u : Ready(CalibrationSteps, [a \in Axes |-> 0], u)
    BY <2>4, <2>5 DEF Ready
  <2> QED
    BY <2>1, <2>2, <2>3, <2>6 DEF PlanInv
<1>5. CASE ClickNudge \/ ClickScreenMove
  <2>1. job' = NoJob /\ pending'.kind # "calibration"
    <3>1. job' = NoJob
      BY <1>5, ClickRests DEF ClickNudge, ClickScreenMove
    <3>2. CASE ClickNudge
      <4>1. \E move, before : pending' = [kind |-> "nudge", move |-> move, before |-> before]
        BY <3>2 DEF ClickNudge
      <4> QED
        BY <3>1, <4>1
    <3>3. CASE ClickScreenMove
      <4>1. pending' = [kind |-> "screen"]
        BY <3>3 DEF ClickScreenMove
      <4> QED
        BY <3>1, <4>1
    <3> QED
      BY <1>5, <3>2, <3>3
  <2>2. NoJob.phase = "none"
    BY DEF NoJob
  <2> QED
    BY <2>1, <2>2, NothingToAccount DEF PlanInv
<1>6. CASE PollBefore \/ PollAfter \/ PollPulse
  BY <1>6, AccountOfPolls
<1>7. CASE PollNudge \/ PollScreenMove \/ PollReturn
  <2>1. job' = NoJob /\ pending'.kind # "calibration"
    BY <1>7, Shapes DEF Distinct, PollNudge, PollScreenMove, PollReturn, Take, NoMove
  <2>2. NoJob.phase = "none"
    BY DEF NoJob
  <2> QED
    BY <2>1, <2>2, NothingToAccount DEF PlanInv
<1>8. CASE Worker
  <2>1. Busy /\ UNCHANGED <<net, size, sized, job, pending, queue>>
    BY <1>8 DEF Worker, WorkerIssues, WorkerMoves, WorkerRefuses, WorkerFails, WorkerReleases,
                WorkerPublishes, Busy, panelVars, runVars
  <2>2. job = NoJob
    BY <2>1, Shapes DEF Distinct, OneAtATime, Handover
  <2>3. PlanInv'
    BY <1>1, <2>1, <2>2
  <2>4. pending.kind = "calibration" => Settled(net, MoveOf(pending))'
    <3> SUFFICES ASSUME pending.kind = "calibration" PROVE Settled(net, MoveOf(pending))'
      OBVIOUS
    <3>1. pending \in Calibrations
      BY DEF Typed, DeskTyped, NoMove, NudgeMoves
    <3>2. MoveOf(pending) \in Moves
      BY <3>1 DEF Calibrations, MoveOf, Moves, Steps
    <3>3. SettledNext(net, MoveOf(pending))
      BY <1>8, <3>2, SettledKept DEF NetInv
    <3>4. MoveOf(pending)' = MoveOf(pending)
      BY <2>1 DEF MoveOf
    <3> QED
      BY <2>1, <3>3, <3>4 DEF SettledNext, SequelNext, Settled, Sequel, SameAs, MovedBy, Counted
  <2> QED
    BY <2>1, <2>2, <2>3, <2>4 DEF NetInv
<1> QED
  BY <1>3, <1>4, <1>5, <1>6, <1>7, <1>8 DEF Next, Poll

\* Hence the axes are accounted for, always.
LEMMA AlwaysAccounted ==
  ASSUME ClicksAfterPoll
  PROVE  Spec => [](NetInv /\ PlanInv)
<1>1. Init => NetInv /\ PlanInv
  BY DEF Init, NetInv, PlanInv, NoMove, NoJob
<1>2. Typed /\ OneAtATime /\ NetInv /\ PlanInv /\ [Next]_vars => NetInv' /\ PlanInv'
  BY AccountKept
<1> QED
  BY <1>1, <1>2, AlwaysTyped, AlwaysOneAtATime, PTL DEF Spec

-----------------------------------------------------------------------------
(* Home: what the panel reports.                                             *)

\* The moves of the worker's sequence are all of one axis and lead it home from where it is.
Underway(a) ==
  /\ \A k \in 1 .. Len(worker.seq) : worker.seq[k].axis = a
  /\ \E T \in [1 .. Len(worker.seq) + 1 -> Int] :
       /\ T[worker.i] = pos[a] /\ Home(T[Len(worker.seq) + 1])
       /\ \A k \in 1 .. Len(worker.seq) : T[k + 1] = T[k] + worker.seq[k].dir * worker.seq[k].size
\* One axis is on its way back, or has come back if it is reported so; the other one is home.
Returning(a) ==
  /\ Home(pos[Other(a)])
  /\ IF Early THEN Underway(a) ELSE Report.pulsed => Home(pos[a])
ReturningNext(a) ==
  /\ Home(pos'[Other(a)])
  /\ IF Early'
     THEN /\ \A k \in 1 .. Len(worker'.seq) : worker'.seq[k].axis = a
          /\ \E T \in [1 .. Len(worker'.seq) + 1 -> Int] :
               /\ T[worker'.i] = pos'[a] /\ Home(T[Len(worker'.seq) + 1])
               /\ \A k \in 1 .. Len(worker'.seq) : T[k + 1] = T[k] + worker'.seq[k].dir * worker'.seq[k].size
     ELSE Report'.pulsed => Home(pos'[a])

HomeInv ==
  /\ awaiting => \E a \in Axes : Returning(a)
  /\ said \in {"calibrated", "returned"} => \A a \in Axes : Home(pos[a])

\* The way home of an abort brings both axes home.
LEMMA HomeOfAbort ==
  ASSUME NEW axis \in Axes, NEW n \in [Axes -> Int], NEW left, left.outcome = NoOutcome, worker = NoWork,
         Home(n[Other(axis)]), SameAs(n), pos' = pos, ~awaiting, Abort(axis, n, left)
  PROVE  HomeInv'
<1> DEFINE back == AbortReturn(axis, n)
<1>1. ~Busy
  BY DEF Busy, NoWork
<1>2. said' = "failed" /\ awaiting' = (awaiting \/ back # <<>>)
  BY DEF Abort
<1>3. CASE back = <<>>
  BY <1>2, <1>3 DEF HomeInv
<1>4. CASE back # <<>>
  <2>1. Submit(back, left)
    BY <1>1, <1>4 DEF Abort
  <2>2. Other(axis) \in Axes
    BY DEF Other, Axes
  <2>3. Home(pos'[Other(axis)]) /\ pos'[axis] = n[axis] /\ n[axis] \in Int
    BY <2>2 DEF SameAs
  <2>4. CASE worker' = [at |-> "sending", seq |-> back, i |-> 1]
    <3> DEFINE chunks == ReturnChunks(Size(n[axis]), AbortCap)
    <3>1. Size(n[axis]) \in Nat /\ AbortCap \in Nat \ {0}
      BY <2>3, SizesTyped DEF Size
    <3>2. chunks \in Seq(1 .. (IF AbortCap < Floor THEN Floor ELSE AbortCap))
      BY <3>1, ChunksTyped
    <3>3. back = [k \in DOMAIN chunks |-> [axis |-> axis, dir |-> Back(n[axis]), size |-> chunks[k]]]
      BY DEF AbortReturn
    <3>4. back \in Seq(Moves)
      BY AbortReturnTyped
    <3> HIDE DEF chunks, back
    <3>5. DOMAIN chunks = 1 .. Len(chunks) /\ Len(chunks) \in Nat
      BY <3>2
    <3>6. Len(back) = Len(chunks)
      BY <3>3, <3>4, <3>5
    <3>7. \A k \in 1 .. Len(back) : back[k].axis = axis /\ back[k].dir = Back(n[axis]) /\ back[k].size = chunks[k]
      BY <3>3, <3>5, <3>6
    <3>8. \E y \in Int : Home(y) /\ Leads(back, n[axis], y)
      BY <2>3, <3>1, <3>4, <3>6, <3>7, LeadsHome DEF chunks
    <3>9. \E T \in [1 .. Len(back) + 1 -> Int] :
            /\ T[1] = n[axis] /\ Home(T[Len(back) + 1])
            /\ \A k \in 1 .. Len(back) : T[k + 1] = T[k] + back[k].dir * back[k].size
      BY <3>8 DEF Leads
    <3>10. worker'.seq = back /\ worker'.i = 1 /\ Early'
      BY <2>4 DEF Early
    <3>11. ReturningNext(axis)
      BY SMTT(30), <2>3, <3>7, <3>9, <3>10 DEF ReturningNext
    <3>12. Returning(axis)'
      BY <3>11 DEF Returning, ReturningNext, Underway
    <3> QED
      BY <1>2, <3>12 DEF HomeInv
  <2>5. CASE worker' = NoWork /\ outcome' = Failure(0)
    <3>1. ~Early' /\ ~Report'.pulsed
      BY <2>5 DEF Early, Report, NoWork, Failure
    <3>2. Returning(axis)'
      BY <2>3, <3>1 DEF Returning
    <3> QED
      BY <1>2, <3>2 DEF HomeInv
  <2> QED
    BY <2>1, <2>4, <2>5, Handed
<1> QED
  BY <1>3, <1>4

\* The polls say home only of axes that are.
LEMMA HomeOfPolls ==
  ASSUME Typed, OneAtATime, NetInv, PlanInv, PollBefore \/ PollAfter \/ PollPulse
  PROVE  HomeInv'
<1>1. PICK left \in {Captured(job.shot), Taken} :
        /\ Resting(left)
        /\ LeadsToAbort(left) \/ LeadsToStep(left) \/ LeadsToNext(left) \/ LeadsToView(left)
  <2>1. check' = check
    BY DEF PollBefore, PollAfter, PollPulse
  <2>2. CASE PollBefore \/ PollAfter
    <3>1. job # NoJob
      BY <2>2, Shapes DEF Distinct, PollBefore, PollAfter
    <3>2. Resting(Captured(job.shot))
      BY <2>1, <3>1, RunRests
    <3> QED
      BY <2>2, <3>2, PollBeforeCases, PollAfterPlan
  <2>3. CASE PollPulse
    <3>1. Resting(Taken)
      BY <2>1, <2>3, RunRests DEF PollPulse, Take
    <3> QED
      BY <2>3, <3>1, PollPulsePlan
  <2> QED
    BY <2>2, <2>3
<1>2. SameAs(net') /\ pos' = pos
  BY PollBeforeCases, PollAfterPlan, PollPulsePlan DEF PollBefore, PollAfter, PollPulse, ghostVars
<1>3. worker = NoWork /\ left.outcome = NoOutcome /\ ~awaiting /\ said = "running" /\ ~Busy
  BY <1>1 DEF Resting, Busy, NoWork
<1>4. CASE LeadsToAbort(left)
  <2>1. PICK axis \in Axes, n \in [Axes -> Int] : net' = n /\ Home(n[Other(axis)]) /\ Abort(axis, n, left)
    BY <1>4 DEF LeadsToAbort
  <2>2. SameAs(n)
    BY <1>2, <2>1
  <2> QED
    BY <1>2, <1>3, <2>1, <2>2, HomeOfAbort
<1>5. ASSUME ~awaiting', said' = "running" PROVE HomeInv'
  BY <1>5 DEF HomeInv
<1>6. CASE LeadsToStep(left) \/ LeadsToView(left)
  <2>1. CASE LeadsToStep(left)
    <3>1. UNCHANGED <<awaiting, said>>
      BY <1>3, <2>1 DEF LeadsToStep, SubmitStep
    <3> QED
      BY <1>3, <1>5, <3>1
  <2>2. CASE LeadsToView(left)
    <3>1. UNCHANGED <<awaiting, said>>
      BY <2>2 DEF LeadsToView
    <3> QED
      BY <1>3, <1>5, <3>1
  <2> QED
    BY <1>6, <2>1, <2>2
<1>7. CASE LeadsToNext(left)
  <2>1. PICK q \in Seq(Steps), n \in [Axes -> Int] : net' = n /\ Ready(q, n, Unit) /\ BeginStep(q, n, left)
    BY <1>7 DEF LeadsToNext
  <2>2. CASE q = <<>>
    <3>1. \A a \in Axes : Home(n[a])
      BY <2>1, <2>2, ReadyEmpty
    <3>2. \A a \in Axes : Home(pos'[a])
      BY <1>2, <2>1, <3>1 DEF SameAs
    <3>3. awaiting' = FALSE \/ ~awaiting'
      BY <1>3, <2>1, <2>2 DEF BeginStep, FinishCalibration
    <3> QED
      BY <3>2, <3>3 DEF HomeInv
  <2>3. CASE q # <<>>
    <3>1. ~awaiting' /\ said' = "running"
      BY <1>3, <2>1, <2>3 DEF BeginStep, SubmitStep
    <3> QED
      BY <1>5, <3>1
  <2> QED
    BY <2>2, <2>3
<1> QED
  BY <1>1, <1>4, <1>6, <1>7

\* The steps of the worker carry a way back on.
LEMMA ReturningKept ==
  ASSUME Typed, NEW a \in Axes, Returning(a), Worker
  PROVE  ReturningNext(a)
<1> DEFINE b == Other(a)
<1>0. pos \in [Axes -> Int] /\ b \in Axes /\ b # a /\ Home(pos[b])
  BY DEF Typed, GhostTyped, Other, Axes, Returning
<1>1. ASSUME worker.at \in {"sending", "moving"}
      PROVE  /\ worker \in [at : {"sending", "moving"}, seq : Seq(Moves), i : Nat \ {0}]
             /\ worker.i \in 1 .. Len(worker.seq) /\ Len(worker.seq) \in Nat /\ Current \in Moves
             /\ Underway(a) /\ Current.axis = a
  <2>1. /\ worker \in [at : {"sending", "moving"}, seq : Seq(Moves), i : Nat \ {0}]
        /\ worker.i \in 1 .. Len(worker.seq) /\ Len(worker.seq) \in Nat /\ Current \in Moves
    BY <1>1, CurrentTyped DEF Typed, DeskTyped
  <2>2. Underway(a)
    BY <1>1 DEF Returning, Early
  <2> QED
    BY <2>1, <2>2 DEF Underway, Current
<1> HIDE DEF b
<1>2. CASE WorkerIssues
  <2>1. worker' = [worker EXCEPT !.at = "moving"] /\ worker.at = "sending" /\ pos' = pos
    BY <1>2 DEF WorkerIssues, ghostVars
  <2>2. worker'.seq = worker.seq /\ worker'.i = worker.i /\ Early'
    BY <1>1, <2>1 DEF Early
  <2> QED
    BY <1>0, <1>1, <2>1, <2>2 DEF ReturningNext, Underway, b
<1>3. CASE WorkerMoves
  <2> DEFINE i == worker.i
             L == Len(worker.seq)
  <2>1. worker.at = "moving" /\ pos' = [pos EXCEPT ![a] = @ + Current.dir * Current.size]
    BY <1>1, <1>3 DEF WorkerMoves
  <2>2. PICK T \in [1 .. L + 1 -> Int] :
          /\ T[i] = pos[a] /\ Home(T[L + 1])
          /\ \A k \in 1 .. L : T[k + 1] = T[k] + worker.seq[k].dir * worker.seq[k].size
    BY <1>1, <2>1 DEF Underway
  <2>3. i \in 1 .. L /\ L \in Nat
    BY <1>1, <2>1
  <2>4. pos'[a] = T[i + 1]
    <3>1. pos'[a] = pos[a] + Current.dir * Current.size
      BY <1>0, <2>1
    <3> QED
      BY <2>2, <2>3, <3>1 DEF Current
  <2>5. Home(pos'[b])
    BY <1>0, <2>1
  <2>6. CASE i < L
    <3>1. worker' = [worker EXCEPT !.at = "sending", !.i = @ + 1]
      BY <1>3, <2>6 DEF WorkerMoves
    <3>2. worker'.seq = worker.seq /\ worker'.i = i + 1 /\ Early'
      BY <1>1, <2>1, <3>1 DEF Early
    <3>3. \A k \in 1 .. L : worker.seq[k].axis = a
      BY <1>1, <2>1 DEF Underway
    <3> QED
      BY <2>2, <2>4, <2>5, <3>2, <3>3 DEF ReturningNext, b
  <2>7. CASE ~(i < L)
    <3>1. worker' = [at |-> "ending", result |-> Success]
      BY <1>3, <2>7 DEF WorkerMoves
    <3>2. i = L
      BY <2>3, <2>7
    <3>3. ~Early'
      BY <3>1 DEF Early
    <3>4. Home(pos'[a])
      BY <2>2, <2>4, <3>2
    <3> QED
      BY <2>5, <3>3, <3>4 DEF ReturningNext, b
  <2> QED
    BY <2>6, <2>7
<1>4. CASE WorkerRefuses \/ WorkerFails
  <2>1. \E sent : worker' = [at |-> "ending", result |-> Failure(sent)]
    BY <1>4 DEF WorkerRefuses, WorkerFails
  <2>2. ~Early' /\ ~Report'.pulsed
    BY <2>1 DEF Early, Report, NoWork, Failure
  <2>3. pos'[b] = pos[b]
    <3>1. CASE WorkerRefuses
      BY <3>1 DEF WorkerRefuses, ghostVars
    <3>2. CASE WorkerFails
      <4>1. \E d : pos' = [pos EXCEPT ![a] = d]
        BY <1>1, <3>2 DEF WorkerFails
      <4> QED
        BY <1>0, <4>1
    <3> QED
      BY <1>4, <3>1, <3>2
  <2> QED
    BY <1>0, <2>2, <2>3 DEF ReturningNext, b
<1>5. CASE WorkerReleases \/ WorkerPublishes
  <2>1. worker \in [at : {"ending", "released"}, result : Results]
    BY <1>5 DEF WorkerReleases, WorkerPublishes, Typed, DeskTyped, RunnerTyped, Workers, NoWork
  <2>2. ~Early /\ ~Early' /\ Report' = Report /\ pos' = pos
    <3>1. CASE WorkerReleases
      <4>1. worker' = [at |-> "released", result |-> worker.result]
        BY <2>1, <3>1 DEF WorkerReleases
      <4> QED
        BY <2>1, <3>1, <4>1 DEF WorkerReleases, Early, Report, NoWork, ghostVars
    <3>2. CASE WorkerPublishes
      BY <2>1, <3>2 DEF WorkerPublishes, Early, Report, NoWork, ghostVars
    <3> QED
      BY <1>5, <3>1, <3>2
  <2> QED
    BY <2>2 DEF Returning, ReturningNext
<1> QED
  BY <1>2, <1>3, <1>4, <1>5 DEF Worker

\* Every step keeps what is said of home true.
LEMMA HomeKept ==
  ASSUME ClicksAfterPoll, Typed, OneAtATime, NetInv, PlanInv, HomeInv, [Next]_vars
  PROVE  HomeInv'
<1>1. ASSUME UNCHANGED <<worker, outcome, pos>>, awaiting' => awaiting,
             said' \in {"calibrated", "returned"} => said' = said
      PROVE  HomeInv'
  BY <1>1 DEF HomeInv, Returning, Underway, Early, Report
<1>2. CASE Connect \/ Disconnect \/ ClickStop \/ ClickStopMount \/ ChangeMode \/ PollCaptureError
           \/ PollIdle \/ OtherClaims \/ OtherReleases \/ CheckEnds \/ CaptureEnds \/ UNCHANGED vars
  <2>1. UNCHANGED <<worker, outcome, pos>>
    BY <1>2 DEF Connect, Disconnect, ClickStop, ClickStopMount, ChangeMode, PollCaptureError, PollIdle,
       OtherClaims, OtherReleases, CheckEnds, CaptureEnds, StopAll, vars, runVars, runnerVars, ghostVars
  <2>2. awaiting' = awaiting \/ awaiting' = FALSE
    BY <1>2 DEF Connect, Disconnect, ClickStop, ClickStopMount, ChangeMode, PollCaptureError, PollIdle,
       OtherClaims, OtherReleases, CheckEnds, CaptureEnds, StopAll, CancelActivity, vars, panelVars
  <2>3. said' = said \/ said' = "stopped" \/ said' = "failed"
    BY <1>2 DEF Connect, Disconnect, ClickStop, ClickStopMount, ChangeMode, PollCaptureError, PollIdle,
       OtherClaims, OtherReleases, CheckEnds, CaptureEnds, StopAll, vars, panelVars
  <2> QED
    BY <1>1, <2>1, <2>2, <2>3
<1>3. CASE PollCheck
  BY <1>1, <1>3 DEF PollCheck, NoSubmit, Captured, ghostVars
<1>4. CASE ClickCalibrate \/ ClickNudge \/ ClickScreenMove
  <2>1. ~awaiting' /\ said' \in {"running", "moving"}
    BY <1>4, ClickRests DEF ClickCalibrate, ClickNudge, ClickScreenMove
  <2> QED
    BY <2>1 DEF HomeInv
<1>5. CASE PollBefore \/ PollAfter \/ PollPulse
  BY <1>5, HomeOfPolls
<1>6. CASE PollNudge \/ PollScreenMove
  <2>1. pending # NoMove /\ outcome # NoOutcome
    BY <1>6, Shapes DEF Distinct, PollNudge, PollScreenMove, Take
  <2>2. ~awaiting' /\ said' \in {"done", "failed"}
    BY <1>6, <2>1 DEF PollNudge, PollScreenMove, OneAtATime, Telling
  <2> QED
    BY <2>2 DEF HomeInv
<1>7. CASE PollReturn
  <2>1. /\ awaiting' = FALSE /\ worker = NoWork /\ pos' = pos
        /\ said' = IF ~awaiting THEN said ELSE IF outcome.pulsed THEN "returned" ELSE "unsure"
    BY <1>7 DEF PollReturn, Take, OneAtATime, Handover, ghostVars
  <2>2. CASE ~awaiting
    BY <2>1, <2>2 DEF HomeInv
  <2>3. CASE awaiting
    <3>1. PICK a \in Axes : Returning(a)
      BY <2>3 DEF HomeInv
    <3>2. ~Early /\ Report = outcome
      BY <2>1 DEF Early, Report, NoWork
    <3>3. outcome.pulsed => \A c \in Axes : Home(pos[c])
      BY <3>1, <3>2 DEF Returning, Other, Axes
    <3> QED
      BY <2>1, <2>3, <3>3 DEF HomeInv
  <2> QED
    BY <2>2, <2>3
<1>8. CASE Worker
  <2>1. Busy /\ UNCHANGED <<awaiting, said>>
    BY <1>8 DEF Worker, WorkerIssues, WorkerMoves, WorkerRefuses, WorkerFails, WorkerReleases,
                WorkerPublishes, Busy, panelVars
  <2>2. said' \notin {"calibrated", "returned"}
    BY <2>1, Shapes DEF Distinct, OneAtATime, Telling
  <2>3. ASSUME NEW a \in Axes, Returning(a) PROVE Returning(a)'
    <3>1. ReturningNext(a)
      BY <1>8, <2>3, ReturningKept
    <3> QED
      BY <3>1 DEF Returning, ReturningNext, Underway
  <2>4. awaiting' => \E a \in Axes : Returning(a)'
    BY <2>1, <2>3 DEF HomeInv
  <2> QED
    BY <2>2, <2>4 DEF HomeInv
<1> QED
  BY <1>2, <1>3, <1>4, <1>5, <1>6, <1>7, <1>8 DEF Next, Poll

\* What the panel says is true of the mount: calibrated, or back after an abort, it is home
\* (mount_test_move_panel.py, mount_align_sizing.py), when clicks come after the poll.
THEOREM SaidIsHome ==
  ASSUME ClicksAfterPoll
  PROVE  Spec => []HomeWhenSaid
<1>1. Init => HomeInv
  BY DEF Init, HomeInv
<1>2. Typed /\ OneAtATime /\ NetInv /\ PlanInv /\ HomeInv /\ [Next]_vars => HomeInv'
  BY HomeKept
<1>3. HomeInv => HomeWhenSaid
  BY DEF HomeInv, HomeWhenSaid, Home
<1> QED
  BY <1>1, <1>2, <1>3, AlwaysTyped, AlwaysOneAtATime, AlwaysAccounted, PTL DEF Spec

=============================================================================
