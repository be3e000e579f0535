------------------------------ MODULE Collimation ------------------------------
(***************************************************************************)
(* The rough collimation assistant: the panel hands frames to one analysis *)
(* thread (ui/frame_analyzer.py), each analysis measures how far the       *)
(* star's donut is off centre and the advisor turns that into "turn this   *)
(* screw that way" (application/collimation_controller.py,                 *)
(* domain/collimation_state.py), from what the learner was told of each    *)
(* screw's response. The session's state machine stands beside them: only  *)
(* its callers decide when it moves.                                       *)
(*                                                                         *)
(* The telescope is linear: a turn of screw s clockwise shifts the donut   *)
(* by truth[s]; the detection of the donut is outside this module.         *)
(***************************************************************************)
EXTENDS Integers, Sequences

CONSTANTS Screws,        \* the collimation screws
          Truths,        \* what a clockwise turn of each may do, [Screws -> vectors]
          Errors,        \* what the donut may be off by at first
          Collimated,    \* below this error (squared) no screw is advised
          Faint,         \* below this response (squared) a screw is not used
          Saturation,    \* observations that make a calibration certain
          MaxTurns, MaxFrames   \* bounds

VARIABLES
  session,   \* CollimationStateMachine: [at, prePause]
  truth, error,              \* the telescope
  learned,   \* ScrewResponseLearner: screw -> [sum, n]
  frame,     \* sequence number of the last frame the panel took
  analysis,  \* FrameAnalyzer: the frame under analysis, or None
  outcome,   \* its latest outcome not yet taken, or None
  shown,     \* what the panel shows, or None
  streaming,
  turns      \* bounded count of turns
collimationVars ==
  <<session, truth, error, learned, frame, analysis, outcome, shown, streaming, turns>>

Plus(u, v) == <<u[1] + v[1], u[2] + v[2]>>
Times(k, v) == <<k * v[1], k * v[2]>>
Dot(u, v) == u[1] * v[1] + u[2] * v[2]
Size(v) == Dot(v, v)
Abs(n) == IF n < 0 THEN -n ELSE n

None == [seq |-> 0]

-------------------------------------------------------------------------------
(* The session's state machine *)
Workflow == <<"idle", "precheck", "acquire_star", "center_star", "auto_exposure",
              "rough_defocus", "map_screws_by_obstruction", "measure_donut",
              "guide_rough_collimation", "focus", "complete">>

ValidTransitions ==
  {<<Workflow[i], Workflow[i + 1]>> : i \in 1..(Len(Workflow) - 1)}
    \cup {<<Workflow[i], "failed">> : i \in 2..(Len(Workflow) - 1)}
    \cup {<<"guide_rough_collimation", "measure_donut">>}

Session(at, prePause) == session' = [at |-> at, prePause |-> prePause]

Transition == \E t \in ValidTransitions : t[1] = session.at /\ Session(t[2], session.prePause)
Pause == session.at # "paused" /\ Session("paused", session.at)
Resume == session.at = "paused" /\ session.prePause # "none" /\ Session(session.prePause, "none")
Reset == Session("idle", "none")

-------------------------------------------------------------------------------
(* The learner and the advisor *)

\* observe(): the shift of one turn, turned round when the screw was not
\* turned clockwise.
Observe(s, before, after, cw) ==
  LET shift == Plus(after, Times(-1, before))
  IN [learned EXCEPT ![s] = [sum |-> Plus(@.sum, IF cw THEN shift ELSE Times(-1, shift)),
                             n |-> @.n + 1]]

\* The average of equal observations is any of them.
Response(s) == <<learned[s].sum[1] \div learned[s].n, learned[s].sum[2] \div learned[s].n>>

Calibrated == {s \in Screws : learned[s].n > 0 /\ Size(Response(s)) >= Faint}

\* confidence is alignment * n / Saturation, capped at one and halved when
\* the calibration is poor; at one half a recommendation is shown as a command.
Actionable(s, e) ==
  LET n == IF learned[s].n > Saturation THEN Saturation ELSE learned[s].n
      k == IF 10 * n < 3 * Saturation THEN 1 ELSE 2
      dot == Dot(e, Response(s))
  IN (k * n * dot) * (k * n * dot) >= Saturation * Saturation * Size(e) * Size(Response(s))

\* recommend(): the screw whose response lies most along the correction.
Recommend(e) ==
  IF Calibrated = {} \/ Size(e) < Collimated THEN {[screw |-> "none"]}
  ELSE {[screw |-> s, cw |-> Dot(Times(-1, e), Response(s)) > 0,
         command |-> Actionable(s, e)]
        : s \in {c \in Calibrated :
                 \A o \in Calibrated : Abs(Dot(e, Response(c))) >= Abs(Dot(e, Response(o)))}}

-------------------------------------------------------------------------------
(* The frames, the panel and the operator *)
Advice(seq, e, advice) == [seq |-> seq, on |-> e, advice |-> advice]

StartStream ==
  /\ ~streaming /\ streaming' = TRUE
  /\ UNCHANGED <<session, truth, error, learned, frame, analysis, outcome, shown, turns>>

\* _poll_frame(): a new frame is submitted, and dropped while another is
\* analysed; the latest outcome is taken and shown.
PollFrame ==
  /\ streaming /\ frame < MaxFrames
  /\ \E new \in BOOLEAN :
       /\ frame' = IF new THEN frame + 1 ELSE frame
       /\ analysis' = IF new /\ analysis = None THEN [seq |-> frame + 1, on |-> error] ELSE analysis
  /\ shown' = IF outcome # None THEN outcome ELSE shown
  /\ outcome' = None
  /\ UNCHANGED <<session, truth, error, learned, streaming, turns>>

\* The analysis thread: measured, no donut found, or died on an exception.
Analyse ==
  /\ analysis # None /\ analysis' = None
  /\ \/ \E r \in Recommend(analysis.on) : outcome' = Advice(analysis.seq, analysis.on, r)
     \/ outcome' = Advice(analysis.seq, analysis.on, [screw |-> "none"])
     \/ UNCHANGED outcome
  /\ UNCHANGED <<session, truth, error, learned, frame, shown, streaming, turns>>

\* _reset_stale_state(): the analysis under way is not waited for.
SwitchCamera ==
  /\ streaming' = FALSE /\ outcome' = None /\ shown' = None
  /\ error' \in Errors
  /\ UNCHANGED <<session, truth, learned, frame, analysis, turns>>

Turned(s, cw) == Plus(error, Times(IF cw THEN 1 ELSE -1, truth[s]))

FollowAdvice ==
  /\ turns < MaxTurns /\ turns' = turns + 1
  /\ shown # None /\ shown.advice.screw # "none" /\ shown.advice.command
  /\ error' = Turned(shown.advice.screw, shown.advice.cw)
  /\ UNCHANGED <<session, truth, learned, frame, analysis, outcome, shown, streaming>>

\* record_screw_adjustment(): measured, turned, measured again.
RecordScrewAdjustment ==
  /\ turns < MaxTurns /\ turns' = turns + 1
  /\ \E s \in Screws, cw \in BOOLEAN :
       /\ error' = Turned(s, cw)
       /\ learned' = Observe(s, error, error', cw)
  /\ UNCHANGED <<session, truth, frame, analysis, outcome, shown, streaming>>

CollimationInit ==
  /\ session = [at |-> "idle", prePause |-> "none"]
  /\ truth \in Truths /\ error \in Errors
  /\ learned = [s \in Screws |-> [sum |-> <<0, 0>>, n |-> 0]]
  /\ frame = 0 /\ analysis = None /\ outcome = None /\ shown = None
  /\ streaming = FALSE /\ turns = 0

SessionNext ==
  /\ Transition \/ Pause \/ Resume \/ Reset
  /\ UNCHANGED <<truth, error, learned, frame, analysis, outcome, shown, streaming, turns>>

AssistantNext ==
  \/ StartStream \/ PollFrame \/ Analyse \/ SwitchCamera
  \/ FollowAdvice \/ RecordScrewAdjustment

CollimationNext == SessionNext \/ AssistantNext

-------------------------------------------------------------------------------
\* Types; no analysis is of a frame not yet polled (frame_analyzer.py, collimation_state.py).
CollimationTypeOK ==
  /\ session.prePause \in {"none", "failed"} \cup {Workflow[i] : i \in DOMAIN Workflow}
  /\ turns \in 0..MaxTurns /\ frame \in 0..MaxFrames
  /\ \A r \in {analysis, outcome, shown} : r.seq \in 0..frame
  /\ \A s \in Screws : learned[s].n \in 0..MaxTurns

\* A session is paused exactly as long as it knows where to go on
\* (CollimationStateMachine.pause, resume, reset).
PausedKnowsWhere == (session.at = "paused") = (session.prePause # "none")

\* What the panel shows turns a screw the way that shrinks the error it was
\* measured on, whichever way the screws were turned while they were learned
\* (ScrewResponseLearner.observe, CollimationAdvisor.recommend).
AdviceReduces ==
  \A r \in {outcome, shown} :
    (r # None /\ r.advice.screw # "none" /\ r.advice.command)
      => Dot(r.on, Times(IF r.advice.cw THEN 1 ELSE -1, truth[r.advice.screw])) < 0

\* Frames are analysed one at a time and in order: what is shown is never
\* replaced by the analysis of an older frame (FrameAnalyzer.submit).
AnalysedInOrder ==
  /\ outcome # None => outcome.seq > shown.seq
  /\ analysis # None => analysis.seq > outcome.seq /\ analysis.seq > shown.seq
===============================================================================
