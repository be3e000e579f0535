--------------------------- MODULE MountLink_proofs ---------------------------
(***************************************************************************)
(* What the shims of the mount say is so, for every value of the constants:*)
(* what a guide pulse says of the tracking and its move reports as sent    *)
(* (GuidePulse); one client while somebody holds the shared connection,    *)
(* and honest answers of the shims that share it (OnStepConnection).       *)
(***************************************************************************)
EXTENDS GuidePulse, OnStepConnection, FiniteSetTheorems, TLAPS

-------------------------------------------------------------------------------
(* The guide pulse. *)

\* A pulse under way belongs to a move that waits for it and has a pulse left.
Waiting ==
  /\ pulse.at # "none" => move.at = "asked"
  /\ move.at = "asked" => move.done < Pulses

\* A worker that is alive although the pulse has joined, or need not join, the
\* one it found, was started by a Stop pressed since; so was one that is alive
\* beside a verdict that says "tracking".
JoinedOrPressed ==
  /\ pulse.at = "joining" /\ stopper.id # pulse.waits => since.pressed
  /\ pulse.at = "asking" /\ Alive => since.pressed
  /\ verdict.given /\ verdict.unsentByStop /\ ~verdict.trackingOff /\ Alive => since.pressed

\* No verdict stands while a pulse is under way.
NoVerdictYet == pulse.at # "none" => ~verdict.given

\* The invariant behind VerdictTruthful.
VerdictInv == PulseTypeOK /\ Waiting /\ JoinedOrPressed /\ NoVerdictYet /\ VerdictTruthful

\* Chunks that reached the mount: those of the completed pulses and of the one
\* under way; a pulse that has issued none is not past its preflight.
ChunksCounted ==
  /\ move.at # "over" => move.partly = 0 /\ issued = move.done * Chunks + pulse.chunk
  /\ pulse.at \in {"none", "joining", "asking"} => pulse.chunk = 0
  /\ move.at = "over" =>
       issued \in (move.done * Chunks)..((move.done + move.partly) * Chunks)

\* The invariant behind MovedAsReported.
MovedInv == PulseTypeOK /\ Waiting /\ ChunksCounted

-------------------------------------------------------------------------------
\* Nothing is under way at first.
LEMMA PulseTypeInit == PulseInit => PulseTypeOK /\ Waiting
<1> SUFFICES ASSUME PulseInit PROVE PulseTypeOK /\ Waiting
  OBVIOUS
<1> USE GuidePulseAssumption DEF PulseInit, NoPulse, NoVerdict, GuidePulseAssumption
<1>1. stopper \in Stoppers
  BY DEF Stoppers
<1>2. move \in MoveStates
  BY DEF MoveStates
<1>3. pulse \in PulseStates
  BY DEF PulseStates
<1>4. verdict \in Verdicts
  BY DEF Verdicts
<1>5. since \in [pressed : BOOLEAN, overtaken : BOOLEAN]
  OBVIOUS
<1>6. QED
  BY <1>1, <1>2, <1>3, <1>4, <1>5 DEF PulseTypeOK, Waiting

\* What guide_pulse returns, and what the move makes of it.
LEMMA Returned ==
  ASSUME PulseTypeOK, Waiting, pulse.at # "none", NEW v \in Verdicts, Return(v)
  PROVE  verdict' \in Verdicts /\ pulse' = NoPulse /\ pulse' \in PulseStates
         /\ move' \in MoveStates /\ Waiting'
         /\ UNCHANGED <<latch, generation, stopper, tracks, issued, moves, stops>>
<1> USE DEF PulseTypeOK, Return
<1>1. verdict' \in Verdicts
  BY DEF Verdicts
<1>2. pulse' = NoPulse /\ pulse' \in PulseStates
  BY GuidePulseAssumption DEF NoPulse, PulseStates, GuidePulseAssumption
<1>3. move.at = "asked" /\ move.done < Pulses
  BY DEF Waiting
<1>4. move' \in MoveStates /\ move'.at # "asked"
  <2>1. CASE v.accepted
    <3>1. move.done + 1 \in 0..Pulses
      BY <1>3, GuidePulseAssumption DEF MoveStates, GuidePulseAssumption
    <3>2. move' = [move EXCEPT !.at = "between", !.done = move.done + 1]
      BY <2>1
    <3>3. QED
      BY <3>1, <3>2 DEF MoveStates
  <2>2. CASE ~v.accepted
    <3>1. (IF v.sent THEN 1 ELSE 0) \in 0..1
      OBVIOUS
    <3>2. move' = [move EXCEPT !.at = "over", !.partly = IF v.sent THEN 1 ELSE 0]
      BY <2>2
    <3>3. QED
      BY <3>1, <3>2 DEF MoveStates
  <2>3. QED
    BY <2>1, <2>2
<1>5. Waiting'
  BY <1>2, <1>4 DEF Waiting, NoPulse
<1>6. QED
  BY <1>1, <1>2, <1>4, <1>5

\* Every step of the move, the pulse and the Stop worker keeps the types.
LEMMA PulseTypeStep == PulseTypeOK /\ Waiting /\ [PulseNext]_pulseVars => PulseTypeOK' /\ Waiting'
<1> SUFFICES ASSUME PulseTypeOK, Waiting, [PulseNext]_pulseVars PROVE PulseTypeOK' /\ Waiting'
  OBVIOUS
<1> USE GuidePulseAssumption DEF GuidePulseAssumption
<1>1. CASE Abort
  <2>1. stopper' \in Stoppers
    BY <1>1 DEF Abort, PulseTypeOK, Stoppers
  <2>2. since' \in [pressed : BOOLEAN, overtaken : BOOLEAN]
    BY <1>1 DEF Abort, PulseTypeOK
  <2>3. QED
    BY <1>1, <2>1, <2>2 DEF Abort, PulseTypeOK, Waiting
<1>2. CASE StopWorker
  <2>1. PassEnds \in Stoppers
    BY DEF PulseTypeOK, PassEnds, Stoppers
  <2>2. stopper' \in Stoppers
    BY <1>2, <2>1 DEF StopWorker, SendOneStop, Confirmed, SecondStop, PulseTypeOK, Stoppers
  <2>3. since' \in [pressed : BOOLEAN, overtaken : BOOLEAN]
    BY <1>2 DEF StopWorker, SendOneStop, Confirmed, SecondStop, PulseTypeOK
  <2>4. tracks' \in BOOLEAN
    BY <1>2 DEF StopWorker, SendOneStop, Confirmed, SecondStop, PulseTypeOK
  <2>5. UNCHANGED <<latch, generation, move, pulse, verdict, issued, moves, stops>>
    BY <1>2 DEF StopWorker, SendOneStop, Confirmed, SecondStop
  <2>6. QED
    BY <2>2, <2>3, <2>4, <2>5 DEF PulseTypeOK, Waiting
<1>3. CASE Begin
  <2>1. move' \in MoveStates /\ move'.at = "between" /\ verdict' \in Verdicts
    BY <1>3 DEF Begin, MoveStates, NoVerdict, Verdicts
  <2>2. pulse.at = "none"
    BY <1>3 DEF Begin, Waiting
  <2>3. issued' \in Nat /\ moves' \in Nat
    BY <1>3 DEF Begin, PulseTypeOK
  <2>4. latch' = FALSE /\ UNCHANGED <<generation, stopper, tracks, pulse, since, stops>>
    BY <1>3 DEF Begin
  <2>5. QED
    BY <2>1, <2>2, <2>3, <2>4 DEF PulseTypeOK, Waiting
<1>4. CASE TrackAgain
  BY <1>4 DEF TrackAgain, PulseTypeOK, Waiting
<1>5. CASE NextPulse
  <2>1. move' \in MoveStates /\ move'.done = move.done
    BY <1>5 DEF NextPulse, PulseTypeOK, MoveStates
  <2>2. pulse.at = "none" /\ (move'.at = "asked" => move'.done < Pulses)
    BY <1>5 DEF NextPulse, Waiting, PulseTypeOK, MoveStates
  <2>3. QED
    BY <1>5, <2>1, <2>2 DEF NextPulse, PulseTypeOK, Waiting
<1>6. CASE Enter
  <2>1. pulse' \in PulseStates
    <3>0. NoPulse \in PulseStates
      BY DEF NoPulse, PulseStates
    <3>1. stopper.id \in Nat
      BY DEF PulseTypeOK, Stoppers
    <3>2. CASE latch
      <4>1. (IF Alive THEN "joining" ELSE "asking") \in {"joining", "asking"}
        OBVIOUS
      <4>2. pulse' = [NoPulse EXCEPT !.at = IF Alive THEN "joining" ELSE "asking",
                                     !.waits = stopper.id]
        BY <1>6, <3>2 DEF Enter
      <4>3. QED
        BY <3>0, <3>1, <4>1, <4>2 DEF PulseStates
    <3>3. CASE ~latch
      <4>1. pulse' = [NoPulse EXCEPT !.at = "preflight"]
        BY <1>6, <3>3 DEF Enter
      <4>2. QED
        BY <3>0, <4>1 DEF PulseStates
    <3>4. QED
      BY <3>2, <3>3
  <2>2. verdict' \in Verdicts /\ since' \in [pressed : BOOLEAN, overtaken : BOOLEAN]
    BY <1>6 DEF Enter, Verdicts, NoVerdict
  <2>3. generation' \in Nat
    BY <1>6 DEF Enter, PulseTypeOK
  <2>4. QED
    BY <1>6, <2>1, <2>2, <2>3 DEF Enter, PulseTypeOK, Waiting
<1>7. CASE Joined
  <2>1. pulse' \in PulseStates
    BY <1>7 DEF Joined, PulseTypeOK, PulseStates
  <2>2. QED
    BY <1>7, <2>1 DEF Joined, PulseTypeOK, Waiting
<1>8. CASE JoinTimesOut
  <2>1. [NoVerdict EXCEPT !.trackingOff = TRUE, !.unsentByStop = TRUE] \in Verdicts
    BY DEF NoVerdict, Verdicts
  <2>2. QED
    BY <1>8, <2>1, Returned DEF JoinTimesOut, PulseTypeOK
<1>9. CASE AskAfterStop
  <2>1. PICK off \in TrackingNote(FALSE) :
           Return([NoVerdict EXCEPT !.trackingOff = off, !.unsentByStop = TRUE])
    BY <1>9 DEF AskAfterStop
  <2>2. off \in BOOLEAN
    BY <2>1 DEF TrackingNote, PulseTypeOK
  <2>3. [NoVerdict EXCEPT !.trackingOff = off, !.unsentByStop = TRUE] \in Verdicts
    BY <2>2 DEF NoVerdict, Verdicts
  <2>4. since' \in [pressed : BOOLEAN, overtaken : BOOLEAN]
    BY <1>9 DEF AskAfterStop, PulseTypeOK
  <2>5. QED
    BY <1>9, <2>1, <2>3, <2>4, Returned DEF AskAfterStop, PulseTypeOK
<1>10. CASE AskAfterFailure
  <2>1. PICK off \in TrackingNote(pulse.marked) :
           Return([NoVerdict EXCEPT !.sent = TRUE, !.trackingOff = off])
    BY <1>10 DEF AskAfterFailure
  <2>2. off \in BOOLEAN
    BY <2>1 DEF TrackingNote, PulseTypeOK
  <2>3. [NoVerdict EXCEPT !.sent = TRUE, !.trackingOff = off] \in Verdicts
    BY <2>2 DEF NoVerdict, Verdicts
  <2>4. since' \in [pressed : BOOLEAN, overtaken : BOOLEAN]
    BY <1>10 DEF AskAfterFailure, PulseTypeOK
  <2>5. QED
    BY <1>10, <2>1, <2>3, <2>4, Returned DEF AskAfterFailure, PulseTypeOK
<1>11. CASE Preflight
  <2>1. since' \in [pressed : BOOLEAN, overtaken : BOOLEAN] /\ pulse.at = "preflight"
    BY <1>11 DEF Preflight, PulseTypeOK
  <2>2. ASSUME pulse.chunk < Chunks, issued' = issued + 1,
               pulse' = [pulse EXCEPT !.at = "chunk", !.chunk = @ + 1],
               UNCHANGED <<latch, generation, stopper, tracks, move, verdict, moves, stops>>
        PROVE  PulseTypeOK' /\ Waiting'
    <3>1. pulse.chunk + 1 \in 0..Chunks
      BY <2>2 DEF PulseTypeOK, PulseStates
    <3>2. pulse' \in PulseStates
      BY <2>2, <3>1 DEF PulseTypeOK, PulseStates
    <3>3. QED
      BY <2>1, <2>2, <3>2 DEF PulseTypeOK, Waiting
  <2>3. ASSUME Return([NoVerdict EXCEPT !.accepted = TRUE, !.sent = TRUE])
        PROVE  PulseTypeOK' /\ Waiting'
    <3>1. [NoVerdict EXCEPT !.accepted = TRUE, !.sent = TRUE] \in Verdicts
      BY DEF NoVerdict, Verdicts
    <3>2. QED
      BY <2>1, <2>3, <3>1, Returned DEF PulseTypeOK
  <2>4. ASSUME pulse' = [pulse EXCEPT !.at = "failed"],
               UNCHANGED <<latch, generation, stopper, tracks, move, verdict, issued, moves, stops>>
        PROVE  PulseTypeOK' /\ Waiting'
    <3>1. pulse' \in PulseStates
      BY <2>4 DEF PulseTypeOK, PulseStates
    <3>2. QED
      BY <2>1, <2>4, <3>1 DEF PulseTypeOK, Waiting
  <2>5. ASSUME Return(NoVerdict)
        PROVE  PulseTypeOK' /\ Waiting'
    <3>1. NoVerdict \in Verdicts
      BY DEF NoVerdict, Verdicts
    <3>2. QED
      BY <2>1, <2>5, <3>1, Returned DEF PulseTypeOK
  <2>6. QED
    BY <1>11, <2>2, <2>3, <2>4, <2>5 DEF Preflight
<1>12. CASE ChunkDone \/ EmergencyStop \/ TrackingLost
  <2>1. pulse' \in PulseStates /\ tracks' \in BOOLEAN /\ pulse.at # "none"
    BY ZenonT(60), <1>12 DEF ChunkDone, EmergencyStop, TrackingLost, PulseTypeOK, PulseStates
  <2>2. UNCHANGED <<latch, generation, stopper, move, verdict, issued, since, moves, stops>>
    BY <1>12 DEF ChunkDone, EmergencyStop, TrackingLost
  <2>3. QED
    BY <2>1, <2>2 DEF PulseTypeOK, Waiting
<1>13. CASE UNCHANGED pulseVars
  BY <1>13 DEF pulseVars, PulseTypeOK, Waiting
<1>14. QED
  BY <1>1, <1>2, <1>3, <1>4, <1>5, <1>6, <1>7, <1>8, <1>9, <1>10, <1>11, <1>12, <1>13
  DEF PulseNext, PulseStep

\* Type correctness of the guide-pulse move (send_guide_pulse_move,
\* OnStepMountPulseAdapter.guide_pulse).
THEOREM PulseTypeCorrect == PulseSpec => []PulseTypeOK
<1>1. PulseTypeOK /\ Waiting /\ [PulseNext]_pulseVars => (PulseTypeOK /\ Waiting)'
  BY PulseTypeStep
<1>2. QED
  BY PulseTypeInit, <1>1, PTL DEF PulseSpec

-------------------------------------------------------------------------------
\* Every step keeps the verdict true of the tracking and of the Stop worker.
LEMMA VerdictStep ==
  ASSUME VerdictInv, [PulseNext]_pulseVars
  PROVE  (JoinedOrPressed /\ NoVerdictYet /\ VerdictTruthful)'
<1> USE DEF JoinedOrPressed, NoVerdictYet, VerdictTruthful, Alive
<1>0. PulseTypeOK /\ JoinedOrPressed /\ NoVerdictYet /\ VerdictTruthful
  BY DEF VerdictInv
\* A new worker is one pressed for.
<1>1. CASE Abort
  <2>1. since'.pressed /\ since'.overtaken = since.overtaken
    BY <1>1, <1>0 DEF Abort, PulseTypeOK
  <2>2. UNCHANGED <<tracks, pulse, verdict>>
    BY <1>1 DEF Abort
  <2>3. QED
    BY <1>0, <2>1, <2>2
\* TRACK_OFF arrives after the mount was asked; the worker is the one alive.
<1>2. CASE StopWorker
  <2>1. Alive /\ stopper'.id = stopper.id
    BY <1>2, <1>0 DEF StopWorker, SendOneStop, Confirmed, SecondStop, PassEnds, PulseTypeOK, Stoppers
  <2>2. since'.pressed = since.pressed /\ (since'.overtaken \/ UNCHANGED <<tracks, since>>)
    BY <1>2, <1>0 DEF StopWorker, SendOneStop, Confirmed, SecondStop, PulseTypeOK
  <2>3. UNCHANGED <<pulse, verdict>>
    BY <1>2 DEF StopWorker, SendOneStop, Confirmed, SecondStop
  <2>4. QED
    BY <1>0, <2>1, <2>2, <2>3
<1>3. CASE Begin
  BY <1>3, <1>0 DEF Begin, NoVerdict
<1>4. CASE TrackAgain \/ NextPulse
  BY <1>4, <1>0 DEF TrackAgain, NextPulse
\* The pulse finds the worker whose Stop it has to answer for.
<1>5. CASE Enter
  <2>1. ~verdict'.given /\ UNCHANGED stopper
    BY <1>5 DEF Enter, NoVerdict
  <2>2. pulse'.at = "joining" => pulse'.waits = stopper.id
    BY <1>5 DEF Enter, NoPulse
  <2>3. pulse'.at = "asking" => ~Alive
    BY <1>5 DEF Enter, NoPulse
  <2>4. QED
    BY <2>1, <2>2, <2>3
<1>6. CASE Joined
  <2>1. pulse'.at = "asking"
    BY <1>6, <1>0 DEF Joined, PulseTypeOK, PulseStates
  <2>2. QED
    BY <1>6, <1>0, <2>1 DEF Joined
<1>7. CASE JoinTimesOut
  BY <1>7, <1>0 DEF JoinTimesOut, Return, NoPulse, NoVerdict
\* Asked with nothing under way, or with a Stop pressed since.
<1>8. CASE AskAfterStop
  <2>1. PICK off \in {~tracks, TRUE} :
           Return([NoVerdict EXCEPT !.trackingOff = off, !.unsentByStop = TRUE])
    BY <1>8 DEF AskAfterStop, TrackingNote
  <2>2. verdict'.trackingOff = off /\ pulse'.at = "none" /\ UNCHANGED <<tracks, stopper>>
    BY <2>1 DEF Return, NoPulse, NoVerdict
  <2>3. Alive => since.pressed
    BY <1>8, <1>0 DEF AskAfterStop
  <2>4. since'.pressed = since.pressed
    BY <1>8, <1>0 DEF AskAfterStop, PulseTypeOK
  <2>5. QED
    BY <1>0, <2>2, <2>3, <2>4 DEF PulseTypeOK
<1>9. CASE AskAfterFailure
  <2>1. PICK off \in TrackingNote(pulse.marked) :
           Return([NoVerdict EXCEPT !.sent = TRUE, !.trackingOff = off])
    BY <1>9 DEF AskAfterFailure
  <2>2. verdict'.trackingOff = off /\ ~verdict'.unsentByStop /\ pulse'.at = "none"
        /\ UNCHANGED <<tracks, stopper>>
    BY <2>1 DEF Return, NoPulse, NoVerdict
  <2>3. off \/ tracks
    BY <2>1, <1>0 DEF TrackingNote, PulseTypeOK
  <2>4. QED
    BY <2>2, <2>3
<1>10. CASE Preflight
  <2>1. ~verdict.given /\ since'.pressed = since.pressed /\ UNCHANGED <<tracks, stopper>>
    BY <1>10, <1>0 DEF Preflight, Return, PulseTypeOK
  <2>2. CASE tracks /\ Return([NoVerdict EXCEPT !.accepted = TRUE, !.sent = TRUE])
    BY <2>1, <2>2 DEF Return, NoPulse, NoVerdict
  <2>3. CASE Return(NoVerdict)
    BY <2>1, <2>3 DEF Return, NoPulse, NoVerdict
  <2>4. CASE UNCHANGED verdict /\ pulse'.at \in {"chunk", "failed"}
    BY <2>1, <2>4
  <2>5. pulse'.at \in {"chunk", "failed"} \/ pulse' = NoPulse
    BY <1>10, <1>0 DEF Preflight, Return, PulseTypeOK, PulseStates
  <2>6. QED
    BY <1>10, <1>0, <2>2, <2>3, <2>4, <2>5 DEF Preflight, Return, PulseTypeOK, PulseStates
<1>11. CASE ChunkDone \/ EmergencyStop \/ TrackingLost
  <2>1. ~verdict.given /\ UNCHANGED <<verdict, stopper, since>>
    BY <1>11, <1>0 DEF ChunkDone, EmergencyStop, TrackingLost
  <2>2. pulse'.at \notin {"joining", "asking"}
    BY <1>11, <1>0 DEF ChunkDone, EmergencyStop, TrackingLost, PulseTypeOK, PulseStates
  <2>3. QED
    BY <2>1, <2>2
<1>12. CASE UNCHANGED pulseVars
  BY <1>12, <1>0 DEF pulseVars
<1>13. QED
  BY <1>1, <1>2, <1>3, <1>4, <1>5, <1>6, <1>7, <1>8, <1>9, <1>10, <1>11, <1>12
  DEF PulseNext, PulseStep

\* A guide pulse that does not say "tracking off" leaves a mount that tracks,
\* unless a Stop's TRACK_OFF arrived later; refused by a latched Stop, it has
\* answered for that one (_guide_result, _latched_stop_result).
THEOREM VerdictIsTruthful == PulseSpec => []VerdictTruthful
<1>1. PulseInit => VerdictInv
  BY PulseTypeInit DEF PulseInit, VerdictInv, JoinedOrPressed, NoVerdictYet, VerdictTruthful,
                       NoPulse, NoVerdict
<1>2. VerdictInv /\ [PulseNext]_pulseVars => VerdictInv'
  BY PulseTypeStep, VerdictStep DEF VerdictInv
<1>3. VerdictInv => VerdictTruthful
  BY DEF VerdictInv
<1>4. QED
  BY <1>1, <1>2, <1>3, PTL DEF PulseSpec

-------------------------------------------------------------------------------
\* The chunks of one more pulse.
LEMMA OneMore == ASSUME NEW n \in Nat PROVE (n + 1) * Chunks = n * Chunks + Chunks
BY GuidePulseAssumption DEF GuidePulseAssumption

\* done pulses, one more, and as much as a failed one may have added.
LEMMA Counted ==
  ASSUME PulseTypeOK
  PROVE  /\ move.done * Chunks \in Nat
         /\ (move.done + 1) * Chunks = move.done * Chunks + Chunks
         /\ (move.done + 0) * Chunks = move.done * Chunks
         /\ move.done \in Nat /\ move.partly \in {0, 1} /\ pulse.chunk \in 0..Chunks
         /\ issued \in Nat /\ Chunks \in Nat
<1> USE GuidePulseAssumption DEF GuidePulseAssumption
<1>1. move.done \in Nat /\ move.partly \in {0, 1}
  BY DEF PulseTypeOK, MoveStates
<1>2. pulse.chunk \in 0..Chunks /\ issued \in Nat /\ Chunks \in Nat
  BY DEF PulseTypeOK, PulseStates
<1>3. move.done * Chunks \in Nat
  BY <1>1, <1>2
<1>4. QED
  BY <1>1, <1>2, <1>3, OneMore

\* Every step keeps the count of the chunks.
LEMMA MovedStep ==
  ASSUME MovedInv, [PulseNext]_pulseVars
  PROVE  ChunksCounted'
<1> USE DEF ChunksCounted
<1>0. PulseTypeOK /\ Waiting /\ ChunksCounted
  BY DEF MovedInv
<1>1. CASE Abort \/ StopWorker \/ TrackAgain \/ TrackingLost
  <2>1. UNCHANGED <<move, pulse, issued>>
    BY <1>1 DEF Abort, StopWorker, SendOneStop, Confirmed, SecondStop, TrackAgain, TrackingLost
  <2>2. QED
    BY <1>0, <2>1
<1>2. CASE Begin
  <2>1. pulse.at = "none" /\ UNCHANGED pulse /\ issued' = 0
    BY <1>0, <1>2 DEF Begin, Waiting
  <2>2. move'.at = "between" /\ move'.done = 0 /\ move'.partly = 0
    BY <1>2 DEF Begin
  <2>3. 0 * Chunks = 0
    BY GuidePulseAssumption DEF GuidePulseAssumption
  <2>4. QED
    BY <1>0, <2>1, <2>2, <2>3
<1>3. CASE NextPulse
  <2>1. pulse.at = "none" /\ pulse.chunk = 0 /\ UNCHANGED <<pulse, issued>>
    BY <1>0, <1>3 DEF NextPulse, Waiting
  <2>2. move'.done = move.done /\ move'.partly = 0 /\ issued = move.done * Chunks + pulse.chunk
    BY <1>0, <1>3 DEF NextPulse, PulseTypeOK, MoveStates
  <2>3. QED
    BY <1>0, <2>1, <2>2, Counted
<1>4. CASE Enter \/ Joined \/ ChunkDone \/ EmergencyStop
  <2>1. pulse'.chunk = pulse.chunk /\ UNCHANGED <<move, issued>> /\ move.at = "asked"
    BY ZenonT(60), <1>0, <1>4 DEF Enter, Joined, ChunkDone, EmergencyStop, NoPulse, PulseTypeOK, PulseStates,
                      Waiting
  <2>2. pulse'.at \in {"joining", "asking"} => pulse'.chunk = 0
    BY ZenonT(60), <1>0, <1>4 DEF Enter, Joined, ChunkDone, EmergencyStop, NoPulse, PulseTypeOK, PulseStates
  <2>3. pulse'.at # "none"
    BY ZenonT(60), <1>0, <1>4 DEF Enter, Joined, ChunkDone, EmergencyStop, NoPulse, PulseTypeOK, PulseStates
  <2>4. QED
    BY <1>0, <2>1, <2>2, <2>3
\* What a pulse that returns makes of the move.
<1>5. ASSUME NEW v \in Verdicts, Return(v), pulse.at # "none",
             v.accepted => pulse.chunk = Chunks,
             ~v.accepted /\ ~v.sent => pulse.chunk = 0
      PROVE  ChunksCounted'
  <2>1. move.at = "asked" /\ move.partly = 0 /\ issued = move.done * Chunks + pulse.chunk
    BY <1>0, <1>5 DEF Waiting
  <2>2. issued' = issued /\ pulse'.at = "none" /\ pulse'.chunk = 0
    BY <1>5 DEF Return, NoPulse
  <2>3. CASE v.accepted
    <3>1. move'.at = "between" /\ move'.done = move.done + 1 /\ move'.partly = 0
      BY <1>0, <1>5, <2>1, <2>3 DEF Return, PulseTypeOK, MoveStates
    <3>2. QED
      BY <1>0, <1>5, <2>1, <2>2, <2>3, <3>1, Counted
  <2>4. CASE ~v.accepted /\ v.sent
    <3>1. move'.at = "over" /\ move'.done = move.done /\ move'.partly = 1
      BY <1>0, <1>5, <2>4 DEF Return, PulseTypeOK, MoveStates
    <3>2. QED
      BY <1>0, <2>1, <2>2, <3>1, Counted
  <2>5. CASE ~v.accepted /\ ~v.sent
    <3>1. move'.at = "over" /\ move'.done = move.done /\ move'.partly = 0
      BY <1>0, <1>5, <2>5 DEF Return, PulseTypeOK, MoveStates
    <3>2. QED
      BY <1>0, <1>5, <2>1, <2>2, <2>5, <3>1, Counted
  <2>6. QED
    BY <2>3, <2>4, <2>5
<1>6. CASE JoinTimesOut
  <2>1. pulse.at = "joining" /\ pulse.chunk = 0
    BY <1>0, <1>6 DEF JoinTimesOut
  <2> DEFINE v == [NoVerdict EXCEPT !.trackingOff = TRUE, !.unsentByStop = TRUE]
  <2>2. v \in Verdicts /\ ~v.accepted /\ ~v.sent
    BY DEF NoVerdict, Verdicts
  <2>3. QED
    BY <1>5, <1>6, <2>1, <2>2 DEF JoinTimesOut
<1>7. CASE AskAfterStop
  <2>1. PICK off \in {~tracks, TRUE} :
           Return([NoVerdict EXCEPT !.trackingOff = off, !.unsentByStop = TRUE])
    BY <1>7 DEF AskAfterStop, TrackingNote
  <2>2. pulse.at = "asking" /\ pulse.chunk = 0 /\ off \in BOOLEAN
    BY <1>0, <1>7, <2>1 DEF AskAfterStop, PulseTypeOK
  <2> DEFINE v == [NoVerdict EXCEPT !.trackingOff = off, !.unsentByStop = TRUE]
  <2>3. v \in Verdicts /\ ~v.accepted /\ ~v.sent
    BY <2>2 DEF NoVerdict, Verdicts
  <2>4. QED
    BY <1>5, <2>1, <2>2, <2>3
\* Sent and failed: at most the whole of one pulse more.
<1>8. CASE AskAfterFailure
  <2>1. PICK off \in TrackingNote(pulse.marked) :
           Return([NoVerdict EXCEPT !.sent = TRUE, !.trackingOff = off])
    BY <1>8 DEF AskAfterFailure
  <2>2. pulse.at = "reading" /\ off \in BOOLEAN
    BY <1>0, <1>8, <2>1 DEF AskAfterFailure, TrackingNote, PulseTypeOK
  <2> DEFINE v == [NoVerdict EXCEPT !.sent = TRUE, !.trackingOff = off]
  <2>3. v \in Verdicts /\ ~v.accepted /\ v.sent
    BY <2>2 DEF NoVerdict, Verdicts
  <2>4. QED
    BY <1>5, <2>1, <2>2, <2>3
<1>9. CASE Preflight
  <2>1. pulse.at = "preflight" /\ move.at = "asked"
    BY <1>0, <1>9 DEF Preflight, Waiting
  <2>2. ASSUME pulse' = [pulse EXCEPT !.at = "chunk", !.chunk = @ + 1], issued' = issued + 1,
               UNCHANGED move
        PROVE  ChunksCounted'
    <3>1. pulse'.at = "chunk" /\ pulse'.chunk = pulse.chunk + 1
      BY <1>0, <2>2 DEF PulseTypeOK, PulseStates
    <3>2. QED
      BY <1>0, <2>1, <2>2, <3>1, Counted
  <2>3. ASSUME pulse.chunk = Chunks,
               Return([NoVerdict EXCEPT !.accepted = TRUE, !.sent = TRUE])
        PROVE  ChunksCounted'
    <3> DEFINE v == [NoVerdict EXCEPT !.accepted = TRUE, !.sent = TRUE]
    <3>1. v \in Verdicts /\ v.accepted
      BY DEF NoVerdict, Verdicts
    <3>2. QED
      BY <1>5, <2>1, <2>3, <3>1
  <2>4. ASSUME pulse' = [pulse EXCEPT !.at = "failed"], UNCHANGED <<move, issued>>
        PROVE  ChunksCounted'
    <3>1. pulse'.at = "failed" /\ pulse'.chunk = pulse.chunk
      BY <1>0, <2>4 DEF PulseTypeOK, PulseStates
    <3>2. QED
      BY <1>0, <2>1, <2>4, <3>1
  <2>5. ASSUME pulse.chunk = 0, Return(NoVerdict)
        PROVE  ChunksCounted'
    <3>1. NoVerdict \in Verdicts /\ ~NoVerdict.accepted /\ ~NoVerdict.sent
      BY DEF NoVerdict, Verdicts
    <3>2. QED
      BY <1>5, <2>1, <2>5, <3>1
  <2>6. QED
    BY <1>9, <2>2, <2>3, <2>4, <2>5 DEF Preflight
<1>10. CASE UNCHANGED pulseVars
  BY <1>0, <1>10 DEF pulseVars
<1>11. QED
  BY <1>1, <1>2, <1>3, <1>4, <1>6, <1>7, <1>8, <1>9, <1>10 DEF PulseNext, PulseStep

\* The chunks that are counted are those the move reports.
LEMMA MovedFacts == MovedInv => MovedAsReported
<1> SUFFICES ASSUME MovedInv, pulse.at = "none"
             PROVE  issued \in (move.done * Chunks)..((move.done + move.partly) * Chunks)
  BY DEF MovedAsReported
<1>1. PulseTypeOK /\ ChunksCounted
  BY DEF MovedInv
<1>2. CASE move.at = "over"
  BY <1>1, <1>2 DEF ChunksCounted
<1>3. CASE move.at # "over"
  BY <1>1, <1>3, Counted DEF ChunksCounted
<1>4. QED
  BY <1>2, <1>3

\* The length a move reports, with the one pulse that was sent and failed,
\* brackets what reached the mount (send_guide_pulse_move).
THEOREM MovesAsReported == PulseSpec => []MovedAsReported
<1>1. PulseInit => MovedInv
  <2>1. 0 * Chunks = 0
    BY GuidePulseAssumption DEF GuidePulseAssumption
  <2>2. QED
    BY <2>1, PulseTypeInit DEF PulseInit, MovedInv, ChunksCounted, NoPulse
<1>2. MovedInv /\ [PulseNext]_pulseVars => MovedInv'
  BY PulseTypeStep, MovedStep DEF MovedInv
<1>3. QED
  BY <1>1, <1>2, MovedFacts, PTL DEF PulseSpec

-------------------------------------------------------------------------------
(* The shared connection. *)

\* No reading is under way when its shim is disconnected.
ReadingsInTime == ~LateReads

\* Whoever reads or operates is the one who holds the lock.
LockHeld ==
  \A t \in Workers : worker[t].at \in {"entered", "commanded", "reading"} => lock = {t}

\* A move on its way is marked.
MovesMarked ==
  \A t \in Workers : worker[t].at = "commanded" /\ worker[t].shim # "park"
                     => worker[t].shim \in driving

\* No reading is of a session that has ended.
ReadingsOwn == (\A s \in Shims : ~last[s].old) /\ (\A t \in Workers : ~worker[t].late)

-------------------------------------------------------------------------------
\* Types hold at first.
LEMMA ConnectionTypeInit == ConnectionInit => ConnectionTypeOK
  BY DEF ConnectionInit, ConnectionTypeOK, NotRead, Readings, Resting, Threads, Places, Shims, NoClient

\* And they hold step by step: a client that is opened has the next number,
\* one that is closed was opened.
LEMMA ConnectionTypeStep ==
  ASSUME ConnectionTypeOK, [ConnectionNext]_connectionVars
  PROVE  ConnectionTypeOK'
<1> USE DEF NoClient
<1> USE DEF ConnectionTypeOK
<1>0. 1 .. opened \subseteq 1 .. (opened + 1) /\ opened + 1 \in 1 .. (opened + 1)
  OBVIOUS
<1>1. ASSUME NEW s \in Shims, Connect(s) PROVE ConnectionTypeOK'
  <2>1. CASE client = NoClient
    <3>1. opened' = opened + 1 /\ client' = opened + 1 /\ closed' = closed
      BY <1>1, <2>1 DEF Connect
    <3>2. closed' \in SUBSET (1 .. opened') BY <1>0, <3>1
    <3>3. client' \in Nat /\ opened' \in Nat /\ client' <= opened' BY <3>1
    <3>4. UNCHANGED <<last, lock, driving, worker, flaws, operations>>
          /\ held' = held \cup {s}
      BY <1>1 DEF Connect
    <3> QED BY <3>2, <3>3, <3>4
  <2>2. CASE client # NoClient BY <1>1, <2>2 DEF Connect
  <2> QED BY <2>1, <2>2
<1>2. ASSUME NEW s \in Shims, ConnectFails(s) PROVE ConnectionTypeOK'
  <2>1. opened' = opened + 1 /\ closed' = closed \cup {opened + 1} /\ client' = client
    BY <1>2 DEF ConnectFails
  <2>2. closed' \in SUBSET (1 .. opened') BY <1>0, <2>1
  <2>3. client' \in Nat /\ opened' \in Nat /\ client' <= opened' BY <2>1
  <2>4. UNCHANGED <<users, held, last, lock, driving, worker, flaws, operations>>
    BY <1>2 DEF ConnectFails
  <2> QED BY <2>2, <2>3, <2>4
<1>3. ASSUME NEW s \in Shims, Disconnect(s) PROVE ConnectionTypeOK'
  <2>1. last' \in [Shims -> Readings] BY <1>3 DEF Disconnect, NotRead, Readings
  <2>2. worker' \in [Workers -> Threads] BY <1>3 DEF Disconnect, Threads
  <2>3. opened' = opened /\ client' \in {client, NoClient}
        /\ closed' \in {closed, closed \cup ({client} \ {NoClient})}
    BY <1>3 DEF Disconnect, Release
  <2>4. client # NoClient => client \in 1 .. opened OBVIOUS
  <2>5. client' \in Nat /\ client' <= opened' /\ closed' \in SUBSET (1 .. opened')
    BY <2>3, <2>4
  <2>6. held' = held \ {s} /\ UNCHANGED <<lock, driving, flaws, operations>>
    BY <1>3 DEF Disconnect
  <2> QED BY <2>1, <2>2, <2>3, <2>5, <2>6
<1>4. ASSUME NEW s \in Shims, NEW old \in BOOLEAN, TakeReading(s, old)
      PROVE  last' \in [Shims -> Readings] /\ flaws' \in SUBSET Flaws
  BY <1>4 DEF TakeReading, Answered, Readings
<1>5. ASSUME NEW s \in Shims, HeldOver(s)
      PROVE  last' \in [Shims -> Readings] /\ flaws' \in SUBSET Flaws
  BY <1>5 DEF HeldOver, Answered
<1>6. ASSUME NEW s \in Shims, Poll(s) PROVE ConnectionTypeOK'
  <2>1. last' \in [Shims -> Readings] /\ flaws' \in SUBSET Flaws
    <3>1. CASE TakeReading(s, FALSE) BY <1>4, <3>1
    <3>2. CASE HeldOver(s) BY <1>5, <3>2
    <3>3. CASE /\ last' = IF s = "focuser" THEN [last EXCEPT ![s] = NotRead] ELSE last
               /\ flaws' = {}
      BY <3>3 DEF NotRead, Readings
    <3> QED BY <1>6, <3>1, <3>2, <3>3 DEF Poll
  <2> QED BY <1>6, <2>1 DEF Poll, clientVars
<1>7. ASSUME NEW t \in Workers, NEW th \in Threads, worker' = [worker EXCEPT ![t] = th]
      PROVE  worker' \in [Workers -> Threads]
  BY <1>7
<1>8. Resting \in Threads BY DEF Resting, Threads, Places, Shims
<1>9. ASSUME NEW t \in Workers, NEW s \in Shims, Request(t, s) PROVE ConnectionTypeOK'
  <2>1. [Resting EXCEPT !.at = "queued", !.shim = s] \in Threads
    BY <1>8 DEF Threads, Places
  <2> QED BY <1>7, <1>9, <2>1 DEF Request, clientVars
<1>10. ASSUME NEW t \in Workers, Decide(t) PROVE ConnectionTypeOK'
  <2>1. [Resting EXCEPT !.at = "deciding"] \in Threads BY <1>8 DEF Threads, Places
  <2> QED BY <1>7, <1>10, <2>1 DEF Decide, clientVars
<1>11. ASSUME NEW t \in Workers, NEW p \in Places,
              worker' = [worker EXCEPT ![t].at = p]
       PROVE  worker' \in [Workers -> Threads]
  BY <1>11 DEF Threads
<1>12. ASSUME NEW t \in Workers, WorkerStep(t) PROVE ConnectionTypeOK'
  <2>0. "reading" \in Places /\ "entered" \in Places /\ "commanded" \in Places BY DEF Places
  <2>1. CASE EnterReading(t)
    <3>1. worker' \in [Workers -> Threads] BY <1>7, <1>8, <1>11, <2>0, <2>1 DEF EnterReading
    <3> QED BY <2>1, <3>1 DEF EnterReading, clientVars
  <2>2. CASE DecideOnHeldOver(t)
    <3>1. worker' \in [Workers -> Threads] BY <1>7, <1>8, <2>2 DEF DecideOnHeldOver
    <3>2. last' \in [Shims -> Readings] /\ flaws' \in SUBSET Flaws
      BY <1>5, <2>2 DEF DecideOnHeldOver, Shims
    <3> QED BY <2>2, <3>1, <3>2 DEF DecideOnHeldOver, clientVars
  <2>3. CASE ReadingEnds(t)
    <3>1. worker' \in [Workers -> Threads] BY <1>7, <1>8, <2>3 DEF ReadingEnds
    <3>2. worker[t].late \in BOOLEAN BY DEF Threads
    <3>3. last' \in [Shims -> Readings] /\ flaws' \in SUBSET Flaws
      BY <1>4, <2>3, <3>2 DEF ReadingEnds, Shims
    <3> QED BY <2>3, <3>1, <3>3 DEF ReadingEnds, clientVars
  <2>4. CASE EnterOperation(t)
    <3>1. worker' \in [Workers -> Threads] BY <1>7, <1>8, <1>11, <2>0, <2>4 DEF EnterOperation
    <3> QED BY <2>4, <3>1 DEF EnterOperation, clientVars
  <2>5. CASE Command(t)
    <3>1. worker' \in [Workers -> Threads] BY <1>11, <2>0, <2>5 DEF Command
    <3>2. driving' \in SUBSET Shims BY <2>5 DEF Command, Threads
    <3> QED BY <2>5, <3>1, <3>2 DEF Command, clientVars
  <2>6. CASE OperationEnds(t)
    <3>1. worker' \in [Workers -> Threads] BY <1>7, <1>8, <2>6 DEF OperationEnds
    <3> QED BY <2>6, <3>1 DEF OperationEnds, clientVars
  <2> QED BY <1>12, <2>1, <2>2, <2>3, <2>4, <2>5, <2>6 DEF WorkerStep
<1>13. CASE UNCHANGED connectionVars BY <1>13 DEF connectionVars
<1> QED BY <1>1, <1>2, <1>3, <1>6, <1>9, <1>10, <1>12, <1>13 DEF ConnectionNext

\* Hence they hold always.
LEMMA ConnectionTyped == ConnectionSpec => []ConnectionTypeOK
  BY ConnectionTypeInit, ConnectionTypeStep, PTL DEF ConnectionSpec

\* Every variable of the connection keeps its type (connection.py).
THEOREM ConnectionTypeCorrect == ConnectionSpec => []ConnectionTypeOK
  BY ConnectionTyped

-------------------------------------------------------------------------------
\* The shims that hold the connection can be counted.
LEMMA HeldIsFinite == ASSUME ConnectionTypeOK PROVE IsFiniteSet(held)
<1>1. IsFiniteSet(Shims)
  <2>1. Shims = (({} \cup {"pulse"}) \cup {"park"}) \cup {"focuser"} BY DEF Shims
  <2> QED BY <2>1, FS_EmptySet, FS_AddElement
<1> QED BY <1>1, FS_Subset DEF ConnectionTypeOK

\* At first nobody holds the connection, and no client is open.
LEMMA ClientSharedInit == ConnectionInit => ClientShared
<1>1. Cardinality({}) = 0 BY FS_EmptySet
<1> QED BY <1>1 DEF ConnectionInit, ClientShared, NoClient

\* Every connect, failed connect and disconnect keeps the count of the users.
LEMMA ClientSharedStep ==
  ASSUME ConnectionTypeOK, ClientShared, [ConnectionNext]_connectionVars
  PROVE  ClientShared'
<1>0. IsFiniteSet(held) BY HeldIsFinite
<1>1. ASSUME NEW s \in Shims, Connect(s) PROVE ClientShared'
  <2>1. users' = Cardinality(held')
    <3>1. Cardinality(held \cup {s}) = Cardinality(held) + 1
      BY <1>0, <1>1, FS_AddElement DEF Connect
    <3> QED BY <1>1, <3>1 DEF Connect, ClientShared
  <2>2. ((1 .. opened) \ closed)' = ({client} \ {NoClient})'
    BY <1>1 DEF Connect, ClientShared, ConnectionTypeOK, NoClient
  <2>3. client' # NoClient /\ held' # {}
    BY <1>1 DEF Connect, ConnectionTypeOK, NoClient
  <2> QED BY <2>1, <2>2, <2>3 DEF ClientShared
<1>2. ASSUME NEW s \in Shims, ConnectFails(s) PROVE ClientShared'
  BY <1>2 DEF ConnectFails, ClientShared, ConnectionTypeOK, NoClient
<1>3. ASSUME NEW s \in Shims, Disconnect(s) PROVE ClientShared'
  <2>1. users' = Cardinality(held')
    <3>1. Cardinality(held \ {s}) = Cardinality(held) - 1
      BY <1>0, <1>3, FS_RemoveElement DEF Disconnect
    <3> QED BY <1>3, <3>1 DEF Disconnect, Release, ClientShared
  <2>2. users' = 0 <=> held' = {}
    <3>1. IsFiniteSet(held') BY <1>0, <1>3, FS_RemoveElement DEF Disconnect
    <3> QED BY <2>1, <3>1, FS_EmptySet
  <2>3. client # NoClient BY <1>3 DEF Disconnect, ClientShared
  <2> QED BY <1>3, <2>1, <2>2, <2>3
          DEF Disconnect, Release, ClientShared, ConnectionTypeOK, NoClient
<1>4. ASSUME NEW s \in Shims, Poll(s) PROVE ClientShared'
  BY <1>4 DEF Poll, clientVars, ClientShared
<1>5. ASSUME NEW t \in Workers, NEW s \in Shims, Request(t, s) PROVE ClientShared'
  BY <1>5 DEF Request, clientVars, ClientShared
<1>6. ASSUME NEW t \in Workers, Decide(t) \/ WorkerStep(t) PROVE ClientShared'
  BY <1>6 DEF Decide, WorkerStep, EnterReading, DecideOnHeldOver, ReadingEnds, EnterOperation, Command,
              OperationEnds, clientVars, ClientShared
<1>7. CASE UNCHANGED connectionVars BY <1>7 DEF connectionVars, ClientShared
<1> QED BY <1>1, <1>2, <1>3, <1>4, <1>5, <1>6, <1>7 DEF ConnectionNext

\* One client is open, exactly while a shim holds it, whatever fails to open
\* and in whatever order the shims come and go (OnStepConnection).
THEOREM OneClient == ConnectionSpec => []ClientShared
<1>1. ConnectionTypeOK /\ ClientShared /\ [ConnectionNext]_connectionVars => ClientShared'
  BY ClientSharedStep
<1> QED BY <1>1, ClientSharedInit, ConnectionTyped, PTL DEF ConnectionSpec

-------------------------------------------------------------------------------
\* What the answers rest on.
AnswerInv == LockHeld /\ MovesMarked /\ ReadingsOwn /\ AnswersHonest

\* At first nobody reads or operates, and nothing was answered.
LEMMA AnswerInit == ConnectionInit => AnswerInv
  BY DEF ConnectionInit, AnswerInv, LockHeld, MovesMarked, ReadingsOwn, AnswersHonest, Resting,
         NotRead

\* The lock is held by whoever reads or operates, and a move on its way is
\* marked, after every step.
LEMMA LockStep ==
  ASSUME ConnectionTypeOK, LockHeld, MovesMarked, [ConnectionNext]_connectionVars
  PROVE  LockHeld' /\ MovesMarked'
<1> USE DEF LockHeld, MovesMarked, ConnectionTypeOK, Resting, Threads
<1>1. ASSUME NEW s \in Shims, Connect(s) \/ ConnectFails(s) \/ Poll(s)
      PROVE  LockHeld' /\ MovesMarked'
  BY <1>1 DEF Connect, ConnectFails, Poll
<1>2. ASSUME NEW s \in Shims, Disconnect(s) PROVE LockHeld' /\ MovesMarked'
  BY <1>2 DEF Disconnect
<1>3. ASSUME NEW t \in Workers, NEW s \in Shims, Request(t, s) PROVE LockHeld' /\ MovesMarked'
  BY <1>3 DEF Request
<1>4. ASSUME NEW t \in Workers, Decide(t) PROVE LockHeld' /\ MovesMarked'
  BY <1>4 DEF Decide
<1>5. ASSUME NEW t \in Workers, WorkerStep(t) PROVE LockHeld' /\ MovesMarked'
  <2>1. CASE EnterReading(t) BY <2>1 DEF EnterReading
  <2>2. CASE DecideOnHeldOver(t) BY <2>2 DEF DecideOnHeldOver
  <2>3. CASE ReadingEnds(t) BY <2>3 DEF ReadingEnds
  <2>4. CASE EnterOperation(t)
    <3>1. \A u \in Workers : worker[u].at \notin {"entered", "commanded", "reading"}
      BY <2>4 DEF EnterOperation
    <3>2. worker'[t].at \in {"entered", "idle"} /\ (worker'[t].at = "entered" => lock' = {t})
      BY <2>4 DEF EnterOperation
    <3>3. \A u \in Workers \ {t} : worker'[u] = worker[u] BY <2>4 DEF EnterOperation
    <3> QED BY <3>1, <3>2, <3>3
  <2>5. CASE Command(t)
    <3>1. worker[t].at = "entered" /\ lock' = lock BY <2>5 DEF Command
    <3>2. lock = {t} BY <3>1
    <3>3. \A u \in Workers \ {t} : worker'[u] = worker[u] /\ worker[u].at # "commanded"
      BY <2>5, <3>2 DEF Command
    <3>4. worker'[t].shim = worker[t].shim /\ worker[t].shim \in Shims BY <2>5 DEF Command
    <3>5. worker[t].shim # "park" => worker[t].shim \in driving' BY <2>5, <3>4 DEF Command
    <3>6. LockHeld' BY <2>5, <3>1, <3>2 DEF Command
    <3> QED BY <3>3, <3>4, <3>5, <3>6
  <2>6. CASE OperationEnds(t)
    <3>1. \A u \in Workers \ {t} : worker'[u] = worker[u] /\ worker[u].at # "commanded"
                                   /\ worker[u].at \notin {"entered", "reading"}
      BY <2>6 DEF OperationEnds
    <3>2. worker'[t].at = "idle" BY <2>6 DEF OperationEnds
    <3> QED BY <3>1, <3>2
  <2> QED BY <1>5, <2>1, <2>2, <2>3, <2>4, <2>5, <2>6 DEF WorkerStep
<1>6. CASE UNCHANGED connectionVars BY <1>6 DEF connectionVars
<1> QED BY <1>1, <1>2, <1>3, <1>4, <1>5, <1>6 DEF ConnectionNext

\* A reading that is waited for is never of a session that has ended.
LEMMA OwnStep ==
  ASSUME ReadingsInTime, ConnectionTypeOK, ReadingsOwn, [ConnectionNext]_connectionVars
  PROVE  ReadingsOwn'
<1> USE DEF ReadingsOwn, ConnectionTypeOK, Resting, NotRead, Readings, Threads
<1>0. ASSUME NEW s \in Shims, TakeReading(s, FALSE) PROVE \A r \in Shims : ~last'[r].old
  <2>1. PICK moving \in BOOLEAN :
          last' = [last EXCEPT ![s] = [known |-> TRUE, moves |-> moving, old |-> FALSE]]
    BY <1>0 DEF TakeReading
  <2> QED BY <2>1
<1>1. ASSUME NEW s \in Shims, Connect(s) \/ ConnectFails(s) PROVE ReadingsOwn'
  BY <1>1 DEF Connect, ConnectFails
<1>2. ASSUME NEW s \in Shims, Disconnect(s) PROVE ReadingsOwn'
  BY <1>2 DEF Disconnect, ReadingsInTime
<1>3. ASSUME NEW s \in Shims, Poll(s) PROVE ReadingsOwn'
  <2>1. CASE TakeReading(s, FALSE)
    <3>2. \A r \in Shims : ~last'[r].old BY <1>0, <2>1
    <3> QED BY <1>3, <3>2 DEF Poll
  <2>2. CASE ~TakeReading(s, FALSE)
    <3>1. last' = last \/ last' = [last EXCEPT ![s] = NotRead] BY <1>3, <2>2 DEF Poll, HeldOver
    <3>2. \A r \in Shims : ~last'[r].old BY <3>1
    <3> QED BY <1>3, <3>2 DEF Poll
  <2> QED BY <2>1, <2>2
<1>4. ASSUME NEW t \in Workers, NEW s \in Shims, Request(t, s) PROVE ReadingsOwn'
  BY <1>4 DEF Request
<1>5. ASSUME NEW t \in Workers, Decide(t) PROVE ReadingsOwn'
  BY <1>5 DEF Decide
<1>6. ASSUME NEW t \in Workers, WorkerStep(t) PROVE ReadingsOwn'
  <2>1. CASE EnterReading(t) BY <2>1 DEF EnterReading
  <2>2. CASE DecideOnHeldOver(t) BY <2>2 DEF DecideOnHeldOver, HeldOver
  <2>3. CASE ReadingEnds(t)
    <3>1. worker[t].late = FALSE OBVIOUS
    <3>2. \A r \in Shims : ~last'[r].old BY <1>0, <2>3, <3>1 DEF ReadingEnds, Shims
    <3> QED BY <2>3, <3>2 DEF ReadingEnds
  <2>4. CASE EnterOperation(t) \/ Command(t) \/ OperationEnds(t)
    BY <2>4 DEF EnterOperation, Command, OperationEnds
  <2> QED BY <1>6, <2>1, <2>2, <2>3, <2>4 DEF WorkerStep
<1>7. CASE UNCHANGED connectionVars BY <1>7 DEF connectionVars
<1> QED BY <1>1, <1>2, <1>3, <1>4, <1>5, <1>6, <1>7 DEF ConnectionNext

\* No answer is wrong that is given on such a state.
LEMMA AnswerStep ==
  ASSUME ConnectionTypeOK, LockHeld, MovesMarked, ReadingsOwn, AnswersHonest,
         [ConnectionNext]_connectionVars
  PROVE  AnswersHonest'
<1> USE DEF AnswersHonest
<1>1. ASSUME NEW s \in Shims, HeldOver(s) PROVE AnswersHonest'
  <2>1. Moves(s) => s \in driving BY DEF Moves, MovesMarked
  <2> QED BY <1>1, <2>1 DEF HeldOver, Answered, ReadingsOwn
<1>2. ASSUME NEW s \in Shims, NEW old \in BOOLEAN, ~old, ~MidOperation, TakeReading(s, old),
             s = "focuser" \/ s \in Shims
      PROVE  AnswersHonest'
  BY <1>2 DEF TakeReading, Answered
<1>3. ASSUME NEW s \in Shims, Poll(s) PROVE AnswersHonest'
  <2>1. lock = {} => ~MidOperation BY DEF LockHeld, MidOperation
  <2>2. CASE lock = {} BY <1>2, <1>3, <2>1, <2>2 DEF Poll
  <2>3. CASE lock # {} BY <1>1, <1>3, <2>3 DEF Poll
  <2> QED BY <2>2, <2>3
<1>4. ASSUME NEW t \in Workers, DecideOnHeldOver(t) PROVE AnswersHonest'
  BY <1>1, <1>4 DEF DecideOnHeldOver, Shims
<1>5. ASSUME NEW t \in Workers, ReadingEnds(t) PROVE AnswersHonest'
  <2>1. ~MidOperation BY <1>5 DEF ReadingEnds, LockHeld, MidOperation
  <2>2. worker[t].late \in BOOLEAN /\ ~worker[t].late
    BY DEF ReadingsOwn, ConnectionTypeOK, Threads
  <2> QED BY <1>2, <1>5, <2>1, <2>2 DEF ReadingEnds, Shims
<1>6. ASSUME UNCHANGED flaws PROVE AnswersHonest' BY <1>6
<1>7. ASSUME NEW s \in Shims, Connect(s) \/ ConnectFails(s) \/ Disconnect(s) PROVE UNCHANGED flaws
  BY <1>7 DEF Connect, ConnectFails, Disconnect
<1>8. ASSUME NEW t \in Workers, NEW s \in Shims, Request(t, s) PROVE UNCHANGED flaws
  BY <1>8 DEF Request
<1>9. ASSUME NEW t \in Workers,
             Decide(t) \/ EnterReading(t) \/ EnterOperation(t) \/ Command(t) \/ OperationEnds(t)
      PROVE  UNCHANGED flaws
  BY <1>9 DEF Decide, EnterReading, EnterOperation, Command, OperationEnds
<1>10. CASE UNCHANGED connectionVars BY <1>10 DEF connectionVars
<1> QED BY <1>3, <1>4, <1>5, <1>6, <1>7, <1>8, <1>9, <1>10 DEF ConnectionNext, WorkerStep

\* For any number of workers, when no shim is disconnected in the middle of a
\* worker's reading: no answer of a shim comes from the middle of an
\* operation, is at rest during the shim's own move, or is of a session before
\* (the shims' status(), decision_status()).
THEOREM HonestAnswers == ReadingsInTime => (ConnectionSpec => []AnswersHonest)
<1> SUFFICES ASSUME ReadingsInTime PROVE ConnectionSpec => []AnswersHonest
  OBVIOUS
<1>1. ConnectionTypeOK /\ AnswerInv /\ [ConnectionNext]_connectionVars => AnswerInv'
  BY LockStep, OwnStep, AnswerStep DEF AnswerInv
<1>2. AnswerInv => AnswersHonest BY DEF AnswerInv
<1> QED BY <1>1, <1>2, AnswerInit, ConnectionTyped, PTL DEF ConnectionSpec
===============================================================================
