------------------------------ MODULE GuidePulse ------------------------------
(***************************************************************************)
(* A Mount Align guide-pulse move (send_guide_pulse_move) and what it is   *)
(* told by the RA/Dec shim (OnStepMountPulseAdapter.guide_pulse): whether  *)
(* each pulse was sent, and whether the mount still tracks after a Stop or *)
(* a failure. OnStepAdapter's own chunks are external: a safety preflight  *)
(* before and after each, an emergency stop when a failure follows an      *)
(* issued one. Lengths are counted in chunks; how a length is split into   *)
(* pulses is AlignPositioning's.                                           *)
(***************************************************************************)
EXTENDS Integers

CONSTANTS
  Pulses,    \* guide pulses of one move
  Chunks,    \* OnStepAdapter's chunks of one pulse
  MaxMoves,  \* bound: moves begun
  MaxStops   \* bound: presses of Stop

ASSUME GuidePulseAssumption ==
  Pulses \in Nat \ {0} /\ Chunks \in Nat \ {0} /\ MaxMoves \in Nat /\ MaxStops \in Nat

VARIABLES
  latch,      \* the Stop latch (and the move's own cancel flag, set with it)
  generation, \* of the last pulse entered
  stopper,    \* the newest stop worker: its number and place, the pulse its pass covers, a request queued
  tracks,     \* the mount tracks
  move,       \* the Mount Align move: pulses completed, the length reported, its answer
  pulse,      \* the pulse under way: where it is, its chunks, what became of them
  verdict,    \* the GuidePulseResult the move was last given
  issued,     \* chunks of this move that reached the mount
  since,      \* history: Stops pressed / TRACK_OFF delivered since the pulse entered / last asked
  moves, stops

pulseVars == <<latch, generation, stopper, tracks, move, pulse, verdict, issued, since, moves, stops>>

-------------------------------------------------------------------------------
NoVerdict == [given |-> FALSE, accepted |-> FALSE, sent |-> FALSE, trackingOff |-> FALSE,
              unsentByStop |-> FALSE]
NoPulse == [at |-> "none", chunk |-> 0, marked |-> FALSE, waits |-> 0]
Alive == stopper.at # "none"

Stoppers == [id : Nat, at : {"none", "first", "confirming", "second"},
             covers : Nat, next : {-1} \cup Nat]
MoveStates == [at : {"none", "between", "asked", "over"}, done : 0..Pulses, partly : 0..1]
PulseStates ==
  [at : {"none", "joining", "asking", "preflight", "chunk", "failed", "reading"},
   chunk : 0..Chunks, marked : BOOLEAN, waits : Nat]
Verdicts == [given : BOOLEAN, accepted : BOOLEAN, sent : BOOLEAN, trackingOff : BOOLEAN,
             unsentByStop : BOOLEAN]

\* The state has the types of the attributes; a move never has more pulses
\* behind it than it has (send_guide_pulse_move).
PulseTypeOK ==
  /\ latch \in BOOLEAN /\ tracks \in BOOLEAN
  /\ stopper \in Stoppers /\ move \in MoveStates /\ pulse \in PulseStates
  /\ verdict \in Verdicts
  /\ since \in [pressed : BOOLEAN, overtaken : BOOLEAN]
  /\ generation \in Nat /\ issued \in Nat /\ moves \in Nat /\ stops \in Nat

-------------------------------------------------------------------------------
(* Stop and its worker *)

\* abort(): latched; a live worker takes the request after its pass.
Abort ==
  /\ stops < MaxStops /\ stops' = stops + 1
  /\ latch' = TRUE
  /\ since' = [since EXCEPT !.pressed = TRUE]
  /\ stopper' = IF Alive THEN [stopper EXCEPT !.next = generation]
                ELSE [id |-> stopper.id + 1, at |-> "first", covers |-> generation, next |-> -1]
  /\ UNCHANGED <<generation, tracks, move, pulse, verdict, issued, moves>>

\* The worker's emergency stop: ABORT + TRACK_OFF, or it raises.
SendOneStop(then) ==
  /\ stopper' = [stopper EXCEPT !.at = then]
  /\ \/ tracks' = FALSE /\ since' = [since EXCEPT !.overtaken = TRUE]
     \/ UNCHANGED <<tracks, since>>
  /\ UNCHANGED <<latch, generation, move, pulse, verdict, issued, moves, stops>>

\* No more passes: the next request, or the end of the worker.
PassEnds ==
  IF stopper.next = -1 THEN [stopper EXCEPT !.at = "none", !.covers = 0]
  ELSE [stopper EXCEPT !.at = "first", !.covers = stopper.next, !.next = -1]

\* Confirmed: once more while a covered pulse is in flight.
InFlight == pulse.at \in {"preflight", "chunk", "failed"}
Confirmed ==
  /\ stopper.at = "confirming"
  /\ stopper' = IF InFlight /\ generation <= stopper.covers
                THEN [stopper EXCEPT !.at = "second"] ELSE PassEnds
  /\ UNCHANGED <<latch, generation, tracks, move, pulse, verdict, issued, since, moves, stops>>

SecondStop ==
  /\ stopper.at = "second"
  /\ \/ tracks' = FALSE /\ since' = [since EXCEPT !.overtaken = TRUE]
     \/ UNCHANGED <<tracks, since>>
  /\ stopper' = PassEnds
  /\ UNCHANGED <<latch, generation, move, pulse, verdict, issued, moves, stops>>

StopWorker == (stopper.at = "first" /\ SendOneStop("confirming")) \/ Confirmed \/ SecondStop

-------------------------------------------------------------------------------
(* The move *)

\* The next operator command re-arms; the move begins on a fresh reading of a
\* mount that tracks (guide_pulse_refusal).
Begin ==
  /\ move.at \in {"none", "over"} /\ moves < MaxMoves /\ tracks
  /\ moves' = moves + 1
  /\ latch' = FALSE
  /\ move' = [at |-> "between", done |-> 0, partly |-> 0]
  /\ issued' = 0 /\ verdict' = NoVerdict
  /\ UNCHANGED <<generation, stopper, tracks, pulse, since, stops>>

\* Between two moves the tracking policy or the operator turns tracking on again.
TrackAgain ==
  /\ move.at = "over" /\ ~tracks /\ moves < MaxMoves
  /\ tracks' = TRUE
  /\ UNCHANGED <<latch, generation, stopper, move, pulse, verdict, issued, since, moves, stops>>

\* Stop is looked at before every pulse.
NextPulse ==
  /\ move.at = "between"
  /\ move' = [move EXCEPT !.at = IF latch \/ move.done = Pulses THEN "over" ELSE "asked"]
  /\ UNCHANGED <<latch, generation, stopper, tracks, pulse, verdict, issued, since, moves, stops>>

\* guide_pulse under operation_lock: refused unsent while a Stop is latched,
\* which waits for the worker of that Stop first.
Enter ==
  /\ move.at = "asked" /\ pulse.at = "none"
  /\ IF latch THEN /\ pulse' = [NoPulse EXCEPT !.at = IF Alive THEN "joining" ELSE "asking",
                                              !.waits = stopper.id]
                   /\ UNCHANGED generation
              ELSE /\ pulse' = [NoPulse EXCEPT !.at = "preflight"]
                   /\ generation' = generation + 1
  /\ verdict' = NoVerdict
  /\ since' = [pressed |-> FALSE, overtaken |-> FALSE]
  /\ UNCHANGED <<latch, stopper, tracks, move, issued, moves, stops>>

\* What guide_pulse returns, and what the move makes of it.
Return(v) ==
  /\ verdict' = [v EXCEPT !.given = TRUE]
  /\ pulse' = NoPulse
  /\ move' = IF v.accepted THEN [move EXCEPT !.at = "between", !.done = @ + 1]
             ELSE [move EXCEPT !.at = "over", !.partly = IF v.sent THEN 1 ELSE 0]
  /\ UNCHANGED <<latch, generation, stopper, tracks, issued, moves, stops>>

\* _latched_stop_result: the worker has ended, or 6 s have passed.
Joined ==
  /\ pulse.at = "joining" /\ ~(Alive /\ stopper.id = pulse.waits)
  /\ pulse' = [pulse EXCEPT !.at = "asking"]
  /\ UNCHANGED <<latch, generation, stopper, tracks, move, verdict, issued, since, moves, stops>>

JoinTimesOut ==
  /\ pulse.at = "joining" /\ Alive /\ stopper.id = pulse.waits
  /\ Return([NoVerdict EXCEPT !.trackingOff = TRUE, !.unsentByStop = TRUE])
  /\ UNCHANGED since

\* _tracking_note: an unreadable status, or an emergency stop of OnStepAdapter
\* that was not confirmed, counts as off.
TrackingNote(unconfirmed) == IF unconfirmed THEN {TRUE} ELSE {~tracks, TRUE}

AskAfterStop ==
  /\ pulse.at = "asking"
  /\ \E off \in TrackingNote(FALSE) :
       Return([NoVerdict EXCEPT !.trackingOff = off, !.unsentByStop = TRUE])
  /\ since' = [since EXCEPT !.overtaken = FALSE]

AskAfterFailure ==
  /\ pulse.at = "reading"
  /\ \E off \in TrackingNote(pulse.marked) :
       Return([NoVerdict EXCEPT !.sent = TRUE, !.trackingOff = off])
  /\ since' = [since EXCEPT !.overtaken = FALSE]

-------------------------------------------------------------------------------
(* OnStepAdapter's guide pulse *)

\* The preflight before a chunk, and after the last one: it refuses a mount
\* that does not track, or for a reason of its own.
Preflight ==
  /\ pulse.at = "preflight"
  /\ since' = [since EXCEPT !.overtaken = FALSE]
  /\ \/ /\ tracks /\ pulse.chunk < Chunks
        /\ pulse' = [pulse EXCEPT !.at = "chunk", !.chunk = @ + 1]
        /\ issued' = issued + 1
        /\ UNCHANGED <<latch, generation, stopper, tracks, move, verdict, moves, stops>>
     \/ /\ tracks /\ pulse.chunk = Chunks
        /\ Return([NoVerdict EXCEPT !.accepted = TRUE, !.sent = TRUE])
     \/ /\ pulse.chunk > 0
        /\ pulse' = [pulse EXCEPT !.at = "failed"]
        /\ UNCHANGED <<latch, generation, stopper, tracks, move, verdict, issued, moves, stops>>
     \/ /\ pulse.chunk = 0     \* refused or raised before anything was issued
        /\ Return(NoVerdict)

\* The wait after a chunk: the guide flag clears, or the wait expires.
ChunkDone ==
  /\ pulse.at = "chunk"
  /\ \E at \in {"preflight", "failed"} : pulse' = [pulse EXCEPT !.at = at]
  /\ UNCHANGED <<latch, generation, stopper, tracks, move, verdict, issued, since, moves, stops>>

\* OnStepAdapter's own emergency stop, which may raise: the error then says so.
EmergencyStop ==
  /\ pulse.at = "failed"
  /\ \/ tracks' = FALSE /\ pulse' = [pulse EXCEPT !.at = "reading"]
     \/ UNCHANGED tracks /\ pulse' = [pulse EXCEPT !.at = "reading", !.marked = TRUE]
  /\ UNCHANGED <<latch, generation, stopper, move, verdict, issued, since, moves, stops>>

\* The mount stops tracking by itself during a pulse (a limit).
TrackingLost ==
  /\ pulse.at = "chunk" /\ tracks
  /\ tracks' = FALSE
  /\ UNCHANGED <<latch, generation, stopper, move, pulse, verdict, issued, since, moves, stops>>

-------------------------------------------------------------------------------
PulseInit ==
  /\ latch = FALSE /\ generation = 0 /\ stopper = [id |-> 0, at |-> "none", covers |-> 0, next |-> -1] /\ tracks = TRUE
  /\ move = [at |-> "none", done |-> 0, partly |-> 0]
  /\ pulse = NoPulse /\ verdict = NoVerdict /\ issued = 0
  /\ since = [pressed |-> FALSE, overtaken |-> FALSE]
  /\ moves = 0 /\ stops = 0

PulseStep ==
  \/ NextPulse \/ Enter \/ Joined \/ JoinTimesOut \/ AskAfterStop \/ AskAfterFailure
  \/ Preflight \/ ChunkDone \/ EmergencyStop

PulseNext == Abort \/ StopWorker \/ Begin \/ TrackAgain \/ PulseStep \/ TrackingLost

\* The runner's worker and the stop worker run on; nobody has to press anything.
PulseFairness == WF_pulseVars(PulseStep) /\ WF_pulseVars(StopWorker)

-------------------------------------------------------------------------------
\* What a pulse says of the tracking is so: completed, or failed after it was
\* sent without "tracking off", it leaves a mount that tracks, unless a Stop's
\* TRACK_OFF arrived after the mount was asked; and refused by a latched Stop
\* it answers for that Stop, so only one pressed later can make it wrong
\* (guide_pulse, _guide_result, _latched_stop_result).
VerdictTruthful ==
  verdict.given /\ (verdict.sent \/ verdict.unsentByStop) /\ ~verdict.trackingOff /\ ~tracks
    => since.overtaken /\ (verdict.unsentByStop => since.pressed)

\* What the move reports as sent is what reached the mount: whole pulses, and
\* at most one that was sent and then failed (send_guide_pulse_move).
MovedAsReported ==
  pulse.at = "none" => issued \in (move.done * Chunks)..((move.done + move.partly) * Chunks)

\* A guide pulse holds operation_lock: it has to end, whatever a Stop's worker does.
HoldsTheLock == pulse.at # "none"

PulseSpec == PulseInit /\ [][PulseNext]_pulseVars /\ PulseFairness
\* Whatever Stops arrive, guide_pulse() returns and lets go of operation_lock
\* (_latched_stop_result bounds its wait).
PulseEnds == HoldsTheLock ~> ~HoldsTheLock
===============================================================================
