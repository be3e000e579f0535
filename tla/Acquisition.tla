----------------------------- MODULE Acquisition -----------------------------
(***************************************************************************)
(* What a frame proves after a motion: a camera's capture loop             *)
(* (stream_controller.py, touptek_adapter.py), its mailbox, and a worker   *)
(* that waits for a frame exposed after the motion                         *)
(* (stable_frame_acquisition.py, through camera_panel.wait_for_frame_after)*)
(* either with a budget that follows the exposure                          *)
(* (fresh_frame_after_motion.py) or for a window of frames that stand      *)
(* still (motion_aware_acquisition.py). Meanwhile the operator changes the *)
(* exposure and restarts the stream.                                       *)
(*                                                                         *)
(* Time is discrete; a worker that has something to look at does so before *)
(* time passes.                                                            *)
(***************************************************************************)
EXTENDS Integers, Sequences

CONSTANTS
  Exposures,   \* exposure times, in ticks
  Floor, Margin, Cap, Slice,  \* FreshFrameBudget: floor, margin, max_timeout, slice
  Settle,      \* settle time after a motion
  Timeout,     \* timeout of the verified wait
  Samples,     \* stability_sample_count
  RingLength,  \* frames the mailbox keeps
  MaxBegin,    \* bound: when the wait begins, at the latest
  MaxTime      \* bound: the clock

VARIABLES
  now,       \* the clock
  exposure,  \* the camera's exposure setting
  stream,    \* [on, ring, seq] the running stream and its mailbox
  capture,   \* the capture thread: [at, read, start, real]
  waiter     \* the worker's wait

acqVars == <<now, exposure, stream, capture, waiter>>

NotCapturing == [at |-> "idle", read |-> 0, start |-> 0, real |-> 0]
Newly == [on |-> TRUE, ring |-> <<>>, seq |-> 0]
NoWaiter == [kind |-> "fresh", at |-> "idle", ended |-> 0, reference |-> 0, anchor |-> 0,
             deadline |-> 0, timeout |-> 0, known |-> 0, cursor |-> 0, overlapped |-> FALSE,
             samples |-> <<>>, status |-> "none", judged |-> FALSE, longest |-> 0]

MaxOf(a, b) == IF a > b THEN a ELSE b
MinOf(a, b) == IF a < b THEN a ELSE b

-----------------------------------------------------------------------------
(* The camera.                                                               *)

AInit ==
  /\ now = 0 /\ exposure \in Exposures
  /\ stream = Newly /\ capture = NotCapturing
  /\ waiter = NoWaiter

\* The operator or auto exposure changes the exposure.
SetExposure ==
  /\ \E e \in Exposures \ {exposure} : exposure' = e
  /\ UNCHANGED <<now, stream, capture, waiter>>

\* The adapter reads the exposure that it will put in the frame.
CaptureReads ==
  /\ stream.on /\ capture.at = "idle"
  /\ capture' = [capture EXCEPT !.at = "read", !.read = exposure]
  /\ UNCHANGED <<now, exposure, stream, waiter>>

\* The software trigger: the exposure starts, with the setting of this moment.
CaptureTriggers ==
  /\ capture.at = "read"
  /\ capture' = [capture EXCEPT !.at = "exposing", !.start = now, !.real = exposure]
  /\ UNCHANGED <<now, exposure, stream, waiter>>

\* MUTANT (of CapturedAt): the time at which the frame was delivered.
CapturedOnDelivery(c) == now

\* The end of the exposure at the latest, not the end of the readout.
CapturedAt(c) == MinOf(now, c.start + c.read)

\* The frame is read out, at any time after its exposure; the mailbox keeps the newest ones.
CaptureDelivers ==
  /\ capture.at = "exposing" /\ now >= capture.start + capture.real
  /\ capture' = NotCapturing
  /\ LET frame == [seq |-> stream.seq + 1, captured |-> CapturedAt(capture),
                   exp |-> capture.read, start |-> capture.start]
         ring == Append(stream.ring, frame)
     IN  stream' = [stream EXCEPT !.seq = @ + 1,
                      !.ring = IF Len(ring) > RingLength THEN Tail(ring) ELSE ring]
  /\ UNCHANGED <<now, exposure, waiter>>

\* The stream is stopped (or its thread died); the capture under way is aborted.
StreamStops ==
  /\ stream.on /\ stream' = [stream EXCEPT !.on = FALSE, !.ring = <<>>]
  /\ capture' = NotCapturing
  /\ UNCHANGED <<now, exposure, waiter>>

\* Another stream: a mailbox of its own, counted from one.
StreamStarts ==
  /\ ~stream.on /\ stream' = Newly
  /\ UNCHANGED <<now, exposure, capture, waiter>>

-----------------------------------------------------------------------------
(* The waiting worker.                                                       *)

\* Twice the longest exposure known and a margin, between the floor and the cap.
Budget(e) == IF e = 0 THEN MinOf(Floor, Cap) ELSE MinOf(MaxOf(Floor, 2 * e + Margin), Cap)

\* A motion ended at some time before; a fresh frame is asked for, with the exposure the caller
\* knows of (its settings', the last frame's) or with none. The wait is counted from the later of now and the reference.
BeginFresh ==
  /\ waiter.at = "idle" /\ now <= MaxBegin
  /\ \E ended \in {now} \cup {MaxOf(0, now - 1)}, hint \in Exposures \cup {0} :
       waiter' = [NoWaiter EXCEPT !.at = "outer", !.ended = ended + Settle,
                    !.reference = ended + Settle, !.anchor = MaxOf(now, ended + Settle),
                    !.known = hint, !.timeout = Budget(hint), !.status = "timeout"]
  /\ UNCHANGED <<now, exposure, stream, capture>>

\* A window of frames is asked for, each taken after the one before.
BeginVerified ==
  /\ waiter.at = "idle" /\ now <= MaxBegin
  /\ waiter' = [NoWaiter EXCEPT !.kind = "verified", !.at = "outer", !.ended = now,
                  !.reference = now, !.anchor = now, !.timeout = Timeout]
  /\ UNCHANGED <<now, exposure, stream, capture>>

Finish(status) == waiter' = [waiter EXCEPT !.at = "done", !.status = status]

\* The outer loop: cancelled, out of time, without a camera, or one more look at the mailbox:
\* of a slice in a fresh wait, of all the time that is left in a verified one.
WaiterCalls ==
  /\ waiter.at = "outer"
  /\ LET left == waiter.anchor + waiter.timeout - now
     IN  \/ Finish("cancelled")
         \/ left <= 0 /\ Finish(IF waiter.kind = "fresh" THEN waiter.status
                                ELSE IF waiter.judged THEN "not_stable" ELSE "timeout")
         \/ left > 0 /\ ~stream.on /\ Finish("unavailable")
         \/ /\ left > 0 /\ stream.on
            /\ waiter' = [waiter EXCEPT !.at = "inner", !.cursor = 0, !.overlapped = FALSE,
                            !.deadline = now + (IF waiter.kind = "fresh" THEN MinOf(left, Slice)
                                                ELSE left)]
  /\ UNCHANGED <<now, exposure, stream, capture>>

\* The frames of the mailbox this look has not seen yet.
Unseen == {k \in DOMAIN stream.ring : stream.ring[k].seq > waiter.cursor}
Oldest == CHOOSE k \in Unseen : \A j \in Unseen : k <= j

\* Its exposure began after the reference.
Proves(frame) == frame.captured - frame.exp >= waiter.reference

\* A frame that overlaps the motion is passed over, its exposure remembered.
WaiterRejects ==
  /\ waiter.at = "inner" /\ now < waiter.deadline /\ Unseen # {}
  /\ LET frame == stream.ring[Oldest]
     IN  /\ ~Proves(frame)
         /\ waiter' = [waiter EXCEPT !.cursor = frame.seq, !.overlapped = TRUE,
                         !.longest = MaxOf(@, frame.exp)]
  /\ UNCHANGED <<now, exposure, stream, capture>>

\* The window of the newest frames.
Sampled(frame) == Append(waiter.samples, [start |-> frame.start, taken |-> now])
Window(samples) == IF Len(samples) > Samples THEN Tail(samples) ELSE samples

\* The frame is taken: a fresh wait ends with it; a verified one ends when the window stands
\* still, and otherwise pauses before the next.
WaiterAccepts ==
  /\ waiter.at = "inner" /\ now < waiter.deadline /\ Unseen # {}
  /\ LET frame == stream.ring[Oldest]
         samples == Window(Sampled(frame))
     IN  /\ Proves(frame)
         /\ IF waiter.kind = "fresh"
            THEN waiter' = [waiter EXCEPT !.at = "done", !.status = "ok", !.samples = samples]
            ELSE \/ /\ Len(samples) = Samples
                    /\ waiter' = [waiter EXCEPT !.at = "done", !.status = "ok",
                                                !.samples = samples]
                 \/ waiter' = [waiter EXCEPT !.at = "pause", !.samples = samples,
                                 !.judged = @ \/ Len(samples) = Samples]
  /\ UNCHANGED <<now, exposure, stream, capture>>

\* After the sample interval the next frame has to be newer than now.
WaiterPauses ==
  /\ waiter.at = "pause" /\ waiter' = [waiter EXCEPT !.at = "outer", !.reference = now]
  /\ UNCHANGED <<now, exposure, stream, capture>>

\* The look ends without a frame: its time is up, or the stream is gone. A fresh wait learns
\* from the frames it passed over; a verified one ends.
WaiterMisses ==
  /\ waiter.at = "inner" /\ (now >= waiter.deadline \/ ~stream.on)
  /\ LET status == IF waiter.overlapped THEN "overlapped" ELSE "timeout"
         known == MaxOf(waiter.known, waiter.longest)
     IN  IF waiter.kind = "verified" THEN Finish("invalid")
         ELSE waiter' = [waiter EXCEPT !.at = "outer", !.known = known,
                !.status = IF @ = "overlapped" THEN @ ELSE status,
                !.timeout = IF known > waiter.known THEN MaxOf(@, Budget(known)) ELSE @]
  /\ UNCHANGED <<now, exposure, stream, capture>>

\* Time passes while the worker has nothing to do (or pauses, for no longer than a tick).
Tick ==
  /\ now < MaxTime /\ now' = now + 1
  /\ \/ waiter.at = "idle" /\ now < MaxBegin /\ waiter' = waiter
     \/ waiter.at = "pause" /\ waiter' = [waiter EXCEPT !.at = "outer", !.reference = now + 1]
     \/ /\ waiter.at = "inner" /\ now < waiter.deadline /\ stream.on /\ Unseen = {}
        /\ waiter' = waiter
  /\ UNCHANGED <<exposure, stream, capture>>

-----------------------------------------------------------------------------
\* One wait is followed to its end.
ANext ==
  waiter.at # "done" /\
  (\/ SetExposure \/ CaptureReads \/ CaptureTriggers \/ CaptureDelivers
   \/ StreamStops \/ StreamStarts \/ BeginFresh \/ BeginVerified
   \/ WaiterCalls \/ WaiterRejects \/ WaiterAccepts \/ WaiterPauses \/ WaiterMisses
   \/ Tick)

ASpec == AInit /\ [][ANext]_acqVars

-----------------------------------------------------------------------------
(* Properties.                                                               *)

\* Types; the mailbox keeps at most its length of frames (FrameMailbox), and no stream, no capture.
ATypeOK ==
  /\ now \in 0 .. MaxTime /\ exposure \in Exposures
  /\ capture.at \in {"idle", "read", "exposing"}
  /\ Len(stream.ring) <= RingLength /\ (~stream.on => capture = NotCapturing)
  /\ waiter.at \in {"idle", "outer", "inner", "pause", "done"}
  /\ waiter.status \in {"none", "timeout", "overlapped", "ok", "cancelled", "unavailable",
                        "not_stable", "invalid"}

\* A frame taken as evidence began to be exposed, by the camera, after the motion had ended and
\* settled, whatever the exposure was changed to meanwhile and whichever stream it came from;
\* of a verified window each frame began after the one before it was taken.
EvidenceFresh ==
  LET s == waiter.samples
  IN  /\ \A k \in DOMAIN s : s[k].start >= waiter.ended
      /\ \A k \in 1 .. Len(s) - 1 : s[k + 1].start >= s[k].taken

\* A wait is bounded, and a fresh wait patient: it does not give up on exposures it has seen
\* before twice their length and the margin are over (or the cap is), nor go on after the cap.
WaitBounded ==
  /\ waiter.at \in {"outer", "inner"} =>
       now <= waiter.anchor + (IF waiter.kind = "fresh" THEN Cap ELSE Timeout + 1)
  /\ waiter.kind = "fresh" /\ waiter.at = "done" /\ waiter.status \in {"timeout", "overlapped"} =>
       now >= waiter.anchor + MinOf(Cap, MaxOf(Floor, IF waiter.longest = 0 THEN 0
                                                      ELSE 2 * waiter.longest + Margin))
=============================================================================
