------------------------- MODULE MountPulseAdapter -------------------------
(***************************************************************************)
(* The RA/Dec motion shim of the OnStep mount                              *)
(* (packages/astrotool_core/onstep/mount_pulse_adapter.py): blocking GOTOs *)
(* and guide pulses that own operation_lock, the Stop latch, the move      *)
(* generations, and the stop worker that sends OnStep's emergency stop     *)
(* WITHOUT that lock.                                                      *)
(*                                                                         *)
(* Threads: any number of movers (the Mount Align worker, the              *)
(* reacquisition worker, ...), the threads that press Stop or re-arm (one  *)
(* atomic step each: both run under _state), the stop workers, and every   *)
(* other shim that takes operation_lock ("other": focuser, park, polls).   *)
(* The controller's one axis motion is `axis`, the generation of the move  *)
(* it is executing, 0 at rest.                                             *)
(***************************************************************************)
EXTENDS Integers

CONSTANTS
  Mover,      \* threads that call move_angular / guide_pulse
  Worker,     \* identities of the stop-worker threads that may be started
  MaxGen,     \* bound: moves issued in one behaviour
  MaxClient,  \* bound: clients opened (connection sessions) in one behaviour
  Faults,     \* which of FaultKinds the environment may show
  NoWorker    \* "no stop worker": Python's None

FaultKinds ==
  { "closeWhileMoving",    \* the last shim lets go of the connection during a move
    "closeWhileStopping",  \* ... or while a stop worker is still confirming
    "slowIssue",           \* a move past its cancel check sends its GOTO only after
                           \* a whole emergency stop has been sent and confirmed
    "rearmWhileMoving",    \* clear_abort() during a move's call (a claim in flight forbids
                           \* it: MountMotion; the shim itself does not look)
    "stopFails" }          \* an emergency stop raises before it reaches the mount

ASSUME BoundsAssumption == MaxGen \in Nat /\ MaxClient \in Nat
ASSUME FaultsAssumption == Faults \subseteq FaultKinds
ASSUME NoWorkerAssumption == NoWorker \notin Worker
ASSUME LockNamesAssumption == Mover \cap {"free", "other"} = {}

NoStop == -1          \* _pending_stop is None (0 is a real generation: "nothing moved yet")
NoClient == 0         \* OnStepConnection.client is None; clients are numbered 1, 2, ...
AtRest == 0           \* no generation: _in_flight_generation is None, the axis stands

VARIABLES
  client,             \* OnStepConnection.client: the live client's number, or NoClient
  opened,             \* clients opened so far
  held,               \* _held: this shim holds the connection
  otherHeld,          \* the park or focuser shim holds it
  lock,               \* owner of OnStepConnection.operation_lock
  cancel,             \* _cancel: the Stop latch
  moveGeneration,     \* _move_generation
  inFlight,           \* _in_flight_generation
  pendingStop,        \* _pending_stop
  stopWorker,         \* _stop_worker
  workerPc, workerMount, workerCovered,   \* each stop worker's locals
  moverPc, moverKind, moverMount,         \* each mover's locals
  axis                \* the generation the controller is moving for

connVars   == <<client, opened, held, otherHeld>>
stopVars   == <<pendingStop, stopWorker>>
workerVars == <<workerPc, workerMount, workerCovered>>
moverVars  == <<moverPc, moverKind, moverMount>>
vars == <<connVars, lock, cancel, moveGeneration, inFlight, stopVars, workerVars,
          moverVars, axis>>

Generation == 1 .. MaxGen
Client     == 1 .. MaxClient

\* Types of the attributes and of the callers' and the workers' places
\* (mount_pulse_adapter.py).
TypeOK ==
  /\ client \in {NoClient} \cup Client
  /\ opened \in 0 .. MaxClient
  /\ held \in BOOLEAN /\ otherHeld \in BOOLEAN
  /\ lock \in Mover \cup {"free", "other"}
  /\ cancel \in BOOLEAN
  /\ moveGeneration \in 0 .. MaxGen
  /\ inFlight \in {AtRest} \cup Generation
  /\ pendingStop \in {NoStop} \cup (0 .. MaxGen)
  /\ stopWorker \in Worker \cup {NoWorker}
  /\ workerPc \in [Worker -> {"none", "take", "send1", "confirm1", "send2", "confirm2"}]
  /\ workerMount \in [Worker -> {NoClient} \cup Client]
  /\ workerCovered \in [Worker -> 0 .. MaxGen]
  /\ moverPc \in [Mover -> {"idle", "queued", "entered", "moving", "joining", "ending"}]
  /\ moverKind \in [Mover -> {"goto", "guide"}]
  /\ moverMount \in [Mover -> {NoClient} \cup Client]
  /\ axis \in {AtRest} \cup Generation

Init ==
  /\ client = NoClient /\ opened = 0 /\ held = FALSE /\ otherHeld = FALSE
  /\ lock = "free"
  /\ cancel = FALSE /\ moveGeneration = 0 /\ inFlight = AtRest
  /\ pendingStop = NoStop /\ stopWorker = NoWorker
  /\ workerPc = [w \in Worker |-> "none"]
  /\ workerMount = [w \in Worker |-> NoClient]
  /\ workerCovered = [w \in Worker |-> 0]
  /\ moverPc = [m \in Mover |-> "idle"]
  /\ moverKind = [m \in Mover |-> "goto"]
  /\ moverMount = [m \in Mover |-> NoClient]
  /\ axis = AtRest

-----------------------------------------------------------------------------
(* The shared connection, as far as this shim sees it (its own module is     *)
(* OnStepConnection): opened by the first holder, closed by the last.        *)

Acquire ==
  \/ client # NoClient /\ UNCHANGED <<client, opened>>
  \/ client = NoClient /\ opened < MaxClient /\ opened' = opened + 1 /\ client' = opened + 1

\* The last holder closes the client. What else is going on is not looked at; the two
\* fault kinds say which of it the environment may actually interrupt.
MayClose ==
  /\ "closeWhileMoving" \in Faults \/ \A m \in Mover : moverPc[m] = "idle"
  /\ "closeWhileStopping" \in Faults \/ stopWorker = NoWorker

Connect ==
  /\ ~held /\ Acquire /\ held' = TRUE
  /\ UNCHANGED <<otherHeld, lock, cancel, moveGeneration, inFlight, stopVars, workerVars,
                 moverVars, axis>>

Disconnect ==
  /\ held /\ held' = FALSE
  /\ IF otherHeld THEN client' = client ELSE MayClose /\ client' = NoClient
  /\ UNCHANGED <<opened, otherHeld, lock, cancel, moveGeneration, inFlight, stopVars,
                 workerVars, moverVars, axis>>

OtherConnect ==
  /\ ~otherHeld /\ Acquire /\ otherHeld' = TRUE
  /\ UNCHANGED <<held, lock, cancel, moveGeneration, inFlight, stopVars, workerVars,
                 moverVars, axis>>

OtherDisconnect ==
  /\ otherHeld /\ otherHeld' = FALSE
  /\ IF held THEN client' = client ELSE MayClose /\ client' = NoClient
  /\ UNCHANGED <<opened, held, lock, cancel, moveGeneration, inFlight, stopVars,
                 workerVars, moverVars, axis>>

\* Another shim's operation (a focuser move, a park, a status poll) on the connection.
OtherEnter ==
  /\ lock = "free" /\ client # NoClient /\ lock' = "other"
  /\ UNCHANGED <<connVars, cancel, moveGeneration, inFlight, stopVars, workerVars,
                 moverVars, axis>>

OtherLeave ==
  /\ lock = "other" /\ lock' = "free"
  /\ UNCHANGED <<connVars, cancel, moveGeneration, inFlight, stopVars, workerVars,
                 moverVars, axis>>

-----------------------------------------------------------------------------
(* move_angular / guide_pulse.                                               *)

\* The call captures the mount BEFORE it queues for operation_lock. (Not connected, or a
\* size outside the range: refused here, nothing changes.)
Request(m, kind) ==
  /\ moverPc[m] = "idle" /\ held /\ client # NoClient
  /\ moverPc' = [moverPc EXCEPT ![m] = "queued"]
  /\ moverKind' = [moverKind EXCEPT ![m] = kind]
  /\ moverMount' = [moverMount EXCEPT ![m] = client]
  /\ UNCHANGED <<connVars, lock, cancel, moveGeneration, inFlight, stopVars, workerVars, axis>>

\* MUTANT (of EnterAccepted): the move forgets operation_lock.
EnterWithoutLock(m) ==
  /\ moverPc[m] = "queued" /\ ~cancel
  /\ moveGeneration < MaxGen
  /\ moveGeneration' = moveGeneration + 1
  /\ inFlight' = moveGeneration + 1
  /\ moverPc' = [moverPc EXCEPT ![m] = "entered"]
  /\ UNCHANGED <<connVars, lock, cancel, stopVars, workerVars, moverKind, moverMount, axis>>

\* The connection is ours, and the latch is down: the move gets its number and is in
\* flight, in one critical section of _state.
EnterAccepted(m) ==
  /\ moverPc[m] = "queued" /\ lock = "free" /\ ~cancel
  /\ moveGeneration < MaxGen
  /\ lock' = m
  /\ moveGeneration' = moveGeneration + 1
  /\ inFlight' = moveGeneration + 1
  /\ moverPc' = [moverPc EXCEPT ![m] = "entered"]
  /\ UNCHANGED <<connVars, cancel, stopVars, workerVars, moverKind, moverMount, axis>>

\* A Stop is latched: a GOTO returns unsent; a guide pulse keeps the lock while it waits
\* for the stop worker and reads whether the mount still tracks.
EnterRefused(m) ==
  /\ moverPc[m] = "queued" /\ lock = "free" /\ cancel
  /\ IF moverKind[m] = "goto"
       THEN /\ moverPc' = [moverPc EXCEPT ![m] = "idle"] /\ lock' = lock
       ELSE /\ moverPc' = [moverPc EXCEPT ![m] = "joining"] /\ lock' = m
  /\ UNCHANGED <<connVars, cancel, moveGeneration, inFlight, stopVars, workerVars,
                 moverKind, moverMount, axis>>

\* MUTANT (of JoinEnds): the refused pulse returns with the lock.
JoinEndsHolding(m) ==
  /\ moverPc[m] = "joining"
  /\ moverPc' = [moverPc EXCEPT ![m] = "idle"]
  /\ UNCHANGED <<connVars, lock, cancel, moveGeneration, inFlight, stopVars, workerVars,
                 moverKind, moverMount, axis>>

\* _latched_stop_result is over: the worker ended, or its 6 s ran out.
JoinEnds(m) ==
  /\ moverPc[m] = "joining" /\ lock' = "free"
  /\ moverPc' = [moverPc EXCEPT ![m] = "idle"]
  /\ UNCHANGED <<connVars, cancel, moveGeneration, inFlight, stopVars, workerVars,
                 moverKind, moverMount, axis>>

\* OnStepAdapter passes its preflight and commands the controller.
Issue(m) ==
  /\ moverPc[m] = "entered" /\ moverMount[m] = client /\ axis = AtRest
  /\ axis' = inFlight
  /\ moverPc' = [moverPc EXCEPT ![m] = "moving"]
  /\ UNCHANGED <<connVars, lock, cancel, moveGeneration, inFlight, stopVars, workerVars,
                 moverKind, moverMount>>

\* ... or refuses (tracking, parked, slewing, at a limit) or raises (client closed).
IssueRefused(m) ==
  /\ moverPc[m] = "entered"
  /\ moverPc' = [moverPc EXCEPT ![m] = "ending"]
  /\ UNCHANGED <<connVars, lock, cancel, moveGeneration, inFlight, stopVars, workerVars,
                 moverKind, moverMount, axis>>

Arrive(m) ==
  /\ moverPc[m] = "moving" /\ axis = inFlight
  /\ axis' = AtRest
  /\ moverPc' = [moverPc EXCEPT ![m] = "ending"]
  /\ UNCHANGED <<connVars, lock, cancel, moveGeneration, inFlight, stopVars, workerVars,
                 moverKind, moverMount>>

\* An emergency stop through client c: it reaches the controller only while c is the live
\* client, and may raise.
EmergencyStop(c) ==
  IF c = client
    THEN axis' = AtRest \/ ("stopFails" \in Faults /\ axis' = axis)
    ELSE axis' = axis

\* The move failed or its own deadline (<= 30 s) passed -- an aborted GOTO polls on to it:
\* OnStepAdapter stops the mount itself and the call raises.
Deadline(m) ==
  /\ moverPc[m] = "moving"
  /\ EmergencyStop(moverMount[m])
  /\ moverPc' = [moverPc EXCEPT ![m] = "ending"]
  /\ UNCHANGED <<connVars, lock, cancel, moveGeneration, inFlight, stopVars, workerVars,
                 moverKind, moverMount>>

\* finally: no longer in flight; the lock is released.
Finish(m) ==
  /\ moverPc[m] = "ending"
  /\ inFlight' = AtRest /\ lock' = "free"
  /\ moverPc' = [moverPc EXCEPT ![m] = "idle"]
  /\ UNCHANGED <<connVars, cancel, moveGeneration, stopVars, workerVars, moverKind,
                 moverMount, axis>>

\* A move whose call has already ended (its client was closed under it, or its own stop
\* failed) runs to its target unattended.
OrphanArrives ==
  /\ axis # AtRest /\ axis # inFlight /\ axis' = AtRest
  /\ UNCHANGED <<connVars, lock, cancel, moveGeneration, inFlight, stopVars, workerVars,
                 moverVars>>

-----------------------------------------------------------------------------
(* Stop.                                                                     *)

StartWorker(w) ==
  /\ workerPc[w] = "none"
  /\ stopWorker' = w
  /\ workerPc' = [workerPc EXCEPT ![w] = "take"]
  /\ workerMount' = [workerMount EXCEPT ![w] = client]
  /\ UNCHANGED workerCovered

\* MUTANT (of Abort): a Stop while the worker is busy is dropped.
AbortDroppedWhenBusy ==
  /\ cancel' = TRUE
  /\ IF client = NoClient \/ stopWorker # NoWorker
       THEN UNCHANGED <<stopVars, workerVars>>
       ELSE pendingStop' = moveGeneration /\ \E w \in Worker : StartWorker(w)
  /\ UNCHANGED <<connVars, lock, moveGeneration, inFlight, moverVars, axis>>

\* MUTANT (of Abort): every Stop starts a worker.
AbortAlwaysStarts ==
  /\ cancel' = TRUE /\ client # NoClient
  /\ pendingStop' = moveGeneration
  /\ \E w \in Worker : StartWorker(w)
  /\ UNCHANGED <<connVars, lock, moveGeneration, inFlight, moverVars, axis>>

\* Latch; with a live client, ask for a pass that covers every move numbered so far, and
\* start the worker -- with the client of this moment -- unless one is alive.
Abort ==
  /\ cancel' = TRUE
  /\ \/ client = NoClient /\ UNCHANGED <<stopVars, workerVars>>
     \/ /\ client # NoClient
        /\ pendingStop' = moveGeneration
        /\ IF stopWorker # NoWorker
             THEN UNCHANGED <<stopWorker, workerVars>>
             ELSE \E w \in Worker : StartWorker(w)
  /\ UNCHANGED <<connVars, lock, moveGeneration, inFlight, moverVars, axis>>

ClearAbort ==
  /\ "rearmWhileMoving" \in Faults \/ \A m \in Mover : moverPc[m] = "idle"
  /\ cancel' = FALSE
  /\ UNCHANGED <<connVars, lock, moveGeneration, inFlight, stopVars, workerVars, moverVars,
                 axis>>

\* MUTANT (of WorkerTake): the request is read without asking whether there is one.
WorkerTakeUnchecked(w) ==
  /\ workerPc[w] = "take"
  /\ workerCovered' = [workerCovered EXCEPT ![w] = pendingStop]
  /\ pendingStop' = NoStop
  /\ workerPc' = [workerPc EXCEPT ![w] = "send1"]
  /\ UNCHANGED <<connVars, lock, cancel, moveGeneration, inFlight, stopWorker, workerMount,
                 moverVars, axis>>

\* The worker takes the pending request, or exits (one critical section of _state).
WorkerTake(w) ==
  /\ workerPc[w] = "take" /\ pendingStop # NoStop
  /\ workerCovered' = [workerCovered EXCEPT ![w] = pendingStop]
  /\ pendingStop' = NoStop
  /\ workerPc' = [workerPc EXCEPT ![w] = "send1"]
  /\ UNCHANGED <<connVars, lock, cancel, moveGeneration, inFlight, stopWorker, workerMount,
                 moverVars, axis>>

\* MUTANT (of WorkerExit): the worker exits without looking for a newer request.
WorkerExitUnchecked(w) ==
  /\ workerPc[w] = "take"
  /\ stopWorker' = NoWorker
  /\ workerPc' = [workerPc EXCEPT ![w] = "none"]
  /\ UNCHANGED <<connVars, lock, cancel, moveGeneration, inFlight, pendingStop, workerMount,
                 workerCovered, moverVars, axis>>

WorkerExit(w) ==
  /\ workerPc[w] = "take" /\ pendingStop = NoStop
  /\ stopWorker' = NoWorker
  /\ workerPc' = [workerPc EXCEPT ![w] = "none"]
  /\ UNCHANGED <<connVars, lock, cancel, moveGeneration, inFlight, pendingStop, workerMount,
                 workerCovered, moverVars, axis>>

\* _send_one_stop: the first one of a pass, and the second.
WorkerSend(w) ==
  /\ \/ workerPc[w] = "send1" /\ workerPc' = [workerPc EXCEPT ![w] = "confirm1"]
     \/ workerPc[w] = "send2" /\ workerPc' = [workerPc EXCEPT ![w] = "confirm2"]
  /\ EmergencyStop(workerMount[w])
  /\ UNCHANGED <<connVars, lock, cancel, moveGeneration, inFlight, stopVars, workerMount,
                 workerCovered, moverVars>>

\* The stop is confirmed (or its 5 s ran out, or it raised). Unless "slowIssue", a move
\* that had passed its cancel check has sent its GOTO by then.
ConfirmWaitOver == "slowIssue" \in Faults \/ \A m \in Mover : moverPc[m] # "entered"

\* MUTANT (of WorkerConfirm): one emergency stop per pass, no second look.
WorkerConfirmOnce(w) ==
  /\ workerPc[w] \in {"confirm1", "confirm2"} /\ ConfirmWaitOver
  /\ workerPc' = [workerPc EXCEPT ![w] = "take"]
  /\ UNCHANGED <<connVars, lock, cancel, moveGeneration, inFlight, stopVars, workerMount,
                 workerCovered, moverVars, axis>>

\* After the first stop: a second one, only for a covered move still in flight.
WorkerConfirm(w) ==
  /\ workerPc[w] \in {"confirm1", "confirm2"} /\ ConfirmWaitOver
  /\ workerPc' = [workerPc EXCEPT ![w] =
                    IF /\ workerPc[w] = "confirm1"
                       /\ inFlight # AtRest /\ inFlight <= workerCovered[w]
                      THEN "send2" ELSE "take"]
  /\ UNCHANGED <<connVars, lock, cancel, moveGeneration, inFlight, stopVars, workerMount,
                 workerCovered, moverVars, axis>>

-----------------------------------------------------------------------------
InCall(m) == JoinEnds(m) \/ Issue(m) \/ IssueRefused(m) \/ Deadline(m) \/ Finish(m)
WorkerStep(w) == WorkerTake(w) \/ WorkerExit(w) \/ WorkerSend(w) \/ WorkerConfirm(w)

Next ==
  \/ Connect \/ Disconnect \/ OtherConnect \/ OtherDisconnect \/ OtherEnter \/ OtherLeave
  \/ \E m \in Mover :
       \/ \E kind \in {"goto", "guide"} : Request(m, kind)
       \/ EnterAccepted(m) \/ EnterRefused(m) \/ Arrive(m) \/ InCall(m)
  \/ OrphanArrives
  \/ Abort \/ ClearAbort
  \/ \E w \in Worker : WorkerStep(w)

Spec == Init /\ [][Next]_vars

\* Threads that are not blocked keep running and OnStepAdapter's calls are bounded; nobody
\* is obliged to press a button, and an axis is not obliged to arrive.
Fairness ==
  /\ \A w \in Worker : WF_vars(WorkerStep(w))
  /\ \A m \in Mover : WF_vars(InCall(m))
  /\ WF_vars(OtherLeave)

FairSpec == Spec /\ Fairness

\* Weaker: only the stop workers run on, and a move past its cancel check is issued or
\* refused. No move is obliged to end -- whatever stops, the Stop stopped.
StopFairSpec ==
  /\ Spec
  /\ \A w \in Worker : WF_vars(WorkerStep(w))
  /\ \A m \in Mover : WF_vars(Issue(m) \/ IssueRefused(m))

-----------------------------------------------------------------------------
(* Safety.                                                                   *)

\* At most one stop worker exists, and it is the one _stop_worker names: a Stop while it is
\* busy queues a pass and never starts a second thread (concurrent Stops included).
SingleWorker ==
  \A w \in Worker : workerPc[w] # "none" <=> stopWorker = w

\* One move owns the connection: whoever is past the cancel check holds operation_lock, and
\* _in_flight_generation is set exactly during that (so a pass's "is a covered move still in
\* flight" question is about the one move that can be moving).
OneMoveInFlight ==
  /\ \A m \in Mover : moverPc[m] \in {"entered", "moving", "ending", "joining"} => lock = m
  /\ inFlight # AtRest <=> \E m \in Mover : moverPc[m] \in {"entered", "moving", "ending"}

\* A stop that will still be sent covers generation g.
StopOutstanding(g) ==
  \/ pendingStop >= g
  \/ \E w \in Worker :
       workerPc[w] \in {"send1", "confirm1", "send2"} /\ workerCovered[w] >= g

\* A latched Stop is never lost on a moving mount: while the latch is up, an axis that moves
\* is one an emergency stop still to be sent covers -- also the GOTO that passed the cancel
\* check before the Stop and reached the controller after its first ABORT.
StopOwed == (cancel /\ axis # AtRest) => StopOutstanding(axis)

\* What moves is the move in flight, for as long as its call has not ended.
MovingIsInFlight == axis # AtRest => axis = inFlight

\* A stop of a pass that covers moves up to g leaves every later move alone: a GOTO started
\* after clear_abort(), the operator's next command, is never touched by an earlier Stop.
LaterMoveUntouched ==
  [][\A w \in Worker :
       (workerPc[w] \in {"send1", "send2"} /\ workerPc'[w] # workerPc[w]
          /\ axis > workerCovered[w]) => axis' = axis]_vars

(* Liveness.                                                                 *)

\* Every Stop is served: a requested pass is taken up, however often a stop raises.
StopServed == pendingStop # NoStop ~> pendingStop = NoStop

\* The interrupted call gives operation_lock back: no Stop, failure or closed client leaves
\* the connection locked.
LockReleased == \A m \in Mover : lock = m ~> lock # m

\* Stop ends the motion it was pressed for: with the latch up a moving axis comes to rest,
\* by the stop alone, unless the operator re-arms.
StopEndsMotion == (cancel /\ axis # AtRest) ~> (axis = AtRest \/ ~cancel)
=============================================================================
