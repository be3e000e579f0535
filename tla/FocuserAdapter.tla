--------------------------- MODULE FocuserAdapter ---------------------------
(***************************************************************************)
(* The focuser shim (packages/astrotool_core/onstep/focuser_adapter.py):   *)
(* moves that own operation_lock for as long as OnStepAdapter blocks, and  *)
(* a Stop that never takes it -- it refuses what is not sent yet and hands *)
(* OnStepAdapter's concurrent stop to a worker, which stops again while a  *)
(* covered move is still in flight, at most MaxStopPasses times.           *)
(*                                                                         *)
(* The difference to the RA/Dec shim: no latch (a move requested later is  *)
(* not refused), and OnStepAdapter's stop sets a cancel flag which a move  *)
(* CLEARS on entry, so that a stop can be lost on a move just being sent.  *)
(*                                                                         *)
(* The GUI thread presses Stop, connects and disconnects, and waits in     *)
(* disconnect() for a stop still being delivered.                          *)
(***************************************************************************)
EXTENDS Integers

CONSTANTS
  Mover,          \* threads that move the focuser (jog worker, autofocus worker)
  Worker,         \* identities of the stop-worker threads that may be started
  MaxGen,         \* bound: moves requested in one behaviour
  MaxClient,      \* bound: clients opened in one behaviour
  MaxStopPasses,  \* _MAX_STOP_PASSES
  SlowPasses,     \* stop confirmations a move may still be on its way to OnStepAdapter
  LateStops,      \* whether a stop may outlast disconnect()'s wait for it
  NoWorker        \* _stop_worker is None

ASSUME BoundsAssumption ==
  MaxGen \in Nat /\ MaxClient \in Nat /\ MaxStopPasses \in Nat /\ SlowPasses \in Nat
ASSUME LateStopsAssumption == LateStops \in BOOLEAN
ASSUME NoWorkerAssumption == NoWorker \notin Worker
ASSUME LockNamesAssumption == Mover \cap {"free", "other"} = {}

\* "Each waits up to OnStepAdapter's 5 s confirmation, which gives the move time to get past
\* :84": the last stop of a pass sequence is sent after the move was seen past it.
ASSUME PassesAssumption == SlowPasses + 2 <= MaxStopPasses

NoStop == -1
NoClient == 0
AtRest == 0

VARIABLES
  client, opened,     \* OnStepConnection.client (numbered), clients opened so far
  held, otherHeld,    \* _held; another shim holds the connection
  lock,               \* owner of operation_lock
  gui,                \* the GUI thread: free, or waiting in _wait_for_stop_delivery
  waited,             \* stop passes that ended during that wait
  moveGeneration, stoppedThrough, inFlight, pendingStop, stopWorker,   \* guarded by _state
  workerPc, workerFocuser, workerCovered, workerPass,    \* each stop worker's locals
  moverPc, moverGen, moverFocuser,                       \* each mover's locals
  slow,               \* confirmations since the move being sent passed its last check
  cancelRequested,    \* OnStepAdapter's IndiFocuser._cancel_requested of the live client
  device              \* the generation the focuser is moving for

connVars   == <<client, opened, held, otherHeld>>
guiVars    == <<gui, waited>>
stopVars   == <<stoppedThrough, pendingStop, stopWorker>>
workerVars == <<workerPc, workerFocuser, workerCovered, workerPass>>
moverVars  == <<moverPc, moverGen, moverFocuser>>
driverVars == <<slow, cancelRequested, device>>
vars == <<connVars, lock, guiVars, moveGeneration, inFlight, stopVars, workerVars,
          moverVars, driverVars>>

Generation == 1 .. MaxGen
Client     == 1 .. MaxClient

\* Types of the attributes and of the callers' and the worker's places (focuser_adapter.py).
TypeOK ==
  /\ client \in {NoClient} \cup Client /\ opened \in 0 .. MaxClient
  /\ held \in BOOLEAN /\ otherHeld \in BOOLEAN
  /\ lock \in Mover \cup {"free", "other"}
  /\ gui \in {"free", "waiting"} /\ waited \in 0 .. MaxStopPasses
  /\ moveGeneration \in 0 .. MaxGen
  /\ stoppedThrough \in 0 .. MaxGen
  /\ inFlight \in {AtRest} \cup Generation
  /\ pendingStop \in {NoStop} \cup (0 .. MaxGen)
  /\ stopWorker \in Worker \cup {NoWorker}
  /\ workerPc \in [Worker -> {"none", "take", "send", "confirm"}]
  /\ workerFocuser \in [Worker -> {NoClient} \cup Client]
  /\ workerCovered \in [Worker -> 0 .. MaxGen]
  /\ workerPass \in [Worker -> 1 .. MaxStopPasses]
  /\ moverPc \in [Mover -> {"idle", "queued", "reading", "sending", "armed", "polling",
                            "ending"}]
  /\ moverGen \in [Mover -> 0 .. MaxGen]
  /\ moverFocuser \in [Mover -> {NoClient} \cup Client]
  /\ slow \in 0 .. SlowPasses
  /\ cancelRequested \in BOOLEAN
  /\ device \in {AtRest} \cup Generation

Init ==
  /\ client = NoClient /\ opened = 0 /\ held = FALSE /\ otherHeld = FALSE
  /\ lock = "free" /\ gui = "free" /\ waited = 0
  /\ moveGeneration = 0 /\ stoppedThrough = 0 /\ inFlight = AtRest
  /\ pendingStop = NoStop /\ stopWorker = NoWorker
  /\ workerPc = [w \in Worker |-> "none"]
  /\ workerFocuser = [w \in Worker |-> NoClient]
  /\ workerCovered = [w \in Worker |-> 0]
  /\ workerPass = [w \in Worker |-> 1]
  /\ moverPc = [m \in Mover |-> "idle"]
  /\ moverGen = [m \in Mover |-> 0]
  /\ moverFocuser = [m \in Mover |-> NoClient]
  /\ slow = 0 /\ cancelRequested = FALSE /\ device = AtRest

-----------------------------------------------------------------------------
(* The shared connection.                                                    *)

\* A new client starts with a focuser whose cancel flag is down.
Acquire ==
  \/ client # NoClient /\ UNCHANGED <<client, opened, cancelRequested>>
  \/ /\ client = NoClient /\ opened < MaxClient
     /\ opened' = opened + 1 /\ client' = opened + 1 /\ cancelRequested' = FALSE

Connect ==
  /\ gui = "free" /\ ~held /\ Acquire /\ held' = TRUE
  /\ UNCHANGED <<otherHeld, lock, guiVars, moveGeneration, inFlight, stopVars, workerVars,
                 moverVars, slow, device>>

OtherConnect ==
  /\ gui = "free" /\ ~otherHeld /\ Acquire /\ otherHeld' = TRUE
  /\ UNCHANGED <<held, lock, guiVars, moveGeneration, inFlight, stopVars, workerVars,
                 moverVars, slow, device>>

OtherDisconnect ==
  /\ gui = "free" /\ otherHeld /\ otherHeld' = FALSE
  /\ client' = IF held THEN client ELSE NoClient
  /\ UNCHANGED <<opened, held, lock, guiVars, moveGeneration, inFlight, stopVars, workerVars,
                 moverVars, driverVars>>

OtherEnter ==
  /\ lock = "free" /\ client # NoClient /\ lock' = "other"
  /\ UNCHANGED <<connVars, guiVars, moveGeneration, inFlight, stopVars, workerVars, moverVars,
                 driverVars>>

OtherLeave ==
  /\ lock = "other" /\ lock' = "free"
  /\ UNCHANGED <<connVars, guiVars, moveGeneration, inFlight, stopVars, workerVars, moverVars,
                 driverVars>>

\* The release that ends disconnect(): the last holder closes the client.
Release ==
  /\ held' = FALSE
  /\ client' = IF otherHeld THEN client ELSE NoClient
  /\ gui' = "free" /\ waited' = 0
  /\ UNCHANGED <<opened, otherHeld, lock, moveGeneration, inFlight, stopVars, workerVars,
                 moverVars, driverVars>>

\* disconnect() waits for the stop worker of that moment, if there is one.
Disconnect ==
  /\ gui = "free" /\ held
  /\ IF stopWorker = NoWorker
       THEN Release
       ELSE /\ gui' = "waiting" /\ waited' = 0
            /\ UNCHANGED <<connVars, lock, moveGeneration, inFlight, stopVars, workerVars,
                           moverVars, driverVars>>

\* The joined worker has ended. (Nobody starts another: the GUI thread waits.)
JoinEnds == gui = "waiting" /\ (\A w \in Worker : workerPc[w] = "none") /\ Release

\* MUTANT (of WaitExpires): the wait covers one confirmation, not every pass's.
WaitExpiresEarly ==
  /\ LateStops /\ gui = "waiting"
  /\ waited >= 1 /\ \A w \in Worker : workerPc[w] \notin {"take", "send"}
  /\ Release

\* _STOP_DELIVERY_WAIT_S has passed: all passes of a request, 5 s each, and a margin in
\* which the worker takes up and sends the next.
WaitExpires ==
  /\ LateStops /\ gui = "waiting"
  /\ waited = MaxStopPasses /\ \A w \in Worker : workerPc[w] \notin {"take", "send"}
  /\ Release

-----------------------------------------------------------------------------
(* move_absolute / move.                                                     *)

\* The call and its locals end.
CallEnds(m) ==
  /\ moverPc' = [moverPc EXCEPT ![m] = "idle"]
  /\ moverGen' = [moverGen EXCEPT ![m] = 0]
  /\ moverFocuser' = [moverFocuser EXCEPT ![m] = NoClient]

\* Numbered when requested, before it may queue for the connection.
Request(m) ==
  /\ moverPc[m] = "idle" /\ moveGeneration < MaxGen
  /\ moveGeneration' = moveGeneration + 1
  /\ moverGen' = [moverGen EXCEPT ![m] = moveGeneration + 1]
  /\ moverPc' = [moverPc EXCEPT ![m] = "queued"]
  /\ UNCHANGED <<connVars, lock, guiVars, inFlight, stopVars, workerVars, moverFocuser,
                 driverVars>>

\* The connection is ours and no Stop covers the move: it is in flight.
Enter(m) ==
  /\ moverPc[m] = "queued" /\ lock = "free" /\ held /\ client # NoClient
  /\ moverGen[m] > stoppedThrough
  /\ lock' = m /\ inFlight' = moverGen[m]
  /\ moverFocuser' = [moverFocuser EXCEPT ![m] = client]
  /\ moverPc' = [moverPc EXCEPT ![m] = "reading"]
  /\ UNCHANGED <<connVars, guiVars, moveGeneration, stopVars, workerVars, moverGen, driverVars>>

\* Not connected any more, or covered by a Stop: returned unsent.
EnterRefused(m) ==
  /\ moverPc[m] = "queued" /\ lock = "free"
  /\ ~held \/ client = NoClient \/ moverGen[m] <= stoppedThrough
  /\ CallEnds(m)
  /\ UNCHANGED <<connVars, lock, guiVars, moveGeneration, inFlight, stopVars, workerVars,
                 driverVars>>

\* The position is read; a Stop since then refuses the move, else it goes to OnStepAdapter.
Recheck(m) ==
  /\ moverPc[m] = "reading"
  /\ IF moverGen[m] <= stoppedThrough
       THEN moverPc' = [moverPc EXCEPT ![m] = "ending"] /\ slow' = slow
       ELSE moverPc' = [moverPc EXCEPT ![m] = "sending"] /\ slow' = 0
  /\ UNCHANGED <<connVars, lock, guiVars, moveGeneration, inFlight, stopVars, workerVars,
                 moverGen, moverFocuser, cancelRequested, device>>

\* A reading or the move itself raises, or OnStepAdapter refuses it before it is sent
\* (always when its client is closed).
Refused(m) ==
  /\ moverPc[m] \in {"reading", "sending", "armed"}
  /\ moverPc' = [moverPc EXCEPT ![m] = "ending"]
  /\ UNCHANGED <<connVars, lock, guiVars, moveGeneration, inFlight, stopVars, workerVars,
                 moverGen, moverFocuser, driverVars>>

\* IndiFocuser.move_absolute clears the cancel flag on entry ...
ClearCancel(m) ==
  /\ moverPc[m] = "sending" /\ moverFocuser[m] = client
  /\ cancelRequested' = FALSE
  /\ moverPc' = [moverPc EXCEPT ![m] = "armed"]
  /\ UNCHANGED <<connVars, lock, guiVars, moveGeneration, inFlight, stopVars, workerVars,
                 moverGen, moverFocuser, slow, device>>

\* ... sends the target ...
SendTarget(m) ==
  /\ moverPc[m] = "armed" /\ moverFocuser[m] = client /\ device = AtRest
  /\ device' = moverGen[m]
  /\ moverPc' = [moverPc EXCEPT ![m] = "polling"]
  /\ UNCHANGED <<connVars, lock, guiVars, moveGeneration, inFlight, stopVars, workerVars,
                 moverGen, moverFocuser, slow, cancelRequested>>

\* ... and polls: the flag is seen on every pass; it stops the focuser and refuses.
SeesCancel(m) ==
  /\ moverPc[m] = "polling" /\ moverFocuser[m] = client /\ cancelRequested
  /\ device' = AtRest
  /\ moverPc' = [moverPc EXCEPT ![m] = "ending"]
  /\ UNCHANGED <<connVars, lock, guiVars, moveGeneration, inFlight, stopVars, workerVars,
                 moverGen, moverFocuser, slow, cancelRequested>>

\* The target is confirmed, or its 30 s pass and OnStepAdapter stops the focuser itself.
Arrive(m) ==
  /\ moverPc[m] = "polling" /\ moverFocuser[m] = client
  /\ device' = AtRest
  /\ moverPc' = [moverPc EXCEPT ![m] = "ending"]
  /\ UNCHANGED <<connVars, lock, guiVars, moveGeneration, inFlight, stopVars, workerVars,
                 moverGen, moverFocuser, slow, cancelRequested>>

\* The client was closed under the move: the poll raises and the focuser runs on.
ConnectionLost(m) ==
  /\ moverPc[m] = "polling" /\ moverFocuser[m] # client
  /\ moverPc' = [moverPc EXCEPT ![m] = "ending"]
  /\ UNCHANGED <<connVars, lock, guiVars, moveGeneration, inFlight, stopVars, workerVars,
                 moverGen, moverFocuser, driverVars>>

OrphanArrives ==
  /\ device # AtRest
  /\ \A m \in Mover : ~(moverPc[m] = "polling" /\ moverFocuser[m] = client)
  /\ device' = AtRest
  /\ UNCHANGED <<connVars, lock, guiVars, moveGeneration, inFlight, stopVars, workerVars,
                 moverVars, slow, cancelRequested>>

\* finally: out of flight, the lock released.
LeaveMove(m) ==
  /\ moverPc[m] = "ending"
  /\ inFlight' = AtRest /\ lock' = "free" /\ slow' = 0
  /\ CallEnds(m)
  /\ UNCHANGED <<connVars, guiVars, moveGeneration, stopVars, workerVars, cancelRequested,
                 device>>

-----------------------------------------------------------------------------
(* Stop. The panel presses it only while connected.                          *)

StartWorker(w) ==
  /\ workerPc[w] = "none"
  /\ stopWorker' = w
  /\ workerPc' = [workerPc EXCEPT ![w] = "take"]
  /\ workerFocuser' = [workerFocuser EXCEPT ![w] = client]
  /\ UNCHANGED <<workerCovered, workerPass>>

\* MUTANT (of Stop): every Stop starts a worker.
StopAlwaysStarts ==
  /\ gui = "free" /\ held /\ client # NoClient
  /\ stoppedThrough' = moveGeneration /\ pendingStop' = moveGeneration
  /\ \E w \in Worker : StartWorker(w)
  /\ UNCHANGED <<connVars, lock, guiVars, moveGeneration, inFlight, moverVars, driverVars>>

Stop ==
  /\ gui = "free" /\ held /\ client # NoClient
  /\ stoppedThrough' = moveGeneration /\ pendingStop' = moveGeneration
  /\ IF stopWorker # NoWorker
       THEN UNCHANGED <<stopWorker, workerVars>>
       ELSE \E w \in Worker : StartWorker(w)
  /\ UNCHANGED <<connVars, lock, guiVars, moveGeneration, inFlight, moverVars, driverVars>>

WorkerTake(w) ==
  /\ workerPc[w] = "take" /\ pendingStop # NoStop
  /\ workerCovered' = [workerCovered EXCEPT ![w] = pendingStop]
  /\ pendingStop' = NoStop
  /\ workerPass' = [workerPass EXCEPT ![w] = 1]
  /\ workerPc' = [workerPc EXCEPT ![w] = "send"]
  /\ UNCHANGED <<connVars, lock, guiVars, moveGeneration, inFlight, stoppedThrough,
                 stopWorker, workerFocuser, moverVars, driverVars>>

\* The thread and its locals end.
ThreadEnds(w) ==
  /\ workerPc' = [workerPc EXCEPT ![w] = "none"]
  /\ workerFocuser' = [workerFocuser EXCEPT ![w] = NoClient]
  /\ workerCovered' = [workerCovered EXCEPT ![w] = 0]
  /\ workerPass' = [workerPass EXCEPT ![w] = 1]

\* MUTANT (of WorkerExit): the worker exits without looking for a newer request.
WorkerExitUnchecked(w) ==
  /\ workerPc[w] = "take"
  /\ stopWorker' = NoWorker /\ ThreadEnds(w)
  /\ UNCHANGED <<connVars, lock, guiVars, moveGeneration, inFlight, stoppedThrough,
                 pendingStop, moverVars, driverVars>>

WorkerExit(w) ==
  /\ workerPc[w] = "take" /\ pendingStop = NoStop
  /\ stopWorker' = NoWorker /\ ThreadEnds(w)
  /\ UNCHANGED <<connVars, lock, guiVars, moveGeneration, inFlight, stoppedThrough,
                 pendingStop, moverVars, driverVars>>

\* IndiFocuser.stop(): the flag first, then ABORT. (It raises when its client is closed.)
SendStop(w) ==
  /\ workerPc[w] = "send"
  /\ IF workerFocuser[w] = client
       THEN cancelRequested' = TRUE /\ device' = AtRest
       ELSE UNCHANGED <<cancelRequested, device>>
  /\ workerPc' = [workerPc EXCEPT ![w] = "confirm"]
  /\ UNCHANGED <<connVars, lock, guiVars, moveGeneration, inFlight, stopVars, workerFocuser,
                 workerCovered, workerPass, moverVars, slow>>

\* The stop is confirmed or its 5 s ran out. A move that had passed its last check has
\* reached OnStepAdapter after SlowPasses of them.
ConfirmWaitOver ==
  IF \E m \in Mover : moverPc[m] = "sending"
    THEN slow < SlowPasses /\ slow' = slow + 1
    ELSE slow' = slow

\* The worker goes on: the next pass while a covered move is in flight and passes are left.
Confirm(w, nextPc) ==
  /\ workerPc[w] = "confirm" /\ ConfirmWaitOver
  /\ workerPc' = [workerPc EXCEPT ![w] = nextPc]
  /\ workerPass' = IF nextPc = "send" THEN [workerPass EXCEPT ![w] = @ + 1] ELSE workerPass
  /\ waited' = IF gui = "waiting" /\ waited < MaxStopPasses THEN waited + 1 ELSE waited
  /\ UNCHANGED <<connVars, lock, gui, moveGeneration, inFlight, stopVars, workerFocuser,
                 workerCovered, moverVars, cancelRequested, device>>

CoveredInFlight(w) == inFlight # AtRest /\ inFlight <= workerCovered[w]

\* MUTANT (of WorkerConfirm): one pass short.
WorkerConfirmOneShort(w) ==
  Confirm(w, IF CoveredInFlight(w) /\ workerPass[w] < MaxStopPasses - 1 THEN "send" ELSE "take")

\* MUTANT (of WorkerConfirm): the passes are not counted.
WorkerConfirmEndless(w) == Confirm(w, IF CoveredInFlight(w) THEN "send" ELSE "take")

WorkerConfirm(w) ==
  Confirm(w, IF CoveredInFlight(w) /\ workerPass[w] < MaxStopPasses THEN "send" ELSE "take")

-----------------------------------------------------------------------------
InDriver(m) ==
  Recheck(m) \/ Refused(m) \/ ClearCancel(m) \/ SendTarget(m) \/ SeesCancel(m)
    \/ ConnectionLost(m) \/ LeaveMove(m)
WorkerStep(w) == WorkerTake(w) \/ WorkerExit(w) \/ SendStop(w) \/ WorkerConfirm(w)

Next ==
  \/ Connect \/ Disconnect \/ JoinEnds \/ WaitExpires
  \/ OtherConnect \/ OtherDisconnect \/ OtherEnter \/ OtherLeave
  \/ \E m \in Mover : Request(m) \/ Enter(m) \/ EnterRefused(m) \/ InDriver(m) \/ Arrive(m)
  \/ OrphanArrives
  \/ Stop
  \/ \E w \in Worker : WorkerStep(w)

Spec == Init /\ [][Next]_vars

\* Threads that run are scheduled, and a waiting GUI thread notices the end of its wait. No
\* move is obliged to arrive or to time out: what ends, a Stop ended.
Fairness ==
  /\ WF_vars(JoinEnds)
  /\ \A w \in Worker : WF_vars(WorkerStep(w))
  /\ \A m \in Mover : WF_vars(InDriver(m))

FairSpec == Spec /\ Fairness

-----------------------------------------------------------------------------
(* Safety.                                                                   *)

\* At most one stop worker exists, the one _stop_worker names: disconnect() joins it and a
\* Stop meanwhile only queues a request.
SingleWorker == \A w \in Worker : workerPc[w] # "none" <=> stopWorker = w

\* A stop that is still to be sent covers generation g.
StopOutstanding(g) ==
  \/ pendingStop >= g
  \/ \E w \in Worker :
       /\ workerCovered[w] >= g
       /\ \/ workerPc[w] = "send"
          \/ workerPc[w] = "confirm" /\ workerPass[w] < MaxStopPasses

\* A Stop is never lost on a move: one it covers and that OnStepAdapter is carrying out finds
\* its cancel flag up or has a stop still coming -- also when OnStepAdapter cleared the flag
\* of the first stop on entry.
StopNotLost ==
  \A m \in Mover :
    (moverPc[m] \in {"armed", "polling"} /\ moverFocuser[m] = client
       /\ moverGen[m] <= stoppedThrough)
      => cancelRequested \/ StopOutstanding(moverGen[m])

\* The abort has reached the controller before the client may be closed: disconnect() never
\* lets go of the connection with a Stop requested and not sent once, although its wait is
\* bounded and a second Stop may be queued behind the first one's passes.
StopSentBeforeRelease ==
  [][held /\ ~held' =>
       /\ pendingStop = NoStop
       /\ \A w \in Worker : ~(workerPc[w] = "send" /\ workerPass[w] = 1)]_vars

\* A move requested after the Stop runs normally: only a move a Stop covers is cancelled.
LaterMoveRuns == [][\A m \in Mover : SeesCancel(m) => moverGen[m] <= stoppedThrough]_vars

(* Liveness.                                                                 *)

\* Every Stop is served: a request queued while the worker is busy, also one it meets on its
\* way out, is taken up; and it ends the move it was pressed for, by the stop alone, unless the
\* move's client is closed.
StopServed ==
  /\ pendingStop # NoStop ~> pendingStop = NoStop
  /\ \A m \in Mover :
       (moverPc[m] \in {"armed", "polling"} /\ moverGen[m] <= stoppedThrough)
         ~> moverPc[m] \notin {"armed", "polling"}
=============================================================================
