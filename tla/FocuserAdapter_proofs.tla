------------------------- MODULE FocuserAdapter_proofs -------------------------
(***************************************************************************)
(* Proofs about FocuserAdapter, for any movers, workers, bounds and number *)
(* of passes: typing; one stop worker; every Stop is sent before the       *)
(* connection is let go; and, when no stop outlasts the wait of            *)
(* disconnect(), that a Stop is never lost on a move.                      *)
(***************************************************************************)
EXTENDS FocuserAdapter, TLAPS

-----------------------------------------------------------------------------
(* Typing.                                                                   *)

\* Every variable keeps its type: no pass beyond the last, no request that is None.
THEOREM TypeCorrect == Spec => []TypeOK
<1> USE BoundsAssumption, PassesAssumption DEF BoundsAssumption, PassesAssumption
<1>1. Init => TypeOK
  <2> SUFFICES ASSUME Init PROVE TypeOK
    OBVIOUS
  <2> USE DEF Init, NoStop, NoClient, AtRest, Generation, Client
  <2>1. /\ workerPc \in [Worker -> {"none", "take", "send", "confirm"}]
        /\ workerFocuser \in [Worker -> {NoClient} \cup Client]
        /\ workerCovered \in [Worker -> 0 .. MaxGen]
        /\ workerPass \in [Worker -> 1 .. MaxStopPasses]
    OBVIOUS
  <2>2. /\ moverPc \in [Mover -> {"idle", "queued", "reading", "sending", "armed", "polling",
                                  "ending"}]
        /\ moverGen \in [Mover -> 0 .. MaxGen]
        /\ moverFocuser \in [Mover -> {NoClient} \cup Client]
    OBVIOUS
  <2>3. held \in BOOLEAN /\ otherHeld \in BOOLEAN /\ cancelRequested \in BOOLEAN
    OBVIOUS
  <2>4. /\ client \in {NoClient} \cup Client /\ opened \in 0 .. MaxClient
        /\ waited \in 0 .. MaxStopPasses /\ slow \in 0 .. SlowPasses
        /\ moveGeneration \in 0 .. MaxGen /\ stoppedThrough \in 0 .. MaxGen
        /\ pendingStop \in {NoStop} \cup (0 .. MaxGen)
    OBVIOUS
  <2> QED
    BY <2>1, <2>2, <2>3, <2>4 DEF TypeOK
<1>2. TypeOK /\ [Next]_vars => TypeOK'
  <2> SUFFICES ASSUME TypeOK, [Next]_vars PROVE TypeOK'
    OBVIOUS
  <2> USE DEF TypeOK, connVars, guiVars, stopVars, workerVars, moverVars, driverVars, NoStop,
              NoClient, AtRest, Generation, Client
  <2>1. CASE Connect \/ OtherConnect \/ OtherDisconnect
    <3>1. client' \in {NoClient} \cup Client /\ opened' \in 0 .. MaxClient
      BY <2>1 DEF Connect, OtherConnect, OtherDisconnect, Acquire
    <3>2. held' \in BOOLEAN /\ otherHeld' \in BOOLEAN /\ cancelRequested' \in BOOLEAN
      BY <2>1 DEF Connect, OtherConnect, OtherDisconnect, Acquire
    <3>3. UNCHANGED <<lock, guiVars, moveGeneration, inFlight, stopVars, workerVars, moverVars,
                      slow, device>>
      BY <2>1 DEF Connect, OtherConnect, OtherDisconnect
    <3> QED
      BY <3>1, <3>2, <3>3
  <2>2. CASE Release
    <3>1. client' \in {NoClient} \cup Client /\ gui' \in {"free", "waiting"}
      BY <2>2 DEF Release
    <3>2. held' \in BOOLEAN
      BY <2>2, ZenonT(20) DEF Release
    <3>3. waited' \in 0 .. MaxStopPasses
      BY <2>2 DEF Release
    <3>4. UNCHANGED <<opened, otherHeld, lock, moveGeneration, inFlight, stopVars, workerVars,
                      moverVars, driverVars>>
      BY <2>2 DEF Release
    <3> QED
      BY <3>1, <3>2, <3>3, <3>4
  <2>3. CASE gui' = "waiting" /\ waited' = 0 /\ UNCHANGED <<connVars, lock, moveGeneration,
               inFlight, stopVars, workerVars, moverVars, driverVars>>
    BY <2>3
  <2>4. CASE OtherEnter \/ OtherLeave
    BY <2>4 DEF OtherEnter, OtherLeave
  <2>5. ASSUME NEW m \in Mover, Request(m) PROVE TypeOK'
    BY <2>5 DEF Request
  <2>6. ASSUME NEW m \in Mover, Enter(m) PROVE TypeOK'
    <3>1. moverGen[m] \in Generation
      BY <2>6 DEF Enter
    <3> QED
      BY <2>6, <3>1 DEF Enter
  <2>7. ASSUME NEW m \in Mover, EnterRefused(m) PROVE TypeOK'
    BY <2>7 DEF EnterRefused, CallEnds
  <2>8. ASSUME NEW m \in Mover, Arrive(m) \/ SeesCancel(m) \/ ConnectionLost(m) PROVE TypeOK'
    BY <2>8 DEF Arrive, SeesCancel, ConnectionLost
  <2>9. ASSUME NEW m \in Mover, Recheck(m) \/ Refused(m) \/ ClearCancel(m) PROVE TypeOK'
    <3>1. CASE Recheck(m)
      BY <3>1 DEF Recheck
    <3>2. CASE Refused(m)
      BY <3>2 DEF Refused
    <3>3. CASE ClearCancel(m)
      BY <3>3 DEF ClearCancel
    <3> QED
      BY <2>9, <3>1, <3>2, <3>3
  <2>10. ASSUME NEW m \in Mover, SendTarget(m) PROVE TypeOK'
    BY <2>10 DEF SendTarget
  <2>11. ASSUME NEW m \in Mover, LeaveMove(m) PROVE TypeOK'
    BY <2>11 DEF LeaveMove, CallEnds
  <2>12. CASE OrphanArrives
    <3>1. device' = AtRest /\ UNCHANGED <<connVars, lock, guiVars, moveGeneration, inFlight,
            stopVars, workerVars, moverVars, slow, cancelRequested>>
      BY <2>12 DEF OrphanArrives
    <3> QED
      BY <3>1
  <2>13. CASE Stop
    BY <2>13 DEF Stop, StartWorker
  <2>14. ASSUME NEW w \in Worker, WorkerTake(w) PROVE TypeOK'
    BY <2>14 DEF WorkerTake
  <2>15. ASSUME NEW w \in Worker, WorkerExit(w) PROVE TypeOK'
    BY <2>15 DEF WorkerExit, ThreadEnds
  <2>16. ASSUME NEW w \in Worker, SendStop(w) PROVE TypeOK'
    BY <2>16 DEF SendStop
  <2>17. ASSUME NEW w \in Worker, WorkerConfirm(w) PROVE TypeOK'
    <3>1. slow' \in 0 .. SlowPasses
      BY <2>17 DEF WorkerConfirm, Confirm, ConfirmWaitOver
    <3>2. workerPass' \in [Worker -> 1 .. MaxStopPasses]
      BY <2>17 DEF WorkerConfirm, Confirm
    <3>3. waited' \in 0 .. MaxStopPasses
      BY <2>17 DEF WorkerConfirm, Confirm
    <3> QED
      BY <2>17, <3>1, <3>2, <3>3 DEF WorkerConfirm, Confirm
  <2>18. CASE UNCHANGED vars
    BY <2>18 DEF vars
  <2> QED
    BY <2>1, <2>2, <2>3, <2>4, <2>5, <2>6, <2>7, <2>8, <2>9, <2>10, <2>11, <2>12, <2>13,
       <2>14, <2>15, <2>16, <2>17, <2>18
       DEF Next, Disconnect, JoinEnds, WaitExpires, InDriver, WorkerStep
<1> QED
  BY <1>1, <1>2, PTL DEF Spec

-----------------------------------------------------------------------------
(* One stop worker.                                                          *)

\* A Stop never starts a second stop worker beside one that is about to exit.
THEOREM OneStopWorker == Spec => []SingleWorker
<1>1. Init => SingleWorker
  BY NoWorkerAssumption DEF Init, SingleWorker, NoWorkerAssumption
<1>2. TypeOK /\ SingleWorker /\ [Next]_vars => SingleWorker'
  <2> SUFFICES ASSUME TypeOK, SingleWorker, [Next]_vars PROVE SingleWorker'
    OBVIOUS
  <2> USE NoWorkerAssumption DEF SingleWorker, NoWorkerAssumption
  <2>1. CASE Stop
    <3>1. CASE UNCHANGED <<stopWorker, workerPc>>
      BY <3>1
    <3>2. ASSUME NEW w \in Worker, StartWorker(w), stopWorker = NoWorker
          PROVE  SingleWorker'
      BY <3>2 DEF StartWorker, TypeOK
    <3> QED
      BY <2>1, <3>1, <3>2 DEF Stop, workerVars
  <2>2. ASSUME NEW w \in Worker, WorkerStep(w)
        PROVE  SingleWorker'
    <3> USE DEF TypeOK, stopVars
    <3>1. CASE WorkerTake(w)
      BY <3>1 DEF WorkerTake
    <3>2. CASE WorkerExit(w)
      BY <3>2 DEF WorkerExit, ThreadEnds
    <3>3. CASE SendStop(w)
      BY <3>3 DEF SendStop
    <3>4. CASE WorkerConfirm(w)
      BY <3>4 DEF WorkerConfirm, Confirm
    <3> QED
      BY <2>2, <3>1, <3>2, <3>3, <3>4 DEF WorkerStep
  <2>3. CASE UNCHANGED <<stopWorker, workerPc>>
    BY <2>3
  <2> QED
    BY <2>1, <2>2, <2>3
       DEF Next, Connect, Disconnect, JoinEnds, WaitExpires, Release, OtherConnect,
           OtherDisconnect, OtherEnter, OtherLeave, Request, Enter, EnterRefused, Arrive,
           InDriver, Recheck, Refused, ClearCancel, SendTarget, SeesCancel, ConnectionLost,
           LeaveMove, OrphanArrives, vars, stopVars, workerVars
<1> QED
  BY <1>1, <1>2, TypeCorrect, PTL DEF Spec

-----------------------------------------------------------------------------
(* Every Stop is sent before the connection is let go.                       *)

\* A request has a worker to take it up; and while disconnect() waits, no more passes have
\* ended than the worker's request has had while another request is still queued behind it.
RequestHasWorker == pendingStop # NoStop => \E w \in Worker : workerPc[w] # "none"
WaitedForFirst ==
  \A w \in Worker :
    (gui = "waiting" /\ pendingStop # NoStop /\ workerPc[w] \in {"send", "confirm"})
      => waited < workerPass[w]

DeliveryInv == RequestHasWorker /\ WaitedForFirst

\* Every step keeps a request with a worker to send it, and the wait on the first pass.
LEMMA DeliveryStep ==
  ASSUME TypeOK, TypeOK', SingleWorker, DeliveryInv, [Next]_vars
  PROVE  DeliveryInv'
<1> USE DEF DeliveryInv, RequestHasWorker, WaitedForFirst
<1>1. CASE /\ UNCHANGED <<pendingStop, workerPc, workerPass>>
           /\ UNCHANGED <<gui, waited>> \/ gui' = "free"
  BY <1>1
<1>2. CASE Disconnect
  <2>1. CASE Release
    <3>1. gui' = "free" /\ UNCHANGED <<pendingStop, workerPc, workerPass>>
      BY <2>1 DEF Release, stopVars, workerVars
    <3> QED
      BY <3>1
  <2>2. CASE ~Release
    <3>1. waited' = 0 /\ UNCHANGED <<pendingStop, workerPc, workerPass>>
      BY <1>2, <2>2 DEF Disconnect, stopVars, workerVars
    <3>2. \A w \in Worker : 0 < workerPass[w]
      BY BoundsAssumption DEF TypeOK, BoundsAssumption
    <3> QED
      BY <3>1, <3>2
  <2> QED
    BY <2>1, <2>2
<1>3. CASE Stop
  <2>1. gui = "free" /\ gui' = "free"
    BY <1>3 DEF Stop, guiVars
  <2>2. \E w \in Worker : workerPc'[w] # "none"
    <3>1. CASE stopWorker # NoWorker
      BY <1>3, <3>1 DEF Stop, TypeOK, SingleWorker, workerVars
    <3>2. CASE stopWorker = NoWorker
      BY <1>3, <3>2 DEF Stop, StartWorker, TypeOK
    <3> QED
      BY <3>1, <3>2
  <2> QED
    BY <2>1, <2>2
<1>4. ASSUME NEW w \in Worker, WorkerTake(w)
      PROVE  DeliveryInv'
  BY <1>4 DEF WorkerTake, TypeOK, guiVars
<1>5. ASSUME NEW w \in Worker, WorkerExit(w)
      PROVE  DeliveryInv'
  BY <1>5 DEF WorkerExit, ThreadEnds, TypeOK, guiVars
<1>6. ASSUME NEW w \in Worker, SendStop(w)
      PROVE  DeliveryInv'
  BY <1>6 DEF SendStop, TypeOK, guiVars, stopVars
<1>7. ASSUME NEW w \in Worker, WorkerConfirm(w)
      PROVE  DeliveryInv'
  <2> USE <1>7 DEF WorkerConfirm, Confirm, TypeOK, stopVars
  <2>1. RequestHasWorker'
    OBVIOUS
  <2>2. \A v \in Worker : v # w => workerPc[v] = "none" /\ workerPc'[v] = "none"
    BY DEF SingleWorker
  <2>3. ASSUME gui = "waiting", pendingStop # NoStop, workerPc'[w] \in {"send", "confirm"}
        PROVE  waited' < workerPass'[w]
    BY <2>3, BoundsAssumption DEF BoundsAssumption
  <2> QED
    BY <2>1, <2>2, <2>3
<1> QED
  BY <1>1, <1>2, <1>3, <1>4, <1>5, <1>6, <1>7
     DEF Next, Connect, JoinEnds, WaitExpires, Release, OtherConnect, OtherDisconnect,
         OtherEnter, OtherLeave, Request, Enter, EnterRefused, Arrive, InDriver, Recheck,
         Refused, ClearCancel, SendTarget, SeesCancel, ConnectionLost, LeaveMove,
         OrphanArrives, WorkerStep, vars, guiVars, stopVars, workerVars

\* disconnect() lets go of the connection only after every requested Stop was sent at least
\* once, even where its bounded wait expires with a second request behind the first.
THEOREM StopSentFirst == Spec => StopSentBeforeRelease
<1>1. Init => DeliveryInv
  BY DEF Init, DeliveryInv, RequestHasWorker, WaitedForFirst
<1>2. TypeOK /\ TypeOK' /\ SingleWorker /\ DeliveryInv /\ [Next]_vars => DeliveryInv'
  BY DeliveryStep
<1> DEFINE Sent == held /\ ~held' => /\ pendingStop = NoStop
                                     /\ \A w \in Worker : ~(workerPc[w] = "send" /\ workerPass[w] = 1)
<1>3. TypeOK /\ SingleWorker /\ DeliveryInv /\ [Next]_vars => Sent
  <2> SUFFICES ASSUME TypeOK, SingleWorker, DeliveryInv, [Next]_vars, held, ~held'
               PROVE  Sent
    OBVIOUS
  <2> USE DEF DeliveryInv, RequestHasWorker
  <2>1. CASE JoinEnds
    BY <2>1 DEF JoinEnds
  <2>2. CASE WaitExpires
    <3>1. \A w \in Worker : workerPc[w] \notin {"take", "send"}
      BY <2>2 DEF WaitExpires
    <3>2. \A w \in Worker : workerPc[w] = "confirm" => pendingStop = NoStop
      BY <2>2, BoundsAssumption DEF WaitExpires, WaitedForFirst, TypeOK, BoundsAssumption
    <3> QED
      BY <3>1, <3>2 DEF TypeOK
  <2>3. CASE Disconnect
    <3>1. stopWorker = NoWorker
      BY <2>3 DEF Disconnect, connVars
    <3> QED
      BY <3>1, NoWorkerAssumption DEF SingleWorker, NoWorkerAssumption
  <2>4. CASE held' = held \/ held'
    BY <2>4
  <2> QED
    BY <2>1, <2>2, <2>3, <2>4
       DEF Next, Connect, OtherConnect, OtherDisconnect, OtherEnter, OtherLeave, Request,
           Enter, EnterRefused, Arrive, InDriver, Recheck, Refused, ClearCancel, SendTarget,
           SeesCancel, ConnectionLost, LeaveMove, OrphanArrives, Stop, WorkerStep, WorkerTake,
           WorkerExit, SendStop, WorkerConfirm, Confirm, vars, connVars
<1>4. Sent => [held /\ ~held' =>
                 /\ pendingStop = NoStop
                 /\ \A w \in Worker : ~(workerPc[w] = "send" /\ workerPass[w] = 1)]_vars
  OBVIOUS
<1> QED
  BY <1>1, <1>2, <1>3, <1>4, TypeCorrect, OneStopWorker, PTL DEF Spec, StopSentBeforeRelease

-----------------------------------------------------------------------------
(* A Stop is never lost, when no stop outlasts disconnect()'s wait: then the *)
(* worker serves the live client, and the passes outlast the time a move     *)
(* needs to reach OnStepAdapter.                                             *)

StopsInTime == ~LateStops

\* A stop worker's client is the live one, which this shim holds.
WorkerServesLive ==
  \A w \in Worker : workerPc[w] # "none" => held /\ client # NoClient /\ workerFocuser[w] = client

\* One move is past its first check: it owns the lock and is the one in flight.
MoverInFlight ==
  \A m \in Mover : moverPc[m] \notin {"idle", "queued"} =>
    lock = m /\ inFlight = moverGen[m] /\ inFlight # AtRest /\ moverFocuser[m] # NoClient

\* Moves and clients carry numbers already given out.
NumbersGiven ==
  /\ \A m \in Mover : moverGen[m] <= moveGeneration
  /\ client <= opened /\ \A m \in Mover : moverFocuser[m] <= opened

\* A pass whose stop still comes after generation g has reached OnStepAdapter, however many
\* confirmations g may still need for that.
PassesLeft(w, g) ==
  /\ workerPc[w] \in {"send", "confirm"} /\ workerCovered[w] >= g
  /\ workerPass[w] + (SlowPasses - slow) + 1 <= MaxStopPasses

\* A covered move between its last check and OnStepAdapter's entry.
SendingIsCovered ==
  \A m \in Mover :
    (moverPc[m] = "sending" /\ moverFocuser[m] = client /\ moverGen[m] <= stoppedThrough)
      => pendingStop >= moverGen[m] \/ \E w \in Worker : PassesLeft(w, moverGen[m])

LossInv ==
  WorkerServesLive /\ MoverInFlight /\ NumbersGiven /\ SendingIsCovered /\ StopNotLost

\* Steps that touch neither the stop bookkeeping nor a move past its first check.
LEMMA BookkeepingOnly ==
  ASSUME TypeOK, TypeOK', LossInv,
         UNCHANGED <<moveGeneration, inFlight, stopVars, workerVars, slow>>,
         UNCHANGED <<moverPc, moverGen, moverFocuser>>,
         \A m \in Mover : lock = m => lock' = m,
         WorkerServesLive', NumbersGiven',
         client' # NoClient /\ client' <= opened => client' = client /\ cancelRequested' = cancelRequested
  PROVE  LossInv'
<1> USE DEF LossInv
<1>1. MoverInFlight'
  BY DEF MoverInFlight
<1>2. \A m \in Mover : moverPc[m] \in {"sending", "armed", "polling"} /\ moverFocuser'[m] = client'
        => client' = client /\ cancelRequested' = cancelRequested
  BY DEF MoverInFlight, NumbersGiven
<1>3. SendingIsCovered'
  BY <1>2 DEF SendingIsCovered, PassesLeft, stopVars, workerVars
<1>4. StopNotLost'
  BY <1>2 DEF StopNotLost, StopOutstanding, stopVars, workerVars
<1> QED
  BY <1>1, <1>3, <1>4

\* Only one mover is past its first check.
LEMMA OneMover ==
  ASSUME TypeOK, MoverInFlight, NEW m \in Mover, NEW n \in Mover, n # m,
         moverPc[m] \notin {"idle", "queued"} \/ lock = "free"
  PROVE  moverPc[n] \in {"idle", "queued"}
BY LockNamesAssumption DEF MoverInFlight, TypeOK, LockNamesAssumption

\* The steps of the connection and of the GUI thread, Stop excepted.
LEMMA LossInvConnection ==
  ASSUME StopsInTime, TypeOK, TypeOK', SingleWorker, LossInv,
         \/ Connect \/ Disconnect \/ JoinEnds \/ WaitExpires
         \/ OtherConnect \/ OtherDisconnect \/ OtherEnter \/ OtherLeave \/ OrphanArrives
  PROVE  LossInv'
<1> USE DEF connVars, guiVars, stopVars, workerVars, moverVars, driverVars
<1>1. CASE Connect \/ OtherConnect
  <2>1. UNCHANGED <<lock, guiVars, moveGeneration, inFlight, stopVars, workerVars, moverVars,
                    slow>>
    BY <1>1 DEF Connect, OtherConnect
  <2>2. \/ UNCHANGED <<client, opened, cancelRequested>>
        \/ client = NoClient /\ opened' = opened + 1 /\ client' = opened + 1
    BY <1>1 DEF Connect, OtherConnect, Acquire
  <2>3. held => held'
    BY <1>1 DEF Connect, OtherConnect
  <2>4. NumbersGiven'
    BY <2>1, <2>2, BoundsAssumption
       DEF LossInv, NumbersGiven, TypeOK, NoClient, Client, BoundsAssumption
  <2>5. WorkerServesLive'
    BY <2>1, <2>2, <2>3 DEF LossInv, WorkerServesLive
  <2>6. client' <= opened => client' = client /\ cancelRequested' = cancelRequested
    BY <2>2, BoundsAssumption DEF TypeOK, BoundsAssumption
  <2> QED
    BY <2>1, <2>4, <2>5, <2>6, BookkeepingOnly
<1>2. CASE Release /\ \A w \in Worker : workerPc[w] = "none"
  <2>1. UNCHANGED <<opened, lock, moveGeneration, inFlight, stopVars, workerVars, moverVars,
                    driverVars>>
    BY <1>2 DEF Release
  <2>2. client' \in {client, NoClient}
    BY <1>2 DEF Release
  <2>3. NumbersGiven'
    BY <2>1, <2>2, BoundsAssumption DEF LossInv, NumbersGiven, TypeOK, NoClient, BoundsAssumption
  <2>4. WorkerServesLive'
    BY <2>1, <1>2 DEF WorkerServesLive
  <2> QED
    BY <2>1, <2>2, <2>3, <2>4, BookkeepingOnly
<1>3. CASE gui' = "waiting" /\ UNCHANGED <<connVars, lock, moveGeneration, inFlight, stopVars,
                                          workerVars, moverVars, driverVars>>
  <2>1. NumbersGiven' /\ WorkerServesLive'
    BY <1>3 DEF LossInv, NumbersGiven, WorkerServesLive
  <2> QED
    BY <1>3, <2>1, BookkeepingOnly
<1>4. CASE OtherDisconnect
  <2>1. UNCHANGED <<opened, held, lock, moveGeneration, inFlight, stopVars, workerVars,
                    moverVars, driverVars>>
    BY <1>4 DEF OtherDisconnect
  <2>2. client' \in {client, NoClient} /\ (held => client' = client)
    BY <1>4 DEF OtherDisconnect
  <2>3. NumbersGiven'
    BY <2>1, <2>2, BoundsAssumption DEF LossInv, NumbersGiven, TypeOK, NoClient, BoundsAssumption
  <2>4. WorkerServesLive'
    BY <2>1, <2>2 DEF LossInv, WorkerServesLive
  <2> QED
    BY <2>1, <2>2, <2>3, <2>4, BookkeepingOnly
<1>5. CASE OtherEnter \/ OtherLeave \/ OrphanArrives
  <2>1. UNCHANGED <<connVars, moveGeneration, inFlight, stopVars, workerVars, moverVars, slow,
                    cancelRequested>>
    BY <1>5 DEF OtherEnter, OtherLeave, OrphanArrives
  <2>2. \A m \in Mover : lock = m => lock' = m
    BY <1>5, LockNamesAssumption DEF OtherEnter, OtherLeave, OrphanArrives, LockNamesAssumption
  <2>3. NumbersGiven' /\ WorkerServesLive'
    BY <2>1 DEF LossInv, NumbersGiven, WorkerServesLive
  <2> QED
    BY <2>1, <2>2, <2>3, BookkeepingOnly
<1>6. stopWorker = NoWorker => \A w \in Worker : workerPc[w] = "none"
  BY NoWorkerAssumption DEF SingleWorker, NoWorkerAssumption
<1> QED
  BY <1>1, <1>2, <1>3, <1>4, <1>5, <1>6
     DEF Disconnect, JoinEnds, WaitExpires, StopsInTime

\* The steps of a mover.
LEMMA LossInvMover ==
  ASSUME TypeOK, TypeOK', LossInv, NEW m \in Mover,
         Request(m) \/ Enter(m) \/ EnterRefused(m) \/ InDriver(m) \/ Arrive(m)
  PROVE  LossInv'
<1> USE DEF connVars, guiVars, stopVars, workerVars, moverVars, driverVars
<1>1. UNCHANGED <<client, opened, held, stoppedThrough, pendingStop, stopWorker, workerPc,
                  workerFocuser, workerCovered, workerPass>>
  BY DEF Request, Enter, EnterRefused, InDriver, Recheck, Refused, ClearCancel, SendTarget,
         SeesCancel, ConnectionLost, LeaveMove, Arrive
<1>2. WorkerServesLive'
  BY <1>1 DEF LossInv, WorkerServesLive
<1>3. \A n \in Mover : n # m => /\ moverPc'[n] = moverPc[n] /\ moverGen'[n] = moverGen[n]
                                /\ moverFocuser'[n] = moverFocuser[n]
  BY DEF Request, Enter, EnterRefused, InDriver, Recheck, Refused, ClearCancel, SendTarget,
         SeesCancel, ConnectionLost, LeaveMove, Arrive, CallEnds, TypeOK
<1>4. CASE Request(m) \/ EnterRefused(m)
  <2>1. /\ moverPc[m] \in {"idle", "queued"} /\ moverPc'[m] \in {"idle", "queued"}
        /\ UNCHANGED <<lock, inFlight, slow, cancelRequested>>
    BY <1>4 DEF Request, EnterRefused, CallEnds, TypeOK
  <2>2. NumbersGiven'
    BY <1>1, <1>4, BoundsAssumption
       DEF LossInv, NumbersGiven, Request, EnterRefused, CallEnds, TypeOK, NoClient,
           BoundsAssumption
  <2>3. MoverInFlight'
    BY <1>1, <1>3, <2>1 DEF LossInv, MoverInFlight
  <2>4. SendingIsCovered'
    BY <1>1, <1>3, <2>1 DEF LossInv, SendingIsCovered, PassesLeft
  <2>5. StopNotLost'
    BY <1>1, <1>3, <2>1 DEF LossInv, StopNotLost, StopOutstanding
  <2> QED
    BY <1>2, <2>2, <2>3, <2>4, <2>5 DEF LossInv
<1>5. CASE Enter(m) \/ InDriver(m) \/ Arrive(m)
  <2>1. \A n \in Mover : n # m => moverPc[n] \in {"idle", "queued"}
    BY <1>5, OneMover
       DEF LossInv, Enter, InDriver, Recheck, Refused, ClearCancel, SendTarget, SeesCancel,
           ConnectionLost, LeaveMove, Arrive
  <2>2. \A n \in Mover : n # m => moverPc'[n] \in {"idle", "queued"}
    BY <1>3, <2>1
  <2>3. NumbersGiven'
    BY <1>1, <1>5, BoundsAssumption
       DEF LossInv, NumbersGiven, Enter, InDriver, Recheck, Refused, ClearCancel, SendTarget,
           SeesCancel, ConnectionLost, LeaveMove, Arrive, CallEnds, TypeOK, NoClient, Client,
           BoundsAssumption
  <2>4. MoverInFlight'
    <3>1. CASE Enter(m)
      <4>1. moverGen[m] # AtRest
        BY <3>1, BoundsAssumption DEF Enter, TypeOK, AtRest, BoundsAssumption
      <4> QED
        BY <2>2, <3>1, <4>1 DEF Enter, MoverInFlight, TypeOK
    <3>2. CASE LeaveMove(m)
      BY <2>2, <3>2 DEF LeaveMove, CallEnds, MoverInFlight, TypeOK
    <3>3. CASE UNCHANGED <<lock, inFlight, moverGen, moverFocuser>>
               /\ moverPc[m] \notin {"idle", "queued"}
      BY <2>2, <3>3 DEF LossInv, MoverInFlight, TypeOK
    <3> QED
      BY <1>5, <3>1, <3>2, <3>3
         DEF InDriver, Recheck, Refused, ClearCancel, SendTarget, SeesCancel, ConnectionLost,
             Arrive
  <2>5. SendingIsCovered'
    <3>1. moverPc'[m] = "sending" => Recheck(m) /\ moverGen[m] > stoppedThrough
      BY <1>5, BoundsAssumption
         DEF Enter, InDriver, Recheck, Refused, ClearCancel, SendTarget, SeesCancel,
             ConnectionLost, LeaveMove, Arrive, CallEnds, TypeOK, BoundsAssumption
    <3>2. moverPc'[m] = "sending" => ~(moverGen'[m] <= stoppedThrough')
      BY <1>1, <3>1, BoundsAssumption DEF Recheck, TypeOK, BoundsAssumption
    <3> QED
      BY <2>2, <3>2 DEF SendingIsCovered
  <2>6. StopNotLost'
    <3>1. CASE ClearCancel(m)
      <4> SUFFICES ASSUME moverFocuser[m] = client, moverGen[m] <= stoppedThrough
                   PROVE  StopOutstanding(moverGen[m])'
        BY <1>1, <2>2, <3>1 DEF ClearCancel, StopNotLost, StopOutstanding
      <4>1. pendingStop >= moverGen[m] \/ \E w \in Worker : PassesLeft(w, moverGen[m])
        BY <3>1 DEF LossInv, SendingIsCovered, ClearCancel
      <4>2. \A w \in Worker : PassesLeft(w, moverGen[m]) =>
              workerCovered[w] >= moverGen[m]
                /\ (workerPc[w] = "send" \/ (workerPc[w] = "confirm" /\ workerPass[w] < MaxStopPasses))
        BY BoundsAssumption DEF PassesLeft, TypeOK, BoundsAssumption
      <4>3. moverGen' = moverGen
        BY <3>1 DEF ClearCancel
      <4> QED
        BY <1>1, <4>1, <4>2, <4>3 DEF StopOutstanding
    <3>2. CASE SendTarget(m)
      BY <1>1, <2>2, <3>2 DEF LossInv, SendTarget, StopNotLost, StopOutstanding
    <3>3. CASE moverPc'[m] \notin {"armed", "polling"}
      BY <2>2, <3>3 DEF StopNotLost
    <3> QED
      BY <1>5, <3>1, <3>2, <3>3
         DEF Enter, InDriver, Recheck, Refused, SeesCancel, ConnectionLost, LeaveMove, Arrive,
             CallEnds, TypeOK
  <2> QED
    BY <1>2, <2>3, <2>4, <2>5, <2>6 DEF LossInv
<1> QED
  BY <1>4, <1>5

\* Stop and the steps of its worker.
LEMMA LossInvStop ==
  ASSUME TypeOK, TypeOK', SingleWorker, LossInv, Stop \/ \E w \in Worker : WorkerStep(w)
  PROVE  LossInv'
<1> USE DEF connVars, guiVars, stopVars, workerVars, moverVars, driverVars
<1>1. UNCHANGED <<client, opened, held, lock, moveGeneration, inFlight, moverPc, moverGen,
                  moverFocuser>>
  BY DEF Stop, WorkerStep, WorkerTake, WorkerExit, SendStop, WorkerConfirm, Confirm
<1>2. MoverInFlight' /\ NumbersGiven'
  BY <1>1 DEF LossInv, MoverInFlight, NumbersGiven
<1>3. \A m \in Mover : moverGen[m] \in Nat
  BY BoundsAssumption DEF TypeOK, BoundsAssumption
<1>4. CASE Stop
  <2>1. WorkerServesLive'
    BY <1>1, <1>4 DEF LossInv, WorkerServesLive, Stop, StartWorker, TypeOK
  <2>2. pendingStop' = moveGeneration
    BY <1>4 DEF Stop
  <2>3. \A m \in Mover : pendingStop' >= moverGen'[m]
    BY <1>1, <1>3, <2>2, BoundsAssumption DEF LossInv, NumbersGiven, TypeOK, BoundsAssumption
  <2> QED
    BY <1>2, <2>1, <2>3 DEF LossInv, SendingIsCovered, StopNotLost, StopOutstanding
<1>5. ASSUME NEW w \in Worker, WorkerTake(w)
      PROVE  LossInv'
  <2>1. WorkerServesLive'
    BY <1>1, <1>5 DEF LossInv, WorkerServesLive, WorkerTake, TypeOK
  <2>2. UNCHANGED <<slow, cancelRequested, stoppedThrough>>
    BY <1>5 DEF WorkerTake
  <2>3. \A m \in Mover : pendingStop >= moverGen[m] =>
          PassesLeft(w, moverGen[m])' /\ StopOutstanding(moverGen[m])'
    BY <1>1, <1>3, <1>5, <2>2, BoundsAssumption, PassesAssumption
       DEF WorkerTake, PassesLeft, StopOutstanding, TypeOK, BoundsAssumption, PassesAssumption
  <2>4. \A v \in Worker, m \in Mover : PassesLeft(v, moverGen[m]) => PassesLeft(v, moverGen[m])'
    BY <1>1, <1>5, <2>2 DEF WorkerTake, PassesLeft, TypeOK
  <2>5. \A m \in Mover : StopOutstanding(moverGen[m]) => StopOutstanding(moverGen[m])'
    BY <1>1, <1>5, <2>3 DEF WorkerTake, StopOutstanding, TypeOK
  <2>6. SendingIsCovered'
    BY <1>1, <2>2, <2>3, <2>4 DEF LossInv, SendingIsCovered
  <2>7. StopNotLost'
    BY <1>1, <2>2, <2>5 DEF LossInv, StopNotLost
  <2> QED
    BY <1>2, <2>1, <2>6, <2>7 DEF LossInv
<1>6. ASSUME NEW w \in Worker, WorkerExit(w)
      PROVE  LossInv'
  <2>1. WorkerServesLive'
    BY <1>1, <1>6 DEF LossInv, WorkerServesLive, WorkerExit, ThreadEnds, TypeOK
  <2>2. SendingIsCovered'
    BY <1>1, <1>6 DEF LossInv, SendingIsCovered, PassesLeft, WorkerExit, ThreadEnds, TypeOK
  <2>3. StopNotLost'
    BY <1>1, <1>6 DEF LossInv, StopNotLost, StopOutstanding, WorkerExit, ThreadEnds, TypeOK
  <2> QED
    BY <1>2, <2>1, <2>2, <2>3 DEF LossInv
<1>7. ASSUME NEW w \in Worker, SendStop(w)
      PROVE  LossInv'
  <2>1. WorkerServesLive'
    BY <1>1, <1>7 DEF LossInv, WorkerServesLive, SendStop, TypeOK
  <2>2. SendingIsCovered'
    BY <1>1, <1>7 DEF LossInv, SendingIsCovered, PassesLeft, SendStop, TypeOK
  <2>3. cancelRequested'
    BY <1>7 DEF LossInv, WorkerServesLive, SendStop
  <2> QED
    BY <1>2, <2>1, <2>2, <2>3 DEF LossInv, StopNotLost
<1>8. ASSUME NEW w \in Worker, WorkerConfirm(w)
      PROVE  LossInv'
  <2> USE BoundsAssumption DEF BoundsAssumption
  <2>1. WorkerServesLive'
    BY <1>1, <1>8 DEF LossInv, WorkerServesLive, WorkerConfirm, Confirm, TypeOK
  <2>2. UNCHANGED <<cancelRequested, stoppedThrough, pendingStop, workerCovered>>
    BY <1>8 DEF WorkerConfirm, Confirm
  <2>3. \A v \in Worker : v # w => workerPc[v] = "none"
    BY <1>8 DEF WorkerConfirm, Confirm, SingleWorker
  <2>4. ASSUME NEW m \in Mover, moverPc[m] \notin {"idle", "queued"},
               workerCovered[w] >= moverGen[m], workerPass[w] < MaxStopPasses
        PROVE  workerPc'[w] = "send" /\ workerPass'[w] = workerPass[w] + 1
    <3>1. CoveredInFlight(w)
      BY <2>4, <1>3 DEF CoveredInFlight, LossInv, MoverInFlight, TypeOK
    <3> QED
      BY <1>8, <2>4, <3>1 DEF WorkerConfirm, Confirm, TypeOK
  <2>5. SendingIsCovered'
    <3> SUFFICES ASSUME NEW m \in Mover, moverPc[m] = "sending", moverFocuser[m] = client,
                        moverGen[m] <= stoppedThrough, ~(pendingStop >= moverGen[m])
                 PROVE  PassesLeft(w, moverGen[m])'
      BY <1>1, <2>2 DEF SendingIsCovered
    <3>1. PassesLeft(w, moverGen[m])
      BY <2>3 DEF LossInv, SendingIsCovered, PassesLeft
    <3>2. slow < SlowPasses /\ slow' = slow + 1
      BY <1>8 DEF WorkerConfirm, Confirm, ConfirmWaitOver
    <3>3. workerPass[w] < MaxStopPasses /\ workerCovered[w] >= moverGen[m]
      BY <3>1, <3>2 DEF PassesLeft, TypeOK
    <3>4. workerPc'[w] = "send" /\ workerPass'[w] = workerPass[w] + 1
      BY <2>4, <3>3
    <3> QED
      BY <1>1, <2>2, <3>1, <3>2, <3>4 DEF PassesLeft, TypeOK
  <2>6. StopNotLost'
    <3> SUFFICES ASSUME NEW m \in Mover, moverPc[m] \in {"armed", "polling"},
                        moverFocuser[m] = client, moverGen[m] <= stoppedThrough,
                        ~cancelRequested, ~(pendingStop >= moverGen[m])
                 PROVE  StopOutstanding(moverGen[m])'
      BY <1>1, <2>2 DEF StopNotLost, StopOutstanding
    <3>1. workerCovered[w] >= moverGen[m] /\ workerPass[w] < MaxStopPasses
      BY <2>3, <1>8 DEF LossInv, StopNotLost, StopOutstanding, WorkerConfirm, Confirm
    <3>2. workerPc'[w] = "send"
      BY <2>4, <3>1
    <3> QED
      BY <1>1, <2>2, <3>1, <3>2 DEF StopOutstanding
  <2> QED
    BY <1>2, <2>1, <2>5, <2>6 DEF LossInv
<1> QED
  BY <1>4, <1>5, <1>6, <1>7, <1>8 DEF WorkerStep

\* If no stop outlasts disconnect()'s wait and a move reaches OnStepAdapter within all but two
\* of the passes' confirmations, then a Stop is never lost on a move it covers.
THEOREM StopNeverLost ==
  ASSUME StopsInTime
  PROVE  Spec => []StopNotLost
<1>1. Init => LossInv
  BY DEF Init, LossInv, WorkerServesLive, MoverInFlight, NumbersGiven, SendingIsCovered,
         StopNotLost, NoClient
<1>2. TypeOK /\ TypeOK' /\ SingleWorker /\ LossInv /\ [Next]_vars => LossInv'
  <2> SUFFICES ASSUME TypeOK, TypeOK', SingleWorker, LossInv, [Next]_vars PROVE LossInv'
    OBVIOUS
  <2>1. CASE UNCHANGED vars
    BY <2>1 DEF vars, connVars, guiVars, stopVars, workerVars, moverVars, driverVars, LossInv,
                WorkerServesLive, MoverInFlight, NumbersGiven, SendingIsCovered, PassesLeft,
                StopNotLost, StopOutstanding
  <2> QED
    BY <2>1, LossInvConnection, LossInvMover, LossInvStop DEF Next
<1>3. LossInv => StopNotLost
  BY DEF LossInv
<1> QED
  BY <1>1, <1>2, <1>3, TypeCorrect, OneStopWorker, PTL DEF Spec
===============================================================================
