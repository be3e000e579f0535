----------------------- MODULE MountPulseAdapter_proofs -----------------------
(***************************************************************************)
(* Proofs about MountPulseAdapter, for any number of movers and workers    *)
(* and every bound: typing; one stop worker; one move in flight; and, with *)
(* the connection kept while something moves, that a latched Stop is never *)
(* lost.                                                                   *)
(***************************************************************************)
EXTENDS MountPulseAdapter, TLAPS

-----------------------------------------------------------------------------
(* Typing.                                                                   *)

\* Every variable keeps its type: a request a worker takes is a generation, never None.
THEOREM TypeCorrect == Spec => []TypeOK
<1> USE BoundsAssumption DEF BoundsAssumption
<1>1. Init => TypeOK
  <2> SUFFICES ASSUME Init PROVE TypeOK
    OBVIOUS
  <2> USE DEF Init, NoStop, NoClient, AtRest, Generation, Client
  <2>1. /\ workerPc \in [Worker -> {"none", "take", "send1", "confirm1", "send2", "confirm2"}]
        /\ workerMount \in [Worker -> {NoClient} \cup Client]
        /\ workerCovered \in [Worker -> 0 .. MaxGen]
    OBVIOUS
  <2>2. /\ moverPc \in [Mover -> {"idle", "queued", "entered", "moving", "joining", "ending"}]
        /\ moverKind \in [Mover -> {"goto", "guide"}]
        /\ moverMount \in [Mover -> {NoClient} \cup Client]
    OBVIOUS
  <2>3. held \in BOOLEAN /\ otherHeld \in BOOLEAN /\ cancel \in BOOLEAN
    OBVIOUS
  <2>4. /\ client \in {NoClient} \cup Client /\ opened \in 0 .. MaxClient
        /\ moveGeneration \in 0 .. MaxGen /\ pendingStop \in {NoStop} \cup (0 .. MaxGen)
    OBVIOUS
  <2> QED
    BY <2>1, <2>2, <2>3, <2>4 DEF TypeOK
<1>2. TypeOK /\ [Next]_vars => TypeOK'
  <2> SUFFICES ASSUME TypeOK, [Next]_vars PROVE TypeOK'
    OBVIOUS
  <2> USE DEF TypeOK, connVars, stopVars, workerVars, moverVars, NoStop, NoClient, AtRest,
              Generation, Client
  <2>1. CASE Connect \/ Disconnect \/ OtherConnect \/ OtherDisconnect
    <3>1. client' \in {NoClient} \cup Client /\ opened' \in 0 .. MaxClient
      BY <2>1 DEF Connect, Disconnect, OtherConnect, OtherDisconnect, Acquire
    <3>2. held' \in BOOLEAN /\ otherHeld' \in BOOLEAN
      BY <2>1 DEF Connect, Disconnect, OtherConnect, OtherDisconnect
    <3>3. UNCHANGED <<lock, cancel, moveGeneration, inFlight, stopVars, workerVars, moverVars,
                      axis>>
      BY <2>1 DEF Connect, Disconnect, OtherConnect, OtherDisconnect
    <3> QED
      BY <3>1, <3>2, <3>3
  <2>2. CASE OtherEnter \/ OtherLeave
    BY <2>2 DEF OtherEnter, OtherLeave
  <2>3. ASSUME NEW m \in Mover, NEW kind \in {"goto", "guide"}, Request(m, kind)
        PROVE  TypeOK'
    BY <2>3 DEF Request
  <2>4. ASSUME NEW m \in Mover, EnterAccepted(m) PROVE TypeOK'
    BY <2>4 DEF EnterAccepted
  <2>5. ASSUME NEW m \in Mover, EnterRefused(m) PROVE TypeOK'
    BY <2>5 DEF EnterRefused
  <2>6. ASSUME NEW m \in Mover, Arrive(m) PROVE TypeOK'
    BY <2>6 DEF Arrive
  <2>7. ASSUME NEW m \in Mover, InCall(m) PROVE TypeOK'
    BY <2>7 DEF InCall, JoinEnds, Issue, IssueRefused, Deadline, Finish, EmergencyStop
  <2>8. CASE OrphanArrives \/ ClearAbort
    BY <2>8 DEF OrphanArrives, ClearAbort
  <2>9. CASE Abort
    BY <2>9 DEF Abort, StartWorker
  <2>10. ASSUME NEW w \in Worker, WorkerTake(w) PROVE TypeOK'
    BY <2>10 DEF WorkerTake
  <2>11. ASSUME NEW w \in Worker, WorkerExit(w) PROVE TypeOK'
    BY <2>11 DEF WorkerExit
  <2>12. ASSUME NEW w \in Worker, WorkerSend(w) PROVE TypeOK'
    BY <2>12 DEF WorkerSend, EmergencyStop
  <2>13. ASSUME NEW w \in Worker, WorkerConfirm(w) PROVE TypeOK'
    BY <2>13 DEF WorkerConfirm
  <2>14. CASE UNCHANGED vars
    BY <2>14 DEF vars
  <2> QED
    BY <2>1, <2>2, <2>3, <2>4, <2>5, <2>6, <2>7, <2>8, <2>9, <2>10, <2>11, <2>12, <2>13,
       <2>14 DEF Next, WorkerStep
<1> QED
  BY <1>1, <1>2, PTL DEF Spec

-----------------------------------------------------------------------------
(* One stop worker, one move.                                                *)

\* However Stops interleave with a worker that is about to exit, a second stop worker is never
\* started beside it.
THEOREM OneStopWorker == Spec => []SingleWorker
<1>1. Init => SingleWorker
  BY NoWorkerAssumption DEF Init, SingleWorker, NoWorkerAssumption
<1>2. TypeOK /\ SingleWorker /\ [Next]_vars => SingleWorker'
  <2> SUFFICES ASSUME TypeOK, SingleWorker, [Next]_vars PROVE SingleWorker'
    OBVIOUS
  <2> USE DEF SingleWorker
  <2>1. CASE Abort
    <3>1. CASE UNCHANGED <<stopWorker, workerPc>>
      BY <3>1
    <3>2. ASSUME NEW w \in Worker, StartWorker(w), stopWorker = NoWorker
          PROVE  SingleWorker'
      BY <3>2, NoWorkerAssumption DEF StartWorker, TypeOK, NoWorkerAssumption
    <3> QED
      BY <2>1, <3>1, <3>2 DEF Abort, stopVars, workerVars
  <2>2. ASSUME NEW w \in Worker, WorkerStep(w)
        PROVE  SingleWorker'
    <3> USE DEF TypeOK, stopVars
    <3>1. CASE WorkerTake(w)
      BY <3>1 DEF WorkerTake
    <3>2. CASE WorkerExit(w)
      BY <3>2, NoWorkerAssumption DEF WorkerExit, NoWorkerAssumption
    <3>3. CASE WorkerSend(w)
      BY <3>3 DEF WorkerSend
    <3>4. CASE WorkerConfirm(w)
      BY <3>4 DEF WorkerConfirm
    <3> QED
      BY <2>2, <3>1, <3>2, <3>3, <3>4 DEF WorkerStep
  <2>3. CASE UNCHANGED <<stopWorker, workerPc>>
    BY <2>3
  <2> QED
    BY <2>1, <2>2, <2>3
       DEF Next, Connect, Disconnect, OtherConnect, OtherDisconnect, OtherEnter, OtherLeave,
           Request, EnterAccepted, EnterRefused, Arrive, InCall, JoinEnds, Issue, IssueRefused,
           Deadline, Finish, OrphanArrives, ClearAbort, vars, stopVars, workerVars
<1> QED
  BY <1>1, <1>2, TypeCorrect, PTL DEF Spec

\* operation_lock keeps the moves apart: whoever is past the cancel check owns it, and the
\* in-flight generation is set exactly while somebody is -- under every fault.
THEOREM OneMove == Spec => []OneMoveInFlight
<1>1. Init => OneMoveInFlight
  BY DEF Init, OneMoveInFlight
<1>2. TypeOK /\ OneMoveInFlight /\ [Next]_vars => OneMoveInFlight'
  <2> SUFFICES ASSUME TypeOK, OneMoveInFlight, [Next]_vars PROVE OneMoveInFlight'
    OBVIOUS
  <2> USE LockNamesAssumption DEF OneMoveInFlight, LockNamesAssumption
  <2>1. ASSUME NEW m \in Mover, NEW kind \in {"goto", "guide"}, Request(m, kind)
        PROVE  OneMoveInFlight'
    BY <2>1 DEF Request, TypeOK
  <2>2. ASSUME NEW m \in Mover, EnterAccepted(m)
        PROVE  OneMoveInFlight'
    BY <2>2, BoundsAssumption DEF EnterAccepted, TypeOK, AtRest, BoundsAssumption
  <2>3. ASSUME NEW m \in Mover, EnterRefused(m)
        PROVE  OneMoveInFlight'
    BY <2>3 DEF EnterRefused, TypeOK
  <2>4. ASSUME NEW m \in Mover, Arrive(m)
        PROVE  OneMoveInFlight'
    BY <2>4 DEF Arrive, TypeOK
  <2>5. ASSUME NEW m \in Mover, InCall(m)
        PROVE  OneMoveInFlight'
    <3> USE DEF TypeOK
    <3>1. CASE JoinEnds(m)
      BY <3>1 DEF JoinEnds
    <3>2. CASE Issue(m)
      BY <3>2 DEF Issue
    <3>3. CASE IssueRefused(m)
      BY <3>3 DEF IssueRefused
    <3>4. CASE Deadline(m)
      BY <3>4 DEF Deadline
    <3>5. CASE Finish(m)
      BY <3>5 DEF Finish
    <3> QED
      BY <2>5, <3>1, <3>2, <3>3, <3>4, <3>5 DEF InCall
  <2>6. CASE OtherEnter \/ OtherLeave
    BY <2>6 DEF OtherEnter, OtherLeave, moverVars
  <2>7. CASE UNCHANGED <<lock, inFlight, moverPc>>
    BY <2>7
  <2> QED
    BY <2>1, <2>2, <2>3, <2>4, <2>5, <2>6, <2>7
       DEF Next, Connect, Disconnect, OtherConnect, OtherDisconnect, OrphanArrives, Abort,
           ClearAbort, WorkerStep, WorkerTake, WorkerExit, WorkerSend, WorkerConfirm, vars,
           moverVars
<1> QED
  BY <1>1, <1>2, TypeCorrect, PTL DEF Spec

-----------------------------------------------------------------------------
(* A latched Stop is never lost, as long as nothing but an early re-arm goes *)
(* wrong: the connection stays open for whoever uses it, a GOTO past its     *)
(* cancel check is out before an emergency stop is confirmed, and an         *)
(* emergency stop through the live client stops.                             *)

\* A mover, and a stop worker, use the live client.
MoversConnected ==
  \A m \in Mover : moverPc[m] # "idle" => client # NoClient /\ moverMount[m] = client
WorkerConnected ==
  \A w \in Worker : workerPc[w] # "none" => client # NoClient /\ workerMount[w] = client

\* The axis moves for the one move in flight, while its call polls it.
AxisOfMove ==
  axis # AtRest => axis = inFlight /\ \E m \in Mover : moverPc[m] = "moving"

\* No request covers, and nothing in flight has, a number not yet given out.
Numbered ==
  /\ inFlight <= moveGeneration /\ pendingStop <= moveGeneration
  /\ \A w \in Worker : workerCovered[w] <= moveGeneration

\* While the latch is up nothing past its cancel check escapes the Stop ...
EnteredIsCovered ==
  \A m \in Mover : (cancel /\ moverPc[m] = "entered") => StopOutstanding(inFlight)

\* ... not even between the two stops of a pass: a second stop is only ever due to a move that
\* has been issued, so a move still to be issued then is a later one.
SecondStopIsForIssued ==
  \A w \in Worker, m \in Mover :
    (workerPc[w] = "send2" /\ moverPc[m] = "entered") => inFlight > workerCovered[w]

StopInv ==
  /\ MoversConnected /\ WorkerConnected
  /\ AxisOfMove
  /\ Numbered
  /\ EnteredIsCovered
  /\ SecondStopIsForIssued
  /\ StopOwed

OnlyRearm == Faults \subseteq {"rearmWhileMoving"}

\* Only one mover is past its cancel check.
LEMMA OneMover ==
  ASSUME OneMoveInFlight, NEW m \in Mover, NEW n \in Mover,
         moverPc[m] \in {"entered", "moving", "ending", "joining"},
         moverPc[n] \in {"entered", "moving", "ending", "joining"}
  PROVE  m = n
BY DEF OneMoveInFlight

\* The axis stands unless the one move past its cancel check is being polled.
LEMMA AxisAtRest ==
  ASSUME OneMoveInFlight, AxisOfMove, NEW m \in Mover,
         moverPc[m] \in {"entered", "ending", "joining"} \/ lock = "free"
  PROVE  axis = AtRest
BY LockNamesAssumption DEF OneMoveInFlight, AxisOfMove, LockNamesAssumption

\* No step of the shims or of their threads loses a latched Stop.
LEMMA StopInvStep ==
  ASSUME OnlyRearm, TypeOK, TypeOK', SingleWorker, OneMoveInFlight, StopInv, [Next]_vars
  PROVE  StopInv'
<1> USE DEF StopInv, MoversConnected, WorkerConnected, AxisOfMove, Numbered, EnteredIsCovered,
            SecondStopIsForIssued, StopOwed, StopOutstanding
<1>1. CASE UNCHANGED <<opened, held, otherHeld, lock>> /\ UNCHANGED vars
  BY <1>1 DEF vars, connVars, stopVars, workerVars, moverVars
<1>2. CASE Connect \/ OtherConnect
  <2>1. UNCHANGED <<cancel, moveGeneration, inFlight, stopVars, workerVars, moverVars, axis>>
    BY <1>2 DEF Connect, OtherConnect
  <2>2. client # NoClient => client' = client
    BY <1>2 DEF Connect, OtherConnect, Acquire
  <2> QED
    BY <2>1, <2>2 DEF stopVars, workerVars, moverVars
<1>3. CASE Disconnect \/ OtherDisconnect
  <2>1. UNCHANGED <<cancel, moveGeneration, inFlight, stopVars, workerVars, moverVars, axis>>
    BY <1>3 DEF Disconnect, OtherDisconnect
  <2>2. client' = client \/ MayClose
    BY <1>3 DEF Disconnect, OtherDisconnect
  <2>3. MayClose => /\ \A m \in Mover : moverPc[m] = "idle"
                    /\ \A w \in Worker : workerPc[w] = "none"
    BY NoWorkerAssumption DEF MayClose, OnlyRearm, SingleWorker, NoWorkerAssumption
  <2> QED
    BY <2>1, <2>2, <2>3 DEF stopVars, workerVars, moverVars
<1>4. CASE OtherEnter \/ OtherLeave
  BY <1>4 DEF OtherEnter, OtherLeave, connVars, stopVars, workerVars, moverVars
<1>5. ASSUME NEW m \in Mover, NEW kind \in {"goto", "guide"}, Request(m, kind)
      PROVE  StopInv'
  BY <1>5 DEF Request, TypeOK, connVars, stopVars, workerVars
<1>6. ASSUME NEW m \in Mover, EnterAccepted(m)
      PROVE  StopInv'
  <2> USE <1>6 DEF EnterAccepted, TypeOK, connVars, stopVars, workerVars
  <2>1. axis = AtRest /\ axis' = AtRest
    BY AxisAtRest
  <2>2. MoversConnected' /\ WorkerConnected'
    OBVIOUS
  <2>3. Numbered'
    BY BoundsAssumption DEF BoundsAssumption, NoStop
  <2>4. SecondStopIsForIssued'
    BY BoundsAssumption DEF BoundsAssumption
  <2> QED
    BY <2>1, <2>2, <2>3, <2>4
<1>7. ASSUME NEW m \in Mover, EnterRefused(m)
      PROVE  StopInv'
  BY <1>7 DEF EnterRefused, TypeOK, connVars, stopVars, workerVars
<1>8. ASSUME NEW m \in Mover, Arrive(m)
      PROVE  StopInv'
  BY <1>8 DEF Arrive, TypeOK, connVars, stopVars, workerVars
<1>9. ASSUME NEW m \in Mover, InCall(m)
      PROVE  StopInv'
  <2> USE DEF TypeOK, connVars, stopVars, workerVars
  <2>1. CASE JoinEnds(m)
    BY <2>1 DEF JoinEnds
  <2>2. CASE Issue(m)
    BY <2>2 DEF Issue
  <2>3. CASE IssueRefused(m)
    BY <2>3, AxisAtRest DEF IssueRefused
  <2>4. CASE Deadline(m)
    <3>1. axis' = AtRest
      BY <2>4 DEF Deadline, EmergencyStop, OnlyRearm
    <3> QED
      BY <2>4, <3>1 DEF Deadline
  <2>5. CASE Finish(m)
    <3>1. axis = AtRest /\ axis' = AtRest
      BY <2>5, AxisAtRest DEF Finish
    <3>2. \A n \in Mover : moverPc'[n] # "entered"
      BY <2>5, OneMover DEF Finish
    <3>3. Numbered'
      BY <2>5 DEF Finish, AtRest
    <3> QED
      BY <2>5, <3>1, <3>2, <3>3 DEF Finish
  <2> QED
    BY <1>9, <2>1, <2>2, <2>3, <2>4, <2>5 DEF InCall
<1>10. CASE OrphanArrives
  BY <1>10 DEF OrphanArrives, connVars, stopVars, workerVars, moverVars
<1>11. CASE ClearAbort
  BY <1>11 DEF ClearAbort, connVars, stopVars, workerVars, moverVars
<1>12. CASE Abort
  <2> USE DEF TypeOK, connVars, moverVars
  <2>1. CASE client = NoClient
    <3>1. axis = AtRest /\ \A m \in Mover : moverPc[m] = "idle"
      BY <2>1
    <3> QED
      BY <1>12, <2>1, <3>1 DEF Abort, stopVars, workerVars
  <2>2. CASE client # NoClient
    <3>1. /\ pendingStop' = moveGeneration
          /\ UNCHANGED <<client, moveGeneration, inFlight, moverPc, moverMount, axis>>
          /\ workerCovered' = workerCovered
      BY <1>12, <2>2 DEF Abort, StartWorker, workerVars
    <3>2. \A w \in Worker : /\ workerPc'[w] = workerPc[w] \/ workerPc'[w] = "take"
                            /\ workerPc'[w] # "none" => workerMount'[w] = client
      BY <1>12, <2>2 DEF Abort, StartWorker, workerVars
    <3>3. \A g : g <= moveGeneration => StopOutstanding(g)'
      BY <3>1
    <3> QED
      BY <2>2, <3>1, <3>2, <3>3
  <2> QED
    BY <2>1, <2>2
<1>13. ASSUME NEW w \in Worker, WorkerTake(w)
       PROVE  StopInv'
  <2> USE <1>13 DEF WorkerTake, TypeOK, connVars, moverVars
  <2>1. MoversConnected' /\ WorkerConnected' /\ AxisOfMove'
    OBVIOUS
  <2>2. Numbered' /\ SecondStopIsForIssued'
    BY DEF NoStop
  <2>3. \A g \in Nat : StopOutstanding(g) => StopOutstanding(g)'
    BY DEF NoStop
  <2>4. inFlight \in Nat /\ axis \in Nat
    BY BoundsAssumption DEF AtRest, Generation, BoundsAssumption
  <2> QED
    BY <2>1, <2>2, <2>3, <2>4
<1>14. ASSUME NEW w \in Worker, WorkerExit(w)
       PROVE  StopInv'
  BY <1>14 DEF WorkerExit, TypeOK, connVars, moverVars
<1>15. ASSUME NEW w \in Worker, WorkerSend(w)
       PROVE  StopInv'
  <2> USE <1>15 DEF WorkerSend, TypeOK, connVars, stopVars, moverVars
  <2>1. axis' = AtRest
    BY DEF EmergencyStop, OnlyRearm
  <2>2. MoversConnected' /\ WorkerConnected' /\ Numbered' /\ SecondStopIsForIssued'
    OBVIOUS
  <2>3. EnteredIsCovered'
    <3> SUFFICES ASSUME NEW m \in Mover, cancel, moverPc[m] = "entered"
                 PROVE  StopOutstanding(inFlight)'
      OBVIOUS
    <3>1. StopOutstanding(inFlight)
      OBVIOUS
    <3>2. workerPc[w] = "send2" => ~ (workerCovered[w] >= inFlight)
      BY BoundsAssumption DEF AtRest, Generation, BoundsAssumption
    <3> QED
      BY <3>1, <3>2
  <2> QED
    BY <2>1, <2>2, <2>3
<1>16. ASSUME NEW w \in Worker, WorkerConfirm(w)
       PROVE  StopInv'
  BY <1>16 DEF WorkerConfirm, ConfirmWaitOver, OnlyRearm, TypeOK, connVars, stopVars, moverVars
<1> QED
  BY <1>1, <1>2, <1>3, <1>4, <1>5, <1>6, <1>7, <1>8, <1>9, <1>10, <1>11, <1>12, <1>13, <1>14,
     <1>15, <1>16 DEF Next, WorkerStep, vars, connVars

\* With the connection kept while something moves, and emergency stops that stop, the whole
\* inductive invariant holds, whatever the order of moves, Stops and re-arms.
THEOREM StopInvariant ==
  ASSUME OnlyRearm
  PROVE  Spec => []StopInv
<1>1. Init => StopInv
  BY DEF Init, StopInv, MoversConnected, WorkerConnected, AxisOfMove, Numbered,
         EnteredIsCovered, SecondStopIsForIssued, StopOwed, NoStop, AtRest
<1>2. TypeOK /\ TypeOK' /\ SingleWorker /\ OneMoveInFlight /\ StopInv /\ [Next]_vars => StopInv'
  BY StopInvStep
<1> QED
  BY <1>1, <1>2, TypeCorrect, OneStopWorker, OneMove, PTL DEF Spec

\* Hence, while the latch is up, a moving axis is covered by an emergency stop still to be
\* sent: neither a GOTO that passed its cancel check before the Stop nor one whose Stop came
\* while the stop worker was busy escapes.
THEOREM StopNeverLost ==
  ASSUME OnlyRearm
  PROVE  Spec => []StopOwed
<1>1. StopInv => StopOwed
  BY DEF StopInv
<1> QED
  BY <1>1, StopInvariant, PTL

\* And what moves is the move in flight: no call ends with its mount still moving.
THEOREM MovingInFlight ==
  ASSUME OnlyRearm
  PROVE  Spec => []MovingIsInFlight
<1>1. StopInv => MovingIsInFlight
  BY DEF StopInv, AxisOfMove, MovingIsInFlight
<1> QED
  BY <1>1, StopInvariant, PTL

===============================================================================
