-------------------------- MODULE MountMotion_proofs --------------------------
(***************************************************************************)
(* Proofs about MountMotion, for any workflows, claims and sequences: one  *)
(* motion at a time; the latch agrees with the claim; and, for the axis    *)
(* workflows, whatever parks compete with them, that a stopped motion      *)
(* moves no more and ends, so that the executor implements AbstractMotion, *)
(* and that no Stop is lost on a move under way.                           *)
(***************************************************************************)
EXTENDS MountMotion, TLAPS

-----------------------------------------------------------------------------
(* Typing.                                                                   *)

\* Every variable keeps its type; a sequence never runs past its last move.
THEOREM TypeCorrect == Spec => []TypeOK
<1> USE BoundsAssumption DEF BoundsAssumption
<1>1. Init => TypeOK
  <2> SUFFICES ASSUME Init PROVE TypeOK
    OBVIOUS
  <2>1. /\ pc \in [Owner -> Pc]
        /\ mine \in [Owner -> 0 .. MaxClaims]
        /\ steps \in [Owner -> 0 .. MaxSteps]
    BY DEF Init, NoClaim, Pc
  <2>2. latch \in BOOLEAN /\ parked \in BOOLEAN
    BY DEF Init
  <2>3. /\ cancelled \subseteq 1 .. MaxClaims /\ claims \in 0 .. MaxClaims
        /\ claim \in 0 .. MaxClaims /\ axis \in 0 .. MaxClaims /\ stopOwed \in 0 .. MaxClaims
        /\ lock \in Owner \cup {"free", "other"}
    BY DEF Init, NoClaim
  <2> QED
    BY <2>1, <2>2, <2>3 DEF TypeOK
<1>2. TypeOK /\ [Next]_vars => TypeOK'
  <2> SUFFICES ASSUME TypeOK, [Next]_vars PROVE TypeOK'
    OBVIOUS
  <2>1. pc' \in [Owner -> Pc]
    <3>1. ASSUME NEW o \in Owner, NEW to \in Pc, Goto(o, to)
          PROVE  pc' \in [Owner -> Pc]
      BY <3>1 DEF Goto, TypeOK
    <3>2. ASSUME NEW o \in Owner, Claim(o) \/ Work(o)
          PROVE  \E to \in Pc : Goto(o, to)
      BY <3>2 DEF Claim, FirstStep, Work, Preflight, Unpark, NextMove, Enter, Issue, IssueRefused,
                  Arrive, Deadline, Return, Settled, Release, Pc
    <3>3. CASE UNCHANGED pc
      BY <3>3 DEF TypeOK
    <3> QED
      BY <3>1, <3>2, <3>3 DEF Next, AbortOwn, Abort, AbortInFlight, StopSent, OtherBegin,
                              OtherEnd, workVars, vars
  <2>0. cancelled' \subseteq 1 .. MaxClaims
    <3>1. claim # NoClaim => claim \in 1 .. MaxClaims
      BY DEF TypeOK, NoClaim
    <3> QED
      BY <3>1 DEF Next, Claim, Work, Preflight, Unpark, NextMove, Enter, Issue, IssueRefused,
             Arrive, Deadline, Return, Settled, Release, Abort, AbortOwn, AbortInFlight,
             StopSent, OtherBegin, OtherEnd, vars, TypeOK
  <2> USE <2>1, <2>0 DEF TypeOK, workVars, NoClaim
  <2>2. CASE UNCHANGED <<claim, claims, mine, steps, latch, lock, parked, axis, stopOwed>>
    BY <2>2
  <2>3. ASSUME NEW o \in Owner, Claim(o) PROVE TypeOK'
    <3>1. latch' \in BOOLEAN /\ parked' \in BOOLEAN
      BY <2>3 DEF Claim
    <3> QED
      BY <2>3, <3>1 DEF Claim
  <2>4. ASSUME NEW o \in Owner, Unpark(o) PROVE TypeOK'
    BY <2>4 DEF Unpark
  <2>5. ASSUME NEW o \in Owner, NextMove(o) PROVE TypeOK'
    BY <2>5 DEF NextMove
  <2>6. ASSUME NEW o \in Owner, Enter(o) PROVE TypeOK'
    BY <2>6 DEF Enter
  <2>7. ASSUME NEW o \in Owner, Issue(o) PROVE TypeOK'
    BY <2>7 DEF Issue
  <2>8. ASSUME NEW o \in Owner, Arrive(o) PROVE TypeOK'
    <3>1. parked' \in BOOLEAN /\ latch' \in BOOLEAN
      BY <2>8 DEF Arrive
    <3> QED
      BY <2>8, <3>1 DEF Arrive
  <2>9. ASSUME NEW o \in Owner, Deadline(o) PROVE TypeOK'
    BY <2>9 DEF Deadline
  <2>10. ASSUME NEW o \in Owner, Return(o) PROVE TypeOK'
    BY <2>10 DEF Return
  <2>11. ASSUME NEW o \in Owner, Release(o) PROVE TypeOK'
    BY <2>11 DEF Release
  <2>12. CASE Abort \/ AbortInFlight
    <3>1. latch' \in BOOLEAN /\ parked' \in BOOLEAN
      BY <2>12 DEF Abort, AbortInFlight, MountAbort
    <3> QED
      BY <2>12, <3>1 DEF Abort, AbortInFlight, MountAbort
  <2>13. CASE StopSent
    <3>1. axis' \in 0 .. MaxClaims /\ stopOwed' \in 0 .. MaxClaims
      BY <2>13 DEF StopSent
    <3> QED
      BY <2>13, <3>1 DEF StopSent
  <2>14. CASE OtherBegin \/ OtherEnd
    BY <2>14 DEF OtherBegin, OtherEnd
  <2> QED
    BY <2>2, <2>3, <2>4, <2>5, <2>6, <2>7, <2>8, <2>9, <2>10, <2>11, <2>12, <2>13, <2>14
       DEF Next, Work, AbortOwn, Preflight, IssueRefused, Settled, vars
<1> QED
  BY <1>1, <1>2, PTL DEF Spec

-----------------------------------------------------------------------------
(* One motion.                                                               *)

\* One worker, and what moves is the move it is waiting for.
OneWorker ==
  \A o, p \in Owner : (pc[o] # "idle" /\ pc[p] # "idle") => o = p
MovesForWorker ==
  axis # 0 => \E o \in Owner : pc[o] = "moving" /\ axis = mine[o]
Claimed == \A o \in Owner : pc[o] # "idle" => claim # NoClaim

MotionInv == WorksUnderClaim /\ Claimed /\ OneWorker /\ MovesForWorker

\* Claim, worker and axis stay together through every step.
THEOREM MotionInvariant == Spec => []MotionInv
<1> USE DEF MotionInv, WorksUnderClaim, Claimed, OneWorker, MovesForWorker
<1>1. Init => MotionInv
  BY DEF Init
<1>2. TypeOK /\ MotionInv /\ [Next]_vars => MotionInv'
  <2> SUFFICES ASSUME TypeOK, MotionInv, [Next]_vars PROVE MotionInv'
    OBVIOUS
  <2> USE DEF TypeOK, workVars, Goto
  <2>1. ASSUME NEW o \in Owner, Claim(o) PROVE MotionInv'
    <3>1. \A p \in Owner : pc[p] = "idle"
      BY <2>1 DEF Claim
    <3>2. axis = 0 /\ axis' = 0
      BY <2>1, <3>1 DEF Claim
    <3>3. claim' # NoClaim /\ mine'[o] = claim'
      BY <2>1, BoundsAssumption DEF Claim, NoClaim, BoundsAssumption
    <3> QED
      BY <2>1, <3>1, <3>2, <3>3 DEF Claim
  <2>2. ASSUME NEW o \in Owner, Preflight(o) \/ Unpark(o) \/ Settled(o)
        PROVE  MotionInv'
    BY <2>2 DEF Preflight, Unpark, Settled
  <2>3. ASSUME NEW o \in Owner, NextMove(o) \/ Enter(o) \/ Return(o)
        PROVE  MotionInv'
    BY <2>3 DEF NextMove, Enter, Return
  <2>4. ASSUME NEW o \in Owner, Issue(o) PROVE MotionInv'
    BY <2>4 DEF Issue
  <2>5. ASSUME NEW o \in Owner, IssueRefused(o) PROVE MotionInv'
    BY <2>5 DEF IssueRefused
  <2>6. ASSUME NEW o \in Owner, Arrive(o) \/ Deadline(o) PROVE MotionInv'
    BY <2>6 DEF Arrive, Deadline
  <2>7. ASSUME NEW o \in Owner, Release(o) PROVE MotionInv'
    <3>1. \A p \in Owner : pc'[p] = "idle"
      BY <2>7 DEF Release
    <3>2. axis = 0 /\ axis' = 0
      BY <2>7 DEF Release
    <3> QED
      BY <3>1, <3>2
  <2>8. CASE StopSent
    BY <2>8 DEF StopSent
  <2>9. CASE UNCHANGED <<claim, pc, mine, axis>>
    BY <2>9
  <2> QED
    BY <2>1, <2>2, <2>3, <2>4, <2>5, <2>6, <2>7, <2>8, <2>9
       DEF Next, Work, Abort, AbortInFlight, AbortOwn, OtherBegin, OtherEnd, vars
<1> QED
  BY <1>1, <1>2, TypeCorrect, PTL DEF Spec

\* One motion app-wide: whatever moves is the claim in flight.
THEOREM OneMotionAlways == Spec => []OneMotion
<1>1. MotionInv => OneMotion
  BY DEF MotionInv, WorksUnderClaim, MovesForWorker, OneMotion
<1> QED
  BY <1>1, MotionInvariant, PTL

-----------------------------------------------------------------------------
(* The latch and the claim.                                                  *)

\* A latched Stop is that of the motion in flight, and of no claim still to come.
LatchInv ==
  /\ LatchIsOwnStop
  /\ (claim # NoClaim /\ claim \in cancelled) => latch
  /\ cancelled \subseteq 1 .. claims
  /\ claim <= claims

\* Whichever Stop is pressed, and whenever, latch and cancel event of the claim agree.
THEOREM LatchInvariant == Spec => []LatchInv
<1> USE DEF LatchInv, LatchIsOwnStop, NoClaim
<1>1. Init => LatchInv
  BY DEF Init
<1>2. TypeOK /\ LatchInv /\ [Next]_vars => LatchInv'
  <2> SUFFICES ASSUME TypeOK, LatchInv, [Next]_vars PROVE LatchInv'
    OBVIOUS
  <2>1. ASSUME NEW o \in Owner, Claim(o) PROVE LatchInv'
    <3>1. claims \in Nat /\ claim' = claims' /\ claims' = claims + 1 /\ cancelled' = cancelled
      BY <2>1 DEF Claim, TypeOK
    <3>2. claim' \notin cancelled'
      BY <3>1
    <3>3. cancelled' \subseteq 1 .. claims'
      BY <3>1
    <3> QED
      BY <2>1, <3>1, <3>2, <3>3 DEF Claim
  <2>2. ASSUME NEW o \in Owner, Release(o) PROVE LatchInv'
    BY <2>2 DEF Release, TypeOK
  <2>3. CASE Abort \/ AbortInFlight
    <3>1. claim # NoClaim => claim \in 1 .. claims
      BY DEF TypeOK
    <3>2. cancelled' \subseteq 1 .. claims'
      BY <2>3, <3>1 DEF Abort, AbortInFlight
    <3>3. latch' /\ UNCHANGED <<claim, claims>> /\ (claim # NoClaim => claim \in cancelled')
      BY <2>3 DEF Abort, AbortInFlight, MountAbort
    <3> QED
      BY <3>2, <3>3
  <2>4. CASE UNCHANGED <<claim, claims, cancelled, latch>>
    BY <2>4
  <2> QED
    BY <2>1, <2>2, <2>3, <2>4
       DEF Next, Work, AbortOwn, Preflight, Unpark, NextMove, Enter, Issue, IssueRefused, Arrive,
           Deadline, Return, Settled, StopSent, OtherBegin, OtherEnd, vars
<1> QED
  BY <1>1, <1>2, TypeCorrect, PTL DEF Spec

\* The Stop of an earlier motion never refuses a new one.
THEOREM LatchAlwaysOwn == Spec => []LatchIsOwnStop
<1>1. LatchInv => LatchIsOwnStop
  BY DEF LatchInv
<1> QED
  BY <1>1, LatchInvariant, PTL

-----------------------------------------------------------------------------
(* The executor implements AbstractMotion for the axis workflows, which look *)
(* at the latch once the connection is theirs.                               *)

\* Whoever gets the connection and goes on does so for a motion nobody stopped.
LEMMA EntersUnstopped ==
  ASSUME TypeOK, MotionInv, LatchInv, NEW o \in AxisOwner, Enter(o), pc'[o] = "entered"
  PROVE  claim # NoClaim /\ claim \notin cancelled /\ mine[o] = claim
<1>1. o \in Owner
  BY DEF Owner
<1>2. ~latch
  BY <1>1 DEF Enter, Goto, TypeOK
<1> QED
  BY <1>1, <1>2 DEF MotionInv, WorksUnderClaim, Claimed, LatchInv, Enter

\* Whatever a stopped axis workflow waits for, it goes on to its end only: the waits look at the
\* claim's cancel event, and the one for the connection at the latch, which agrees with it.
THEOREM StoppedGoesNoFurther == Spec => StoppedMovesNoMore
<1>1. TypeOK /\ MotionInv /\ LatchInv /\ [Next]_vars
        => [\A o \in AxisOwner : EndsOnceStopped(o)]_vars
  <2> SUFFICES ASSUME TypeOK, MotionInv, LatchInv, [Next]_vars, NEW o \in AxisOwner,
                      WaitsToGoOn(o), Cancelled(o), pc'[o] # pc[o]
               PROVE  pc'[o] = "releasing"
    BY DEF EndsOnceStopped
  <2>1. o \in Owner
    BY DEF Owner
  <2>2. Preflight(o) \/ Unpark(o) \/ NextMove(o) \/ Enter(o) \/ Settled(o)
    <3>1. PICK p \in Owner : Claim(p) \/ Work(p)
      BY DEF Next, AbortOwn, Abort, AbortInFlight, StopSent, OtherBegin, OtherEnd, vars, workVars
    <3>2. \E to \in Pc : Goto(p, to)
      BY <3>1 DEF Claim, FirstStep, Work, Preflight, Unpark, NextMove, Enter, Issue, IssueRefused,
                  Arrive, Deadline, Return, Settled, Release, Pc
    <3>3. p = o
      BY <2>1, <3>2 DEF Goto, TypeOK
    <3> QED
      BY <3>1, <3>3 DEF WaitsToGoOn, Claim, Work, Issue, IssueRefused, Arrive, Deadline, Return, Release
  <2>3. CASE Enter(o)
    <3>1. pc'[o] # "entered"
      BY <2>3, EntersUnstopped DEF Cancelled
    <3> QED
      BY <2>1, <2>3, <3>1 DEF Enter, Goto, TypeOK
  <2>4. CASE Preflight(o) \/ Unpark(o) \/ NextMove(o) \/ Settled(o)
    BY <2>1, <2>4 DEF Preflight, Unpark, NextMove, Settled, Goto, TypeOK
  <2> QED
    BY <2>2, <2>3, <2>4
<1> QED
  BY <1>1, TypeCorrect, MotionInvariant, LatchInvariant, PTL DEF Spec, StoppedMovesNoMore

\* A worker that commands the mount is the only worker.
LEMMA CommandingAlone ==
  ASSUME TypeOK, MotionInv, NEW o \in Owner, pc[o] # "idle"
  PROVE  /\ \A p \in Owner : Commanding(p) => p = o
         /\ claim # NoClaim /\ mine[o] = claim
BY DEF MotionInv, WorksUnderClaim, Claimed, OneWorker, Commanding

\* Every step of the executor, its workers and the stop worker is a step of the promise or
\* leaves it alone.
THEOREM ImplementsAbstractMotion == Spec => ImplementsPromise
<1> DEFINE moving == IF \E o \in AxisOwner : Commanding(o) THEN claim ELSE 0
<1>1. Init => Promise!Init
  BY DEF Init, Promise!Init, Commanding, NoClaim
<1>2. TypeOK /\ TypeOK' /\ MotionInv /\ MotionInv' /\ LatchInv /\ [Next]_vars
        => [Promise!Next]_(Promise!vars)
  <2> SUFFICES ASSUME TypeOK, TypeOK', MotionInv, MotionInv', LatchInv, [Next]_vars
               PROVE  Promise!Next \/ UNCHANGED <<claims, claim, cancelled, moving>>
    BY DEF Promise!vars
  <2> USE DEF TypeOK, workVars, Goto, NoClaim
  <2>0. AxisOwner \subseteq Owner
    BY DEF Owner
  <2>1. ASSUME NEW o \in Owner, Claim(o) PROVE Promise!Begin
    <3>1. \A p \in Owner : pc[p] = "idle" /\ ~Commanding(p)
      BY <2>1 DEF MotionInv, Claimed, Claim, Commanding
    <3>2. \A p \in Owner : ~Commanding(p)'
      BY <2>1, <3>1 DEF Claim, FirstStep, Commanding
    <3> QED
      BY <2>0, <2>1, <3>1, <3>2 DEF Claim, Promise!Begin
  <2>2. ASSUME NEW o \in AxisOwner, Enter(o), pc'[o] = "entered" PROVE Promise!Command
    <3>1. claim # NoClaim /\ claim \notin cancelled
      BY <2>2, EntersUnstopped
    <3>2. \A p \in Owner : ~Commanding(p)
      BY <2>0, <2>2, CommandingAlone DEF Enter, Commanding
    <3>3. Commanding(o)'
      BY <2>2 DEF Commanding
    <3> QED
      BY <2>0, <2>2, <3>1, <3>2, <3>3 DEF Enter, Promise!Command
  <2>3. ASSUME NEW o \in Owner, pc[o] # "idle",
               UNCHANGED <<claim, claims, cancelled>>, \A p \in Owner : p # o => pc'[p] = pc[p],
               o \in AxisOwner => (Commanding(o)' => Commanding(o))
        PROVE  Promise!Rest \/ UNCHANGED <<claims, claim, cancelled, moving>>
    <3>1. \A p \in Owner : p # o => ~Commanding(p) /\ ~Commanding(p)'
      BY <2>3, CommandingAlone DEF MotionInv, OneWorker, Commanding
    <3>2. claim # 0
      BY <2>3, CommandingAlone
    <3> QED
      BY <2>0, <2>3, <3>1, <3>2 DEF Promise!Rest
  <2>4. ASSUME NEW o \in Owner,
               Preflight(o) \/ Unpark(o) \/ NextMove(o) \/ (Enter(o) /\ (pc'[o] # "entered" \/ o \notin AxisOwner))
               \/ Issue(o) \/ IssueRefused(o) \/ Arrive(o) \/ Deadline(o) \/ Return(o)
               \/ Settled(o)
        PROVE  Promise!Rest \/ UNCHANGED <<claims, claim, cancelled, moving>>
    <3>1. /\ pc[o] # "idle" /\ UNCHANGED <<claim, claims, cancelled>>
          /\ \A p \in Owner : p # o => pc'[p] = pc[p]
      BY <2>4 DEF Preflight, Unpark, NextMove, Enter, Issue, IssueRefused, Arrive, Deadline,
                  Return, Settled
    <3>2. o \in AxisOwner => (Commanding(o)' => Commanding(o))
      BY <2>4 DEF Preflight, Unpark, NextMove, Enter, Issue, IssueRefused, Arrive, Deadline,
                  Return, Settled, Commanding
    <3> QED
      BY <2>3, <3>1, <3>2
  <2>5. ASSUME NEW o \in Owner, Release(o) PROVE Promise!End
    <3>1. \A p \in Owner : ~Commanding(p) /\ ~Commanding(p)'
      BY <2>5, CommandingAlone DEF Release, Commanding
    <3>2. claim # 0 /\ claim = mine[o]
      BY <2>5, CommandingAlone DEF Release
    <3> QED
      BY <2>0, <2>5, <3>1, <3>2 DEF Release, Promise!End
  <2>6. CASE Abort \/ AbortInFlight
    <3>1. \A p \in Owner : Commanding(p)' <=> Commanding(p)
      BY <2>6 DEF Abort, AbortInFlight, Commanding
    <3>2. moving' = moving
      BY <2>0, <2>6, <3>1 DEF Abort, AbortInFlight
    <3> QED
      BY <2>6, <3>2 DEF Abort, AbortInFlight, Promise!Stop, Promise!Next
  <2>7. CASE StopSent
    <3>1. UNCHANGED <<claims, claim, cancelled>> /\ \A p \in Owner : Commanding(p)' => Commanding(p)
      BY <2>7 DEF StopSent, Commanding
    <3>2. (\E p \in Owner : Commanding(p)) => claim # 0
      BY CommandingAlone DEF Commanding
    <3> QED
      BY <2>0, <3>1, <3>2 DEF Promise!Rest, Promise!Next
  <2>8. CASE UNCHANGED <<claim, claims, cancelled, pc, axis>>
    BY <2>8 DEF Commanding
  <2> QED
    BY <2>1, <2>2, <2>4, <2>5, <2>6, <2>7, <2>8
       DEF Next, Work, AbortOwn, OtherBegin, OtherEnd, Promise!Next, vars
<1> QED
  BY <1>1, <1>2, TypeCorrect, MotionInvariant, LatchInvariant, PTL
     DEF Spec, ImplementsPromise, Promise!Spec

-----------------------------------------------------------------------------
(* No Stop is lost on a move under way.                                      *)

\* A stopped axis workflow that owns the connection, or whose move runs, is still owed an
\* emergency stop: the stop worker does not give up on a move it found unsent.
StopInv ==
  \A o \in AxisOwner :
    Cancelled(o) /\ (pc[o] = "entered" \/ (pc[o] = "moving" /\ axis = mine[o]))
      => stopOwed >= mine[o]

\* Between the connection becoming a worker's and its move's end, a Stop stays owed to it.
THEOREM StopInvariant == Spec => []StopInv
<1>1. Init => StopInv
  BY DEF Init, StopInv, Owner
<1>2. TypeOK /\ MotionInv /\ LatchInv /\ StopInv /\ [Next]_vars => StopInv'
  <2> SUFFICES ASSUME TypeOK, MotionInv, LatchInv, StopInv, [Next]_vars,
                      NEW o \in AxisOwner, Cancelled(o)',
                      pc'[o] = "entered" \/ (pc'[o] = "moving" /\ axis' = mine'[o])
               PROVE  stopOwed' >= mine'[o]
    BY DEF StopInv, Cancelled
  <2> USE DEF TypeOK, workVars, Goto, NoClaim, Cancelled
  <2>0. o \in Owner
    BY DEF Owner
  <2>1. ASSUME NEW p \in Owner, Claim(p) PROVE stopOwed' >= mine'[o]
    <3>1. pc[o] = "idle"
      BY <2>0, <2>1 DEF Claim, MotionInv, Claimed
    <3> QED
      BY <2>0, <2>1, <3>1 DEF Claim, FirstStep
  <2>2. ASSUME NEW p \in Owner, Enter(p) PROVE stopOwed' >= mine'[o]
    <3>1. CASE p = o
      BY <2>0, <2>2, <3>1, EntersUnstopped DEF Enter
    <3>2. CASE p # o
      BY <2>0, <2>2, <3>2 DEF Enter, StopInv
    <3> QED
      BY <3>1, <3>2
  <2>3. ASSUME NEW p \in Owner, Issue(p) PROVE stopOwed' >= mine'[o]
    <3>1. p = o
      BY <2>0, <2>3 DEF Issue, MotionInv, OneWorker
    <3> QED
      BY <2>0, <2>3, <3>1 DEF Issue, StopInv
  <2>4. ASSUME NEW p \in Owner, Arrive(p) \/ Deadline(p) PROVE stopOwed' >= mine'[o]
    BY <2>0, <2>4 DEF Arrive, Deadline, StopInv, MotionInv, WorksUnderClaim, Claimed
  <2>5. ASSUME NEW p \in Owner,
               Preflight(p) \/ Unpark(p) \/ NextMove(p) \/ IssueRefused(p) \/ Return(p)
               \/ Settled(p) \/ Release(p)
        PROVE  stopOwed' >= mine'[o]
    BY <2>0, <2>5 DEF Preflight, Unpark, NextMove, IssueRefused, Return, Settled, Release, StopInv
  <2>6. CASE Abort \/ AbortInFlight
    <3>1. mine'[o] = claim /\ claim <= claims /\ stopOwed' = claims
      BY <2>0, <2>6
         DEF Abort, AbortInFlight, MountAbort, MotionInv, WorksUnderClaim, LatchInv
    <3> QED
      BY <3>1
  <2>7. CASE StopSent
    <3>1. pc[o] = "entered"
      BY <2>0, <2>7 DEF StopSent, MotionInv, WorksUnderClaim, Claimed
    <3> QED
      BY <2>0, <2>7, <3>1 DEF StopSent, StopInv
  <2>8. CASE UNCHANGED <<cancelled, pc, mine, axis, stopOwed>>
    BY <2>8 DEF StopInv
  <2> QED
    BY <2>1, <2>2, <2>3, <2>4, <2>5, <2>6, <2>7, <2>8
       DEF Next, Work, AbortOwn, OtherBegin, OtherEnd, vars
<1> QED
  BY <1>1, <1>2, TypeCorrect, MotionInvariant, LatchInvariant, PTL DEF Spec

\* A stopped motion whose move is under way has an emergency stop coming.
THEOREM StopNeverLost == Spec => []StopNotLost
<1>1. StopInv => StopNotLost
  BY DEF StopInv, StopNotLost
<1> QED
  BY <1>1, StopInvariant, PTL

===============================================================================
