------------------------ MODULE TrackingEnforcer_proofs ------------------------
(***************************************************************************)
(* Proofs about TrackingEnforcer, for any number of worker threads and     *)
(* every budget: typing, and that an "off verified" gate is true whenever  *)
(* no check is under way, whatever raises but one kind of reading.         *)
(***************************************************************************)
EXTENDS TrackingEnforcer, TLAPS

-----------------------------------------------------------------------------
(* Typing.                                                                   *)

\* Every variable keeps its type; in particular a check never runs without a requirement to
\* verify, whatever the mode was when it was asked for.
THEOREM TypeCorrect == Spec => []TypeOK
<1> USE BudgetAssumption DEF BudgetAssumption
<1>1. Init => TypeOK
  <2> SUFFICES ASSUME Init PROVE TypeOK
    OBVIOUS
  <2>1. mode \in Mode /\ conflicts \in Nat /\ gate \in [allowed : BOOLEAN, why : Why]
    BY DEF Init, Mode, Why
  <2>2. pending \in BOOLEAN /\ available \in BOOLEAN /\ tracking \in BOOLEAN
    BY DEF Init
  <2>3. /\ pc \in [Thread -> Pc] /\ req \in [Thread -> Required]
        /\ conflictsAtStart \in [Thread -> Nat] /\ result \in [Thread -> Result]
    BY DEF Init, Pc, Required, Result
  <2>4. lock \in Thread \cup {Nobody, Motion} /\ budget \in 0 .. Budget
    BY DEF Init
  <2> QED
    BY <2>1, <2>2, <2>3, <2>4 DEF TypeOK
<1>2. TypeOK /\ [Next]_vars => TypeOK'
  <2> SUFFICES ASSUME TypeOK, [Next]_vars PROVE TypeOK'
    OBVIOUS
  <2>1. Gui \in Thread
    BY DEF Thread
  <2>2. pc' \in [Thread -> Pc]
    <3>1. ASSUME NEW t \in Thread, NEW to \in Pc, Goto(t, to)
          PROVE  pc' \in [Thread -> Pc]
      BY <3>1 DEF Goto, TypeOK
    <3>2. (\E t \in Thread, to \in Pc : Goto(t, to)) \/ pc' = pc
      BY <2>1 DEF Next, Connect, Disconnect, MotionBegin, MotionEnd, SetMode, RetryPending, Enforce,
             Verify, Step, EnforceMode, Remember, VerifyBegin, Raised, Answer, Read, CommandBegin,
             CommandEnd, Reread, Settle, vars, checkVars, Pc
    <3> QED
      BY <3>1, <3>2 DEF TypeOK
  <2>3. gate' \in [allowed : BOOLEAN, why : Why]
    <3>1. ASSUME NEW t \in Thread
          PROVE  GateFor(t) \in [allowed : BOOLEAN, why : Why]
      BY DEF GateFor, Why
    <3>2. CASE \E t \in Thread : gate' = GateFor(t)
      BY <3>1, <3>2
    <3>3. CASE \E allowed \in BOOLEAN, why \in Why : gate' = [allowed |-> allowed, why |-> why]
      BY <3>3
    <3>4. CASE gate' = gate
      BY <3>4 DEF TypeOK
    <3> QED
      BY <3>2, <3>3, <3>4
         DEF Next, Connect, Disconnect, MotionBegin, MotionEnd, SetMode, RetryPending, Enforce,
             Verify, Step, EnforceMode, Remember, VerifyBegin, Raised, Answer, Read, CommandBegin,
             CommandEnd, Reread, Settle, vars, policyVars, Why
  <2>4. budget' \in 0 .. Budget
    <3>1. Spend \/ budget' = budget
      BY DEF Next, Connect, Disconnect, MotionBegin, MotionEnd, SetMode, RetryPending, Enforce,
             Verify, Step, EnforceMode, Remember, VerifyBegin, Read, CommandBegin, CommandEnd,
             Reread, Settle, vars
    <3> QED
      BY <3>1 DEF Spend, TypeOK
  <2>5. pending' \in BOOLEAN
    <3>1. ASSUME NEW t \in Thread, Settle(t) PROVE pending' \in BOOLEAN
      BY <3>1 DEF Settle, TypeOK
    <3>2. ASSUME NEW md \in Mode, SetMode(md) PROVE pending' \in BOOLEAN
      BY <3>2 DEF SetMode, TypeOK
    <3>3. CASE pending' = FALSE \/ pending' = pending
      BY <3>3 DEF TypeOK
    <3> QED
      BY <3>1, <3>2, <3>3
         DEF Next, Connect, Disconnect, MotionBegin, MotionEnd, RetryPending, Enforce, Verify,
             Step, EnforceMode, Remember, VerifyBegin, Raised, Answer, Read, CommandBegin,
             CommandEnd, Reread, vars, policyVars
  <2>6. available' \in BOOLEAN /\ tracking' \in BOOLEAN
    <3>1. ASSUME NEW t \in Thread, CommandEnd(t)
          PROVE  available' \in BOOLEAN /\ tracking' \in BOOLEAN
      BY <3>1 DEF CommandEnd, TypeOK
    <3>2. CASE Connect \/ Disconnect
      BY <3>2 DEF Connect, Disconnect, TypeOK
    <3>3. CASE UNCHANGED mountVars
      BY <3>3 DEF mountVars, TypeOK
    <3> QED
      BY <3>1, <3>2, <3>3
         DEF Next, MotionBegin, MotionEnd, SetMode, RetryPending, Enforce, Verify, Step,
             EnforceMode, Remember, VerifyBegin, Read, CommandBegin, Reread, Settle, vars,
             mountVars
  <2>10. mode' \in Mode /\ conflicts' \in Nat
    <3>1. mode' \in Mode
      BY DEF Next, Connect, Disconnect, MotionBegin, MotionEnd, SetMode, RetryPending, Enforce,
             Verify, Step, EnforceMode, Remember, VerifyBegin, Raised, Answer, Read,
             CommandBegin, CommandEnd, Reread, Settle, vars, policyVars, TypeOK
    <3>2. conflicts' \in {conflicts, conflicts + 1}
      BY DEF Next, Connect, Disconnect, MotionBegin, MotionEnd, SetMode, RetryPending, Enforce,
             Verify, Step, EnforceMode, Remember, VerifyBegin, Raised, Answer, Read,
             CommandBegin, CommandEnd, Reread, Settle, vars, policyVars
    <3> QED
      BY <3>1, <3>2 DEF TypeOK
  <2>7. req' \in [Thread -> Required] /\ conflictsAtStart' \in [Thread -> Nat]
    BY DEF Next, Connect, Disconnect, MotionBegin, MotionEnd, SetMode, RetryPending, Enforce,
           Verify, Step, EnforceMode, Remember, VerifyBegin, Raised, Answer, Read, CommandBegin,
           CommandEnd, Reread, Settle, vars, checkVars, TypeOK, Required, MeasurementTracking
  <2>8. result' \in [Thread -> Result]
    BY DEF Next, Connect, Disconnect, MotionBegin, MotionEnd, SetMode, RetryPending, Enforce,
           Verify, Step, EnforceMode, Remember, VerifyBegin, Raised, Answer, Read, CommandBegin,
           CommandEnd, Reread, Settle, vars, checkVars, TypeOK, Result
  <2>9. lock' \in Thread \cup {Nobody, Motion}
    BY DEF Next, Connect, Disconnect, MotionBegin, MotionEnd, SetMode, RetryPending, Enforce,
           Verify, Step, EnforceMode, Remember, VerifyBegin, Read, CommandBegin, CommandEnd,
           Reread, Settle, vars, TypeOK
  <2> QED
    BY <2>2, <2>3, <2>4, <2>5, <2>6, <2>7, <2>8, <2>9, <2>10 DEF TypeOK
<1> QED
  BY <1>1, <1>2, PTL DEF Spec

-----------------------------------------------------------------------------
(* An "off verified" gate is true.                                           *)

\* No reading that should confirm a tracking-ON correction raises, and the operator does not act
\* in the instant between a last reading and the storing of its answer.
OnRereadsAnswer == "onReread" \notin Raises /\ ~SlowSettle

\* A check about to answer that tracking is off: if the mount tracks by now, it is because of a
\* tracking-ON check that began before the mode switch -- one that has counted its conflict
\* since this check began, or will.
OffAnswerIsContradicted ==
  \A t \in Thread :
    /\ pc[t] = "settle" /\ req[t] = "OFF" /\ result[t] \in {"correct", "repaired"}
    /\ mode = "TERRESTRIAL" /\ available /\ tracking
    => \/ conflicts # conflictsAtStart[t]
       \/ \E u \in Thread : req[u] = "ON" /\ pc[u] \in {"reread", "settle"}

\* The count only grows.
ConflictsGrow == \A t \in Thread : conflictsAtStart[t] <= conflicts

OffInv == OffAnswerIsContradicted /\ ConflictsGrow /\ VerifiedOffIsOff

\* No step of any thread, of the operator or of the mount lets an answer that tracking is off
\* stand over a mount that tracks.
LEMMA OffInvStep ==
  ASSUME OnRereadsAnswer, TypeOK, TypeOK', OffInv, [Next]_vars
  PROVE  OffInv'
<1> USE DEF OffInv, OffAnswerIsContradicted, ConflictsGrow, VerifiedOffIsOff, Quiescent, Goto
<1>1. Gui \in Thread
  BY DEF Thread
<1>2. CASE Connect
  <2>1. \A t \in Thread : ~(pc[t] = "settle" /\ req[t] = "OFF")
    BY <1>2 DEF Connect, OperatorMayAct, OnRereadsAnswer, Thread
  <2>2. pc'[Gui] = "enforce" /\ \A t \in Thread : t # Gui => pc'[t] = pc[t]
    BY <1>1, <1>2 DEF Connect, TypeOK
  <2> QED
    BY <1>1, <1>2, <2>1, <2>2 DEF Connect, policyVars
<1>3. ASSUME NEW md \in Mode, SetMode(md) PROVE OffInv'
  <2>1. \A t \in Thread : ~(pc[t] = "settle" /\ req[t] = "OFF")
    BY <1>3 DEF SetMode, OperatorMayAct, OnRereadsAnswer, Thread
  <2>2. pc'[Gui] = "enforce" /\ \A t \in Thread : t # Gui => pc'[t] = pc[t]
    BY <1>1, <1>3 DEF SetMode, TypeOK
  <2> QED
    BY <1>1, <1>3, <2>1, <2>2 DEF SetMode
<1>4. CASE Disconnect
  BY <1>4 DEF Disconnect, policyVars, checkVars
<1>5. CASE MotionBegin \/ MotionEnd
  BY <1>5 DEF MotionBegin, MotionEnd, policyVars, mountVars, checkVars
<1>6. CASE RetryPending
  <2>1. /\ UNCHANGED <<mode, conflicts, available, tracking, req, conflictsAtStart, result>>
        /\ pc[Gui] = "idle"
    BY <1>6 DEF RetryPending, mountVars
  <2>2. CASE pc' = [pc EXCEPT ![Gui] = "enforce"]
    BY <1>1, <2>1, <2>2 DEF TypeOK
  <2>3. CASE pc' = pc /\ gate' = [allowed |-> FALSE, why |-> "raised"]
    BY <2>1, <2>3
  <2>4. CASE pc' = pc /\ gate' = gate
    BY <2>1, <2>4
  <2> QED
    BY <1>6, <2>2, <2>3, <2>4 DEF RetryPending
<1>7. ASSUME NEW t \in Thread, Enforce(t) \/ Verify(t) \/ EnforceMode(t)
      PROVE  OffInv'
  BY <1>7 DEF Enforce, Verify, EnforceMode, policyVars, mountVars, TypeOK
<1>8. ASSUME NEW t \in Thread, Remember(t) PROVE OffInv'
  BY <1>8 DEF Remember, mountVars, TypeOK
<1>9. ASSUME NEW t \in Thread, VerifyBegin(t) PROVE OffInv'
  BY <1>9 DEF VerifyBegin, mountVars, TypeOK
<1>10. ASSUME NEW t \in Thread, Read(t) PROVE OffInv'
  <2>1. CASE Raised(t)
    BY <1>10, <2>1 DEF Read, Raised, mountVars, TypeOK
  <2>2. CASE ~Raised(t)
    BY <1>10, <2>2 DEF Read, Answer, Fresh, IsRequired, policyVars, mountVars, TypeOK
  <2> QED
    BY <2>1, <2>2
<1>11. ASSUME NEW t \in Thread, CommandBegin(t) PROVE OffInv'
  BY <1>11 DEF CommandBegin, policyVars, mountVars, TypeOK
<1>12. ASSUME NEW t \in Thread, CommandEnd(t) PROVE OffInv'
  <2>1. /\ pc[t] = "commanding" /\ \A u \in Thread : u # t => pc'[u] = pc[u]
        /\ pc'[t] \in {"reread", "idle"}
        /\ UNCHANGED <<mode, conflicts, available, req, conflictsAtStart, result>>
    BY <1>12 DEF CommandEnd, Raised, policyVars, TypeOK
  <2>2. \/ ~available
        \/ tracking' => tracking
        \/ req[t] = "ON" /\ pc'[t] = "reread"
    BY <1>12 DEF CommandEnd, Raised, policyVars, TypeOK
  <2>3. pc'[t] = "idle" => gate'.why = "raised"
    <3>1. pc'[t] = "reread" \/ Raised(t)
      BY <1>12 DEF CommandEnd, TypeOK
    <3> QED
      BY <3>1 DEF Raised
  <2>4. OffAnswerIsContradicted'
    BY <2>1, <2>2
  <2>5. VerifiedOffIsOff'
    BY <2>1, <2>3
  <2> QED
    BY <2>1, <2>4, <2>5
<1>13. ASSUME NEW t \in Thread, Reread(t) PROVE OffInv'
  <2>1. CASE Raised(t)
    <3>1. pc[t] = "reread" /\ req[t] = "OFF"
      BY <1>13, <2>1 DEF Reread, Raised, Answer, Goto, OnRereadsAnswer, TypeOK, Required
    <3> QED
      BY <1>13, <2>1, <3>1 DEF Reread, Raised, mountVars, TypeOK
  <2>2. CASE ~Raised(t)
    BY <1>13, <2>2 DEF Reread, Answer, Fresh, IsRequired, ReadsTracking, policyVars, mountVars,
                       TypeOK
  <2> QED
    BY <2>1, <2>2
<1>14. ASSUME NEW t \in Thread, Settle(t) PROVE OffInv'
  <2>1. /\ pc' = [pc EXCEPT ![t] = "idle"] /\ pc[t] = "settle"
        /\ UNCHANGED <<mode, available, tracking, req, conflictsAtStart, result>>
    BY <1>14 DEF Settle, mountVars
  <2>2. conflicts' = conflicts \/ conflicts' = conflicts + 1
    BY <1>14 DEF Settle
  <2>3. ConflictsGrow'
    BY <2>1, <2>2 DEF TypeOK
  <2>4. mode = "TERRESTRIAL" /\ req[t] = "ON" => conflicts' = conflicts + 1
    BY <1>14 DEF Settle
  <2>5. OffAnswerIsContradicted'
    BY <2>1, <2>2, <2>4 DEF TypeOK
  <2>6. ASSUME gate'.why = "offVerified", mode = "TERRESTRIAL"
        PROVE  /\ req[t] = "OFF" /\ result[t] \in {"correct", "repaired"}
               /\ conflicts = conflictsAtStart[t]
    BY <1>14, <2>6 DEF Settle, GateFor, TypeOK, Required, Result
  <2>7. VerifiedOffIsOff'
    BY <2>1, <2>6 DEF TypeOK
  <2> QED
    BY <2>3, <2>5, <2>7
<1>15. CASE UNCHANGED vars
  BY <1>15 DEF vars, policyVars, mountVars, checkVars
<1> QED
  BY <1>2, <1>3, <1>4, <1>5, <1>6, <1>7, <1>8, <1>9, <1>10, <1>11, <1>12, <1>13, <1>14, <1>15
     DEF Next, Step

\* Unless a reading that confirms a tracking-ON raises: whenever no check is under way, "off verified" means
\* that the mount does not track -- although a tracking-ON check snapshotted before the mode
\* switch may overlap the verifying check in any order.
THEOREM OffVerifiedMeansOff ==
  ASSUME OnRereadsAnswer
  PROVE  Spec => []VerifiedOffIsOff
<1>1. Init => OffInv
  BY DEF Init, OffInv, OffAnswerIsContradicted, ConflictsGrow, VerifiedOffIsOff
<1>2. TypeOK /\ TypeOK' /\ OffInv /\ [Next]_vars => OffInv'
  BY OffInvStep
<1>3. OffInv => VerifiedOffIsOff
  BY DEF OffInv
<1> QED
  BY <1>1, <1>2, <1>3, TypeCorrect, PTL DEF Spec

===============================================================================
