-------------------------- MODULE TrackingEnforcer --------------------------
(***************************************************************************)
(* The operating-mode tracking policy                                      *)
(* (packages/astrotool_core/mount/operating_mode.py), with the check it    *)
(* runs on the mount (mount/tracking_mode.py: ensure_tracking_mode).       *)
(*                                                                         *)
(* The GUI thread switches the mode, polls retry_pending and runs          *)
(* synchronous checks; workers run checks of their own. The policy's lock  *)
(* guards its decision state only, never the mount I/O between two         *)
(* critical sections -- so checks overlap in any order.                    *)
(*                                                                         *)
(* A check: enforce reads the mode ("enforce"), verify starts ("verify"),  *)
(* reads the mount ("read"), waits for and runs one correction             *)
(* ("command", "commanding"), reads again ("reread"), and stores the       *)
(* answer ("settle"). The evidence trail is not modelled.                  *)
(***************************************************************************)
EXTENDS Naturals

CONSTANTS
  Gui,       \* the Qt thread
  Worker,    \* worker threads that run checks
  Nobody,    \* owner of a free operation_lock
  Motion,    \* owner of operation_lock during a GOTO, a park, a focuser move
  Budget,    \* bound: mode switches, checks, connects and motions in one behaviour
  Raises,    \* which calls to a connected mount may raise (beside a refused tracking-on)
  SlowSettle \* whether the operator can reconnect or switch the mode in the instant
             \* between a check's last reading and the storing of its answer

Thread == {Gui} \cup Worker

ASSUME ThreadsAssumption ==
  /\ Gui \notin Worker
  /\ Nobody # Motion
  /\ {Nobody, Motion} \cap Thread = {}
ASSUME BudgetAssumption == Budget \in Nat
RaiseKinds ==
  { "read",        \* a check's first reading, or the timer's
    "off",         \* stop_tracking
    "offReread",   \* the readings that confirm a tracking-off,
    "onReread" }   \* ... a tracking-on
ASSUME SwitchesAssumption == Raises \subseteq RaiseKinds /\ SlowSettle \in BOOLEAN

Mode == {"TERRESTRIAL", "ASTRONOMICAL"}
Required == {"OFF", "ON"}      \* TrackingMode
Why == {"noCheckYet", "astronomical", "onRefused", "conflict", "busy", "unavailable",
        "offVerified", "onVerified", "failed", "raised"}
Pc == {"idle", "enforce", "remember", "verify", "read", "command", "commanding", "reread",
       "settle"}
Result == {"none", "correct", "repaired", "repairFailed", "busy", "unavailable"}

VARIABLES
  mode,        \* _mode
  pending,     \* _reenforce_pending
  conflicts,   \* _on_conflicts
  gate,        \* _last_gate: [allowed, why]
  available,   \* the park port is connected
  tracking,    \* the controller's own state
  lock,        \* owner of operation_lock
  pc, req, conflictsAtStart, result,   \* each thread's check
  budget

policyVars == <<mode, pending, conflicts, gate>>
mountVars  == <<available, tracking>>
checkVars  == <<pc, req, conflictsAtStart, result>>
vars == <<policyVars, mountVars, lock, checkVars, budget>>

\* Types of the policy's attributes and of the checks under way (operating_mode.py).
TypeOK ==
  /\ mode \in Mode /\ pending \in BOOLEAN /\ conflicts \in Nat
  /\ gate \in [allowed : BOOLEAN, why : Why]
  /\ available \in BOOLEAN /\ tracking \in BOOLEAN
  /\ lock \in Thread \cup {Nobody, Motion}
  /\ pc \in [Thread -> Pc]
  /\ req \in [Thread -> Required]
  /\ conflictsAtStart \in [Thread -> Nat]
  /\ result \in [Thread -> Result]
  /\ budget \in 0 .. Budget

Init ==
  /\ mode = "TERRESTRIAL" /\ pending = FALSE /\ conflicts = 0
  /\ gate = [allowed |-> TRUE, why |-> "noCheckYet"]
  /\ available = FALSE /\ tracking \in BOOLEAN
  /\ lock = Nobody
  /\ pc = [t \in Thread |-> "idle"]
  /\ req = [t \in Thread |-> "OFF"]
  /\ conflictsAtStart = [t \in Thread |-> 0]
  /\ result = [t \in Thread |-> "none"]
  /\ budget = Budget

Spend == budget > 0 /\ budget' = budget - 1
Goto(t, to) == pc' = [pc EXCEPT ![t] = to]
IsRequired(t, on) == on <=> req[t] = "ON"

\* No I/O happens between a tracking-off check's last reading and its Settle: unless
\* SlowSettle, that is too short for a click.
OperatorMayAct ==
  /\ pc[Gui] = "idle"
  /\ SlowSettle \/ \A t \in Worker : ~(pc[t] = "settle" /\ req[t] = "OFF")

\* measurement_tracking
MeasurementTracking == IF mode = "TERRESTRIAL" THEN "OFF" ELSE "ON"

-----------------------------------------------------------------------------
(* The mount and its connection (external), as the checks see them.          *)

\* The Mount panel connects: the controller tracks or not, and the panel enforces at once.
Connect ==
  /\ OperatorMayAct /\ ~available /\ Spend
  /\ available' = TRUE /\ tracking' \in BOOLEAN
  /\ Goto(Gui, "enforce")
  /\ UNCHANGED <<policyVars, lock, req, conflictsAtStart, result>>

\* The panel disconnects; the controller keeps doing what it did.
Disconnect ==
  /\ pc[Gui] = "idle" /\ available
  /\ available' = FALSE
  /\ UNCHANGED <<policyVars, tracking, lock, checkVars, budget>>

\* Another operation occupies the connection.
MotionBegin ==
  /\ available /\ lock = Nobody /\ Spend /\ lock' = Motion
  /\ UNCHANGED <<policyVars, mountVars, checkVars>>

MotionEnd ==
  /\ lock = Motion /\ lock' = Nobody
  /\ UNCHANGED <<policyVars, mountVars, checkVars, budget>>

\* What a status reading says: fresh while nobody else holds the connection; a port that is
\* not connected answers "unavailable, not tracking", always fresh.
Fresh == ~available \/ lock = Nobody
ReadsTracking == available /\ tracking

-----------------------------------------------------------------------------
(* Asking for a check.                                                       *)

\* set_mode. (Choosing the current mode again is Enforce(Gui).)
SetMode(md) ==
  /\ OperatorMayAct /\ md # mode /\ Spend
  /\ mode' = md
  /\ pending' = (pending /\ md = "TERRESTRIAL")
  /\ Goto(Gui, "enforce")
  /\ UNCHANGED <<conflicts, gate, mountVars, lock, req, conflictsAtStart, result>>

\* enforce(context): the measurement gate on the GUI thread, the unpark and axis-move
\* enforcement on a worker.
Enforce(t) ==
  /\ pc[t] = "idle" /\ Spend
  /\ Goto(t, "enforce")
  /\ UNCHANGED <<policyVars, mountVars, lock, req, conflictsAtStart, result>>

\* Mount Align snapshots the tracking its measurement needs, and verifies it later.
Verify(t) ==
  /\ pc[t] = "idle" /\ Spend
  /\ req' = [req EXCEPT ![t] = MeasurementTracking]
  /\ Goto(t, "verify")
  /\ UNCHANGED <<policyVars, mountVars, lock, conflictsAtStart, result>>

\* The GUI's timer: an owed enforcement is carried out once a fresh reading exists. (Not
\* fresh, or nothing owed: nothing happens.)
RetryPending ==
  /\ pc[Gui] = "idle" /\ pending
  /\ \/ /\ mode = "TERRESTRIAL" /\ Fresh
        /\ Goto(Gui, "enforce") /\ UNCHANGED <<pending, gate>>
     \/ /\ mode = "TERRESTRIAL" /\ available /\ "read" \in Raises
        /\ pending' = FALSE /\ gate' = [allowed |-> FALSE, why |-> "raised"] /\ pc' = pc
     \/ /\ mode # "TERRESTRIAL"
        /\ pending' = FALSE /\ UNCHANGED <<gate, pc>>
  /\ UNCHANGED <<mode, conflicts, mountVars, lock, req, conflictsAtStart, result, budget>>

-----------------------------------------------------------------------------
(* The steps of a check.                                                     *)

\* MUTANT (of EnforceMode): the requirement None of astronomical mode is verified like another.
EnforceModeNone(t) ==
  /\ pc[t] = "enforce"
  /\ Goto(t, "verify")
  /\ req' = [req EXCEPT ![t] = IF mode = "TERRESTRIAL" THEN "OFF" ELSE "none"]
  /\ UNCHANGED <<policyVars, mountVars, lock, conflictsAtStart, result, budget>>

\* required_tracking(_mode): read without the lock; nothing is forced in astronomical mode.
EnforceMode(t) ==
  /\ pc[t] = "enforce"
  /\ IF mode = "TERRESTRIAL"
       THEN Goto(t, "verify") /\ req' = [req EXCEPT ![t] = "OFF"]
       ELSE Goto(t, "remember") /\ req' = req
  /\ UNCHANGED <<policyVars, mountVars, lock, conflictsAtStart, result, budget>>

\* ... its answer is stored after the evidence reading of the mount.
Remember(t) ==
  /\ pc[t] = "remember"
  /\ gate' = [allowed |-> TRUE, why |-> "astronomical"]
  /\ Goto(t, "idle")
  /\ UNCHANGED <<mode, pending, conflicts, mountVars, lock, req, conflictsAtStart, result,
                 budget>>

\* Tracking ON while terrestrial: refused, nothing sent.
VerifyBegin(t) ==
  /\ pc[t] = "verify"
  /\ IF req[t] = "ON" /\ mode = "TERRESTRIAL"
       THEN /\ gate' = [allowed |-> FALSE, why |-> "onRefused"]
            /\ Goto(t, "idle") /\ UNCHANGED conflictsAtStart
       ELSE /\ Goto(t, "read") /\ UNCHANGED gate
            /\ conflictsAtStart' = [conflictsAtStart EXCEPT ![t] = conflicts]
  /\ UNCHANGED <<mode, pending, conflicts, mountVars, lock, req, result, budget>>

\* MUTANT (of Raised): what was owed stays owed.
RaisedStillOwes(t) ==
  /\ gate' = [allowed |-> FALSE, why |-> "raised"]
  /\ pending' = (mode = "TERRESTRIAL")
  /\ Goto(t, "idle")
  /\ UNCHANGED <<mode, conflicts, req, conflictsAtStart, result>>

\* The check's reading, or its correction, raises: closed, and nothing is owed any more.
Raised(t) ==
  /\ gate' = [allowed |-> FALSE, why |-> "raised"]
  /\ pending' = FALSE
  /\ Goto(t, "idle")
  /\ UNCHANGED <<mode, conflicts, req, conflictsAtStart, result>>

Answer(t, r) ==
  /\ result' = [result EXCEPT ![t] = r]
  /\ Goto(t, "settle")
  /\ UNCHANGED <<policyVars, req, conflictsAtStart>>

Read(t) ==
  /\ pc[t] = "read"
  /\ \/ ~Fresh /\ Answer(t, "busy")
     \/ ~available /\ Answer(t, "unavailable")
     \/ available /\ Fresh /\ IsRequired(t, tracking) /\ Answer(t, "correct")
     \/ /\ available /\ Fresh /\ ~IsRequired(t, tracking)
        /\ Goto(t, "command") /\ UNCHANGED <<policyVars, req, conflictsAtStart, result>>
     \/ available /\ Fresh /\ "read" \in Raises /\ Raised(t)
  /\ UNCHANGED <<mountVars, lock, budget>>

\* start_tracking / stop_tracking queue for the connection.
CommandBegin(t) ==
  /\ pc[t] = "command" /\ lock = Nobody
  /\ lock' = t /\ Goto(t, "commanding")
  /\ UNCHANGED <<policyVars, mountVars, req, conflictsAtStart, result, budget>>

\* Off: OnStep's emergency stop turns tracking off; it may not be confirmed (then it raises
\* and the controller may track on). On: enabled and confirmed, or refused by the preflight
\* (raises, nothing changed), or not confirmed (raises after an emergency stop). A port that
\* was disconnected meanwhile does nothing.
CommandEnd(t) ==
  /\ pc[t] = "commanding" /\ lock' = Nobody
  /\ \/ ~available /\ tracking' = tracking /\ Goto(t, "reread")
        /\ UNCHANGED <<policyVars, req, conflictsAtStart, result>>
     \/ available /\ tracking' = (req[t] = "ON") /\ Goto(t, "reread")
        /\ UNCHANGED <<policyVars, req, conflictsAtStart, result>>
     \/ available /\ req[t] = "ON" /\ tracking' \in {tracking, FALSE} /\ Raised(t)
     \/ available /\ req[t] = "OFF" /\ "off" \in Raises /\ tracking' \in {tracking, FALSE}
        /\ Raised(t)
  /\ UNCHANGED <<available, budget>>

\* Only a fresh reading can confirm the correction; the poll ends at its deadline or Stop
\* with whatever was read last.
Reread(t) ==
  /\ pc[t] = "reread"
  /\ \/ ~Fresh /\ Answer(t, "busy")
     \/ Fresh /\ IsRequired(t, ReadsTracking) /\ Answer(t, "repaired")
     \/ Fresh /\ ~IsRequired(t, ReadsTracking) /\ Answer(t, "repairFailed")
     \/ /\ available /\ Fresh
        /\ (IF req[t] = "ON" THEN "onReread" ELSE "offReread") \in Raises
        /\ Raised(t)
  /\ UNCHANGED <<mountVars, lock, budget>>

\* _gate_for
GateFor(t) ==
  CASE result[t] = "busy"                    -> [allowed |-> FALSE, why |-> "busy"]
    [] result[t] = "unavailable"             -> [allowed |-> TRUE, why |-> "unavailable"]
    [] result[t] \in {"correct", "repaired"} ->
         [allowed |-> TRUE,
          why |-> IF req[t] = "ON" THEN "onVerified" ELSE "offVerified"]
    [] OTHER                                 -> [allowed |-> FALSE, why |-> "failed"]

\* MUTANT (of Settle): the gate is decided without the conflict count.
SettleWithoutConflicts(t) ==
  /\ pc[t] = "settle"
  /\ gate' = GateFor(t)
  /\ pending' = IF mode = "TERRESTRIAL" /\ req[t] = "OFF" THEN result[t] = "busy" ELSE pending
  /\ Goto(t, "idle")
  /\ UNCHANGED <<mode, conflicts, mountVars, lock, req, conflictsAtStart, result, budget>>

\* MUTANT (of Settle): a conflict closes the gate but owes nothing.
SettleOwesNothing(t) ==
  /\ pc[t] = "settle"
  /\ IF req[t] = "ON" /\ mode = "TERRESTRIAL"
       THEN /\ conflicts' = conflicts + 1 /\ pending' = pending
            /\ gate' = [allowed |-> FALSE, why |-> "onRefused"]
       ELSE /\ gate' = GateFor(t) /\ UNCHANGED <<conflicts, pending>>
  /\ Goto(t, "idle")
  /\ UNCHANGED <<mode, mountVars, lock, req, conflictsAtStart, result, budget>>

\* MUTANT (of Settle): an answer never settles what is owed.
SettleKeepsOwing(t) ==
  /\ pc[t] = "settle"
  /\ pending' = (pending \/ (mode = "TERRESTRIAL" /\ result[t] = "busy"))
  /\ gate' = GateFor(t)
  /\ Goto(t, "idle")
  /\ UNCHANGED <<mode, conflicts, mountVars, lock, req, conflictsAtStart, result, budget>>

\* _settle_result: the gate and what is owed, decided together under the policy's lock.
Settle(t) ==
  /\ pc[t] = "settle"
  /\ \/ /\ req[t] = "ON" /\ mode = "TERRESTRIAL"
        /\ conflicts' = conflicts + 1 /\ pending' = TRUE
        /\ gate' = [allowed |-> FALSE, why |-> "onRefused"]
     \/ /\ req[t] = "OFF" /\ conflicts # conflictsAtStart[t]
        /\ pending' = TRUE /\ UNCHANGED conflicts
        /\ gate' = [allowed |-> FALSE, why |-> "conflict"]
     \/ /\ ~(req[t] = "ON" /\ mode = "TERRESTRIAL")
        /\ ~(req[t] = "OFF" /\ conflicts # conflictsAtStart[t])
        /\ pending' = IF mode = "TERRESTRIAL" /\ req[t] = "OFF"
                        THEN result[t] = "busy" ELSE pending
        /\ gate' = GateFor(t) /\ UNCHANGED conflicts
  /\ Goto(t, "idle")
  /\ UNCHANGED <<mode, mountVars, lock, req, conflictsAtStart, result, budget>>

-----------------------------------------------------------------------------
Step(t) ==
  \/ EnforceMode(t) \/ Remember(t) \/ VerifyBegin(t) \/ Read(t)
  \/ CommandBegin(t) \/ CommandEnd(t) \/ Reread(t) \/ Settle(t)

Next ==
  \/ Connect \/ Disconnect \/ MotionBegin \/ MotionEnd
  \/ \E md \in Mode : SetMode(md)
  \/ RetryPending
  \/ \E t \in Thread : Enforce(t) \/ Verify(t) \/ Step(t)

Spec == Init /\ [][Next]_vars

\* Threads run on, the timer keeps ticking, an operation on the connection ends (they all have
\* deadlines). The operator and the callers owe nothing.
Fairness ==
  /\ \A t \in Thread : WF_vars(Step(t))
  /\ WF_vars(RetryPending)
  /\ WF_vars(MotionEnd)

FairSpec == Spec /\ Fairness

-----------------------------------------------------------------------------
(* Safety.                                                                   *)

Quiescent == \A t \in Thread : pc[t] = "idle"

\* An "off verified" gate is true when it counts: with no check under way in terrestrial mode
\* the mount does not track behind it, although a tracking-ON request snapshotted before the
\* mode switch may have run concurrently with the check that verified it.
VerifiedOffIsOff ==
  (Quiescent /\ mode = "TERRESTRIAL" /\ available /\ gate.why = "offVerified") => ~tracking

\* The policy fails CLOSED: in terrestrial mode, with no check under way, a mount that tracks
\* never stands behind an open gate.
OpenGateMeansOff ==
  (Quiescent /\ mode = "TERRESTRIAL" /\ available /\ gate.allowed) => ~tracking

(* Liveness.                                                                 *)

\* An owed enforcement is carried out (or withdrawn by leaving terrestrial mode) once the
\* operations that kept the mount busy are over.
OwedIsCarriedOut == pending ~> ~pending

\* A periodic retry never resends a failing command every tick: once callers and operator ask
\* for nothing more, the checks come to an end -- also while every reading may raise.
RetriesEnd == <>[]Quiescent

\* Whatever raced with the switch, a connected mount in terrestrial mode ends up not tracking
\* -- unless the operator leaves the mode or disconnects, a correction did not take (the gate is
\* closed and says so), or a check raised: after that the policy deliberately does not retry.
TerrestrialEndsOff ==
  [](gate.why # "raised") =>
    ((mode = "TERRESTRIAL" /\ available)
       ~> \/ ~tracking \/ mode # "TERRESTRIAL" \/ ~available
          \/ ~gate.allowed /\ gate.why = "failed")
=============================================================================
