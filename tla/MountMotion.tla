---------------------------- MODULE MountMotion ----------------------------
(***************************************************************************)
(* The one-motion-at-a-time executor                                       *)
(* (apps/collimation_tool/application/mount_motion.py) with the workflows  *)
(* that claim it: axis workflows -- Mount Align's runner                   *)
(* (ui/mount_test_move_runner.py) and the reacquisition                    *)
(* (application/star_acquisition.py) -- and park workflows, the Mount      *)
(* panel's Park and Unpark (ui/mount_park_panel.py). Below them, reduced   *)
(* to what they see of it, the shim of MountPulseAdapter: the Stop latch,  *)
(* operation_lock and the emergency stop that is sent without it.          *)
(*                                                                         *)
(* Each workflow has at most one worker thread (its own busy flag).        *)
(***************************************************************************)
EXTENDS Integers

CONSTANTS
  AxisOwner,   \* workflows that send angular moves or guide pulses
  ParkOwner,   \* workflows that send a park slew or an unpark
  MaxClaims,   \* bound: motions claimed in one behaviour
  MaxSteps     \* the moves of one sequence

Owner == AxisOwner \cup ParkOwner

ASSUME OwnersAssumption ==
  AxisOwner \cap ParkOwner = {} /\ {"free", "other"} \cap Owner = {}
ASSUME BoundsAssumption == MaxClaims \in Nat /\ MaxSteps \in Nat

NoClaim == 0

VARIABLES
  claim,      \* MountMotionExecutor._claim: the number of the claim in flight, or NoClaim
  claims,     \* claims accepted so far
  cancelled,  \* the claims whose cancel event is set
  pc,         \* each workflow's worker
  mine,       \* the claim its worker runs under
  steps,      \* the moves it has left
  latch,      \* OnStepMountPulseAdapter._cancel
  lock,       \* owner of operation_lock
  parked,     \* the controller is parked
  axis,       \* the claim whose move the controller executes, 0 at rest
  stopOwed    \* an emergency stop is to be sent for the moves of claims up to this one

workVars == <<pc, mine, steps>>
vars == <<claim, claims, cancelled, workVars, latch, lock, parked, axis, stopOwed>>

\* Where a workflow's worker stands; a park or unpark has no preflight,
\* sequence or settle of its own.
Pc == {"idle", "preflight", "unparking", "checking", "queued", "entered", "moving", "arrived",
       "failed", "settling", "releasing"}

\* Types of the executor's claim and of the workers' places (mount_motion.py).
TypeOK ==
  /\ claims \in 0 .. MaxClaims
  /\ claim \in 0 .. MaxClaims
  /\ cancelled \subseteq 1 .. MaxClaims
  /\ pc \in [Owner -> Pc]
  /\ mine \in [Owner -> 0 .. MaxClaims]
  /\ steps \in [Owner -> 0 .. MaxSteps]
  /\ latch \in BOOLEAN /\ parked \in BOOLEAN
  /\ lock \in Owner \cup {"free", "other"}
  /\ axis \in 0 .. MaxClaims
  /\ stopOwed \in 0 .. MaxClaims

Init ==
  /\ claim = NoClaim /\ claims = 0 /\ cancelled = {}
  /\ pc = [o \in Owner |-> "idle"]
  /\ mine = [o \in Owner |-> NoClaim]
  /\ steps = [o \in Owner |-> 0]
  /\ latch = FALSE /\ lock = "free" /\ parked \in BOOLEAN
  /\ axis = 0 /\ stopOwed = 0

Goto(o, to) == pc' = [pc EXCEPT ![o] = to]

-----------------------------------------------------------------------------
(* The executor.                                                             *)

\* Where the worker of an accepted claim starts: the Mount panel's Park or Unpark at its
\* adapter call, an axis workflow before its preflight.
FirstStep(o) == IF o \in ParkOwner THEN {"queued", "unparking"} ELSE {"preflight"}

\* MUTANT (of Claim): an accepted claim leaves the latch of an earlier Stop up.
ClaimWithoutRearm(o) ==
  /\ pc[o] = "idle" /\ claim = NoClaim /\ claims < MaxClaims
  /\ claims' = claims + 1 /\ claim' = claims + 1
  /\ mine' = [mine EXCEPT ![o] = claims + 1]
  /\ steps' = [steps EXCEPT ![o] = MaxSteps]
  /\ \E at \in FirstStep(o) : Goto(o, at)
  /\ UNCHANGED <<cancelled, latch, lock, parked, axis, stopOwed>>

\* MUTANT (of Claim): a claim does not look for another motion in flight.
ClaimAlways(o) ==
  /\ pc[o] = "idle" /\ claims < MaxClaims
  /\ claims' = claims + 1 /\ claim' = claims + 1
  /\ mine' = [mine EXCEPT ![o] = claims + 1]
  /\ steps' = [steps EXCEPT ![o] = MaxSteps]
  /\ latch' = FALSE
  /\ \E at \in FirstStep(o) : Goto(o, at)
  /\ UNCHANGED <<cancelled, lock, parked, axis, stopOwed>>

\* Accepted only while nothing is in flight; re-arms the Stop latch in the same critical
\* section. (Refused: nothing is re-armed or sent.)
Claim(o) ==
  /\ pc[o] = "idle" /\ claim = NoClaim /\ claims < MaxClaims
  /\ claims' = claims + 1 /\ claim' = claims + 1
  /\ mine' = [mine EXCEPT ![o] = claims + 1]
  /\ steps' = [steps EXCEPT ![o] = MaxSteps]
  /\ latch' = FALSE
  /\ \E at \in FirstStep(o) : Goto(o, at)
  /\ UNCHANGED <<cancelled, lock, parked, axis, stopOwed>>

\* Ends its own claim only. The worker's finally: also after a crash at any step.
Release(o) ==
  /\ pc[o] = "releasing"
  /\ claim' = IF claim = mine[o] THEN NoClaim ELSE claim
  /\ Goto(o, "idle")
  /\ UNCHANGED <<claims, cancelled, mine, steps, latch, lock, parked, axis, stopOwed>>

\* MUTANT (of MountAbort): the Stop is latched and no emergency stop is sent.
MountAbortLatchOnly == latch' = TRUE /\ stopOwed' = stopOwed

\* Latch the shim's Stop and ask for an emergency stop for every move so far.
MountAbort == latch' = TRUE /\ stopOwed' = claims

\* Mount Align's Stop and quitting the program: cancel what is in flight, stop the mount --
\* also when idle.
Abort ==
  /\ cancelled' = IF claim = NoClaim THEN cancelled ELSE cancelled \cup {claim}
  /\ MountAbort
  /\ UNCHANGED <<claim, claims, workVars, lock, parked, axis>>

\* The global mount Stop (abort_in_flight), and a workflow's own Cancel (abort(owner)):
\* nothing unless a claim (of that owner) is in flight.
AbortInFlight ==
  /\ claim # NoClaim
  /\ cancelled' = cancelled \cup {claim}
  /\ MountAbort
  /\ UNCHANGED <<claim, claims, workVars, lock, parked, axis>>

AbortOwn(o) ==
  /\ claim # NoClaim /\ mine[o] = claim
  /\ AbortInFlight

-----------------------------------------------------------------------------
(* A worker.                                                                 *)

Cancelled(o) == mine[o] \in cancelled

\* Before the first move: the fresh park reading, with Stop checked after it; the tracking
\* gate may refuse, or the worker may crash.
Preflight(o) ==
  /\ pc[o] = "preflight"
  /\ \/ Cancelled(o) /\ Goto(o, "releasing")
     \/ ~Cancelled(o) /\ parked /\ Goto(o, "unparking")
     \/ ~Cancelled(o) /\ ~parked /\ Goto(o, "checking")
     \/ Goto(o, "releasing")
  /\ UNCHANGED <<claim, claims, cancelled, mine, steps, latch, lock, parked, axis, stopOwed>>

\* unpark() is a confirmed switch sequence under operation_lock, not a slew. After it the
\* tracking policy may refuse, or the worker may crash.
Unpark(o) ==
  /\ pc[o] = "unparking" /\ lock = "free"
  /\ parked' \in {parked, FALSE}
  /\ \/ Goto(o, "releasing")
     \/ ~parked' /\ ~Cancelled(o) /\ o \in AxisOwner /\ Goto(o, "checking")
  /\ UNCHANGED <<claim, claims, cancelled, mine, steps, latch, lock, axis, stopOwed>>

\* MUTANT (of NextMove): the sequence runs on past its last move.
NextMoveEndless(o) ==
  /\ pc[o] = "checking"
  /\ \/ Cancelled(o) /\ Goto(o, "releasing") /\ steps' = steps
     \/ ~Cancelled(o) /\ steps' = [steps EXCEPT ![o] = @ - 1] /\ Goto(o, "queued")
  /\ UNCHANGED <<claim, claims, cancelled, mine, latch, lock, parked, axis, stopOwed>>

\* Stop is checked before each move; after the last one the mount settles.
NextMove(o) ==
  /\ pc[o] = "checking"
  /\ \/ Cancelled(o) /\ Goto(o, "releasing") /\ steps' = steps
     \/ ~Cancelled(o) /\ steps[o] = 0 /\ Goto(o, "settling") /\ steps' = steps
     \/ /\ ~Cancelled(o) /\ steps[o] > 0
        /\ steps' = [steps EXCEPT ![o] = @ - 1]
        /\ Goto(o, "queued")
  /\ UNCHANGED <<claim, claims, cancelled, mine, latch, lock, parked, axis, stopOwed>>

\* MUTANT (of Enter): the move does not look at the Stop latch once the connection is its.
EnterUnchecked(o) ==
  /\ pc[o] = "queued" /\ lock = "free"
  /\ lock' = o /\ Goto(o, "entered")
  /\ UNCHANGED <<claim, claims, cancelled, mine, steps, latch, parked, axis, stopOwed>>

\* The connection is the worker's. A move looks at the latch now; a park does not.
Enter(o) ==
  /\ pc[o] = "queued" /\ lock = "free"
  /\ IF latch /\ o \in AxisOwner
       THEN Goto(o, "releasing") /\ lock' = lock
       ELSE Goto(o, "entered") /\ lock' = o
  /\ UNCHANGED <<claim, claims, cancelled, mine, steps, latch, parked, axis, stopOwed>>

Issue(o) ==
  /\ pc[o] = "entered" /\ axis = 0 /\ ~parked
  /\ axis' = mine[o]
  /\ Goto(o, "moving")
  /\ UNCHANGED <<claim, claims, cancelled, mine, steps, latch, lock, parked, stopOwed>>

\* Refused by OnStepAdapter's preflight; a mount already parked answers a park at once.
IssueRefused(o) ==
  /\ pc[o] = "entered"
  /\ Goto(o, "failed")
  /\ UNCHANGED <<claim, claims, cancelled, mine, steps, latch, lock, parked, axis, stopOwed>>

Arrive(o) ==
  /\ pc[o] = "moving" /\ axis = mine[o]
  /\ axis' = 0
  /\ parked' = (o \in ParkOwner)
  /\ Goto(o, "arrived")
  /\ UNCHANGED <<claim, claims, cancelled, mine, steps, latch, lock, stopOwed>>

\* Stopped short or out of time: OnStepAdapter stops the mount, the call raises.
Deadline(o) ==
  /\ pc[o] = "moving"
  /\ axis' = 0
  /\ Goto(o, "failed")
  /\ UNCHANGED <<claim, claims, cancelled, mine, steps, latch, lock, parked, stopOwed>>

\* MUTANT (of Return): a failed call keeps operation_lock.
ReturnHolding(o) ==
  /\ pc[o] \in {"arrived", "failed"}
  /\ lock' = IF pc[o] = "arrived" THEN "free" ELSE lock
  /\ Goto(o, IF pc[o] = "arrived" /\ o \in AxisOwner THEN "checking" ELSE "releasing")
  /\ UNCHANGED <<claim, claims, cancelled, mine, steps, latch, parked, axis, stopOwed>>

\* The call returns and gives operation_lock back: on to the next move, or the end.
Return(o) ==
  /\ pc[o] \in {"arrived", "failed"}
  /\ lock' = "free"
  /\ Goto(o, IF pc[o] = "arrived" /\ o \in AxisOwner THEN "checking" ELSE "releasing")
  /\ UNCHANGED <<claim, claims, cancelled, mine, steps, latch, parked, axis, stopOwed>>

\* The settle time is over, or Stop cut it short.
Settled(o) ==
  /\ pc[o] = "settling"
  /\ Goto(o, "releasing")
  /\ UNCHANGED <<claim, claims, cancelled, mine, steps, latch, lock, parked, axis, stopOwed>>

-----------------------------------------------------------------------------
(* Beside the workers.                                                       *)

\* The stop worker sends its emergency stop without operation_lock, and once more for a
\* covered move it found still in flight -- a park is not one of those (MountPulseAdapter).
StopSent ==
  /\ stopOwed # 0
  /\ axis' = 0
  /\ stopOwed' = IF \E o \in AxisOwner : pc[o] = "entered" /\ mine[o] <= stopOwed
                   THEN stopOwed ELSE 0
  /\ UNCHANGED <<claim, claims, cancelled, workVars, latch, lock, parked>>

\* The focuser's move, or a status poll, on the same connection.
OtherBegin ==
  /\ lock = "free" /\ lock' = "other"
  /\ UNCHANGED <<claim, claims, cancelled, workVars, latch, parked, axis, stopOwed>>

OtherEnd ==
  /\ lock = "other" /\ lock' = "free"
  /\ UNCHANGED <<claim, claims, cancelled, workVars, latch, parked, axis, stopOwed>>

-----------------------------------------------------------------------------
Work(o) ==
  \/ Preflight(o) \/ Unpark(o) \/ NextMove(o) \/ Enter(o) \/ Issue(o) \/ IssueRefused(o)
  \/ Arrive(o) \/ Deadline(o) \/ Return(o) \/ Settled(o) \/ Release(o)

Next ==
  \/ \E o \in Owner : Claim(o) \/ Work(o) \/ AbortOwn(o)
  \/ Abort \/ AbortInFlight \/ StopSent
  \/ OtherBegin \/ OtherEnd

Spec == Init /\ [][Next]_vars

\* Every call and wait of a worker is bounded; the other users of the connection leave it
\* often enough that a waiting worker gets it.
FairSpec ==
  /\ Spec
  /\ \A o \in Owner : WF_vars(Work(o)) /\ SF_vars(Unpark(o)) /\ SF_vars(Enter(o))
  /\ WF_vars(OtherEnd)
  /\ WF_vars(StopSent)

-----------------------------------------------------------------------------
(* Safety.                                                                   *)

\* One motion app-wide: whatever moves is the claim in flight, so no claim ends, and no other
\* begins, while the mount still moves for it.
OneMotion == axis # 0 => axis = claim

\* The latch agrees with the claim: a Stop that is latched was pressed for the motion in
\* flight (it is cancelled, so its waits end too); the Stop of an earlier motion never refuses
\* a new one.
LatchIsOwnStop == (latch /\ claim # NoClaim) => claim \in cancelled

\* A stopped motion whose move is under way has an emergency stop coming.
StopNotLost ==
  \A o \in AxisOwner : (pc[o] = "moving" /\ axis = mine[o] /\ Cancelled(o)) => stopOwed >= axis

\* Once a motion is stopped, whatever its worker waits for -- the park reading, an unpark, its
\* turn in the sequence, the connection, the settle -- the worker's next step is its end: no
\* move of a stopped motion is sent. (An unpark that waits for the connection still
\* unparks the mount: Unpark. What is already past the latch is the emergency stop's: StopNotLost.)
WaitsToGoOn(o) == pc[o] \in {"preflight", "unparking", "checking", "queued", "settling"}

EndsOnceStopped(o) ==
  (WaitsToGoOn(o) /\ Cancelled(o) /\ pc'[o] # pc[o]) => pc'[o] = "releasing"

StoppedMovesNoMore == [][\A o \in AxisOwner : EndsOnceStopped(o)]_vars

\* The global Stop stops whatever moves, a park included, so none begins its
\* move for a stopped claim.
StoppedParkSendsNothing ==
  [][\A o \in ParkOwner : (pc[o] = "queued" /\ pc'[o] = "entered") => ~Cancelled(o)]_vars

\* A worker past its claim runs under the claim in flight.
WorksUnderClaim == \A o \in Owner : pc[o] # "idle" => mine[o] = claim

(* Liveness: a stopped motion ends, whatever its worker was waiting for, and with it the
   claim: the mount is free for the next workflow. *)
StoppedMotionEnds == \A c \in 1 .. MaxClaims : (claim = c /\ c \in cancelled) ~> claim # c

(* For the axis workflows -- the park workflows compete with them for the claim -- the executor
   implements the abstract one. A command counts from the moment the worker owns the connection
   and has looked at the latch. *)
Commanding(o) == pc[o] = "entered" \/ (pc[o] = "moving" /\ axis # 0)

Promise == INSTANCE AbstractMotion WITH
  started <- claims, holder <- claim, stopped <- cancelled,
  moving <- IF \E o \in AxisOwner : Commanding(o) THEN claim ELSE 0

ImplementsPromise == Promise!Spec
=============================================================================
