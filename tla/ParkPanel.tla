------------------------------ MODULE ParkPanel ------------------------------
(***************************************************************************)
(* Park and Unpark from the Mount panel (ui/mount_park_panel.py): the      *)
(* action under a claim of the motion executor, on a thread of its own     *)
(* where the mount's call returns only at its end (OnStep) and on the GUI  *)
(* thread where it returns at once; the poll that concludes it; the        *)
(* enforcement of the tracking policy that an unpark owes in terrestrial   *)
(* mode; a disconnection and a reconnection meanwhile.                     *)
(***************************************************************************)
EXTENDS Integers

CONSTANT MaxActions   \* bound: actions begun

VARIABLES
  long,     \* the mount's calls last until the movement has ended
  mount,    \* [parked, tracking, goal]: "none" or where a movement in progress ends
  owner,    \* who holds the executor's claim: "none", "panel", "other"
  stopped,  \* the panel's claim was cancelled by the user's Stop
  calls,    \* calls of park() or unpark() in progress on the mount
  panel,    \* the Mount panel
  begun     \* actions begun so far

parkVars == <<long, mount, owner, stopped, calls, panel, begun>>

Actions == {"park", "unpark"}
Idle(p) == [p EXCEPT !.inFlight = FALSE, !.pending = "none"]

-----------------------------------------------------------------------------
\* Park or Unpark, by what the poll last read; none before it, or while an action is in flight.
UpdateButtons(p) ==
  [p EXCEPT !.button = IF ~p.linked \/ p.inFlight THEN "none"
                       ELSE IF mount.parked THEN "unpark" ELSE "park"]

\* Tracking is switched off in terrestrial mode; where that fails the measurement is blocked.
EnforceTracking(p) ==
  \/ mount' = [mount EXCEPT !.tracking = FALSE] /\ panel' = UpdateButtons(p)
  \/ mount' = mount /\ panel' = UpdateButtons([p EXCEPT !.blocked = TRUE])

\* An action that has succeeded; an unpark is followed by the policy.
Conclude(p) ==
  IF panel.pending = "unpark" THEN EnforceTracking(p)
  ELSE mount' = mount /\ panel' = UpdateButtons(p)

\* MUTANT (of ObserveTransition): the timeout is looked at only once the mount is read to be at
\* rest, so an action that never gets there stays in flight.
ObserveAtRest(p, read, expired) ==
  LET busy == read /\ mount.parked # (p.pending = "park")
  IN  IF p.inFlight /\ read /\ ~busy /\ p.seen THEN Conclude([Idle(p) EXCEPT !.said = p.pending])
      ELSE /\ mount' = mount
           /\ panel' = UpdateButtons(
                         IF p.inFlight /\ read /\ ~busy /\ expired
                         THEN [Idle(p) EXCEPT !.said = "timeout"]
                         ELSE [p EXCEPT !.seen = @ \/ (p.inFlight /\ busy)])

\* One poll's look at an action whose call returned at once: busy, then at rest. A reading that
\* failed only knows the timeout.
ObserveTransition(p, read, expired) ==
  LET busy == read /\ mount.parked # (p.pending = "park")
  IN  IF p.inFlight /\ read /\ ~busy /\ p.seen THEN Conclude([Idle(p) EXCEPT !.said = p.pending])
      ELSE /\ mount' = mount
           /\ panel' = UpdateButtons(
                         IF p.inFlight /\ expired THEN [Idle(p) EXCEPT !.said = "timeout"]
                         ELSE [p EXCEPT !.seen = @ \/ (p.inFlight /\ busy)])

\* The end of a call made on a thread: stopped, failed or done, in this order.
ObserveWorker(p) ==
  LET settled == [Idle(p) EXCEPT !.worker = "none"]
  IN  CASE stopped -> mount' = mount /\ panel' = UpdateButtons([settled EXCEPT !.said = "stopped"])
        [] ~stopped /\ p.failed ->
             mount' = mount /\ panel' = UpdateButtons([settled EXCEPT !.said = "failed"])
        [] OTHER -> Conclude([settled EXCEPT !.said = p.pending])

PollOnce(p, expired) ==
  CASE p.worker = "alive" -> mount' = mount /\ panel' = UpdateButtons(p)
    [] p.worker = "dead" -> ObserveWorker(p)
    [] p.worker = "none" -> ObserveTransition(p, TRUE, expired)

PollStatus ==
  /\ panel.linked
  /\ \E expired \in BOOLEAN :
       \/ PollOnce(panel, expired)
       \/ /\ panel.worker = "none" /\ ObserveTransition(panel, FALSE, expired)
  /\ UNCHANGED <<long, owner, stopped, calls, begun>>

-----------------------------------------------------------------------------
\* claim(): refused while any motion runs.
Free == owner = "none"

\* A click: the call begins under the claim; refused, the status text says so and nothing else.
BeginAction(a) ==
  /\ panel.button = a /\ Free /\ begun < MaxActions
  /\ begun' = begun + 1 /\ stopped' = FALSE
  /\ panel' = [panel EXCEPT !.inFlight = TRUE, !.pending = a, !.seen = FALSE, !.failed = FALSE,
                            !.said = "none", !.button = "none",
                            !.worker = IF long THEN "alive" ELSE @]
  /\ mount' = [mount EXCEPT !.goal = a]
  /\ IF long THEN owner' = "panel" /\ calls' = calls + 1 ELSE UNCHANGED <<owner, calls>>
  /\ UNCHANGED long

\* The mount arrives. It may resume tracking when unparked.
Arrive ==
  /\ mount.goal # "none"
  /\ \E tracking \in IF mount.goal = "unpark" THEN BOOLEAN ELSE {FALSE} :
       mount' = [parked |-> mount.goal = "park", tracking |-> tracking, goal |-> "none"]
  /\ UNCHANGED <<long, owner, stopped, calls, panel, begun>>

\* The call returns: arrived, or with an error -- the mount did not confirm, or was stopped.
RunAction ==
  /\ calls > 0 /\ calls' = calls - 1
  /\ \E failed \in BOOLEAN :
       /\ ~failed => mount.goal = "none"
       /\ panel' = [panel EXCEPT !.worker = "dead", !.failed = failed]
  /\ mount' = [mount EXCEPT !.goal = "none"]
  /\ owner' = "none"
  /\ UNCHANGED <<long, stopped, begun>>

\* Another motion claims the executor, and releases it.
OtherMotion ==
  /\ owner' = CASE owner = "none" -> "other" [] owner = "other" -> "none" [] OTHER -> owner
  /\ owner # "panel"
  /\ UNCHANGED <<long, mount, stopped, calls, panel, begun>>

\* Stop: the executor cancels the claim of the action in progress.
StopMotion ==
  /\ owner = "panel" /\ stopped' = TRUE
  /\ UNCHANGED <<long, mount, owner, calls, panel, begun>>

-----------------------------------------------------------------------------
\* Connecting forgets the action in flight, enforces the policy and polls; it may fail. A worker
\* of before is kept: it may still hold the mount.
Connect ==
  /\ ~panel.linked
  /\ \/ UNCHANGED <<mount, panel>>
     \/ LET p == [Idle(panel) EXCEPT !.linked = TRUE, !.said = "none", !.blocked = FALSE,
                                     !.worker = IF @ = "dead" THEN "none" ELSE @]
        IN  EnforceTracking(p)
  /\ UNCHANGED <<long, owner, stopped, calls, begun>>

\* Disconnecting forgets the action, which goes on.
Disconnect ==
  /\ panel.linked
  /\ panel' = UpdateButtons([Idle(panel) EXCEPT !.linked = FALSE, !.said = "none"])
  /\ UNCHANGED <<long, mount, owner, stopped, calls, begun>>

-----------------------------------------------------------------------------
ParkInit ==
  /\ long \in BOOLEAN
  /\ mount \in [parked : BOOLEAN, tracking : {FALSE}, goal : {"none"}]
  /\ owner = "none" /\ stopped = FALSE /\ calls = 0 /\ begun = 0
  /\ panel = [linked |-> FALSE, inFlight |-> FALSE, pending |-> "none", seen |-> FALSE,
              worker |-> "none", failed |-> FALSE, button |-> "none", said |-> "none",
              blocked |-> FALSE]

ParkNext ==
  \/ PollStatus \/ Arrive \/ RunAction \/ OtherMotion \/ StopMotion \/ Connect \/ Disconnect
  \/ \E a \in Actions : BeginAction(a)

\* The calls return -- the client's confirmations time out -- and the poll's timer is served, in
\* the end past the panel's own timeout.
ParkFairness ==
  /\ WF_parkVars(RunAction) /\ WF_parkVars(PollStatus)
  /\ WF_parkVars(panel.inFlight /\ PollStatus /\ ~panel'.inFlight)

ParkSpec == ParkInit /\ [][ParkNext]_parkVars /\ ParkFairness

-----------------------------------------------------------------------------
\* Types of the panel's transition and worker (MountParkPanel).
ParkTypeOK ==
  /\ mount \in [parked : BOOLEAN, tracking : BOOLEAN, goal : Actions \cup {"none"}]
  /\ owner \in {"none", "panel", "other"} /\ calls \in Nat
  /\ panel.worker \in {"none", "alive", "dead"} /\ panel.pending \in Actions \cup {"none"}
  /\ panel.said \in Actions \cup {"none", "stopped", "failed", "timeout"}

\* At most one call moves the mount, and never beside another motion, whatever is disconnected
\* and clicked meanwhile.
OneParkCall == calls <= 1 /\ (calls = 1 => owner = "panel")

\* Once the panel has concluded that an unpark succeeded, the mount does not track, or terrestrial
\* measurements are blocked.
UnparkEnforced ==
  (panel.said = "unpark" /\ begun > 0) => (~mount.tracking \/ panel.blocked)

\* An action is in flight.
ParkPending == panel.linked /\ panel.inFlight
=============================================================================
