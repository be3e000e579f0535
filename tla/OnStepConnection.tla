--------------------------- MODULE OnStepConnection ---------------------------
(***************************************************************************)
(* The one INDI client of the three OnStep shims (onstep/connection.py),   *)
(* their operations under operation_lock, and their readings, which never  *)
(* queue behind an operation: with the lock taken they say what they last  *)
(* read. Connecting, disconnecting and polling are the GUI thread's, one   *)
(* at a time; operations and the readings a decision waits for are         *)
(* workers'. What an operation does to the mount or the focuser is left    *)
(* open; Stop and its worker are MountPulseAdapter's and FocuserAdapter's. *)
(***************************************************************************)
EXTENDS Integers, FiniteSets

CONSTANTS
  Workers,      \* threads that operate, or decide on a reading
  LateReads,    \* a shim may be disconnected while a worker's reading is under way
  MaxOpens,     \* bound: attempts to open the client
  MaxOperations \* bound: operations and decisions

Shims == {"pulse", "park", "focuser"}
NoClient == 0

VARIABLES
  client, opened, closed, \* the live client; clients opened so far and those closed again
  users,                  \* _users
  held,                   \* _held of each shim
  last,                   \* _last_status of each shim
  lock,                   \* who holds operation_lock: {} or one worker
  driving,                \* _moving of the focuser, _goto_in_flight of the pulse shim
  worker,                 \* what each worker is in; a reading of a session that has ended since
  flaws,                  \* history: what the last answer of a shim got wrong
  operations

connectionVars == <<client, opened, closed, users, held, last, lock, driving, worker, flaws,
                    operations>>
clientVars == <<client, opened, closed, users, held>>

NotRead == [known |-> FALSE, moves |-> FALSE, old |-> FALSE]
Readings == [known : BOOLEAN, moves : BOOLEAN, old : BOOLEAN]
Resting == [at |-> "idle", shim |-> "park", late |-> FALSE]
Places == {"idle", "queued", "entered", "commanded", "deciding", "reading"}
Threads == [at : Places, shim : Shims, late : BOOLEAN]
Flaws == {"midOperation", "restless", "oldSession"}

\* Types of the attributes (connection.py); ClientShared says what users counts.
ConnectionTypeOK ==
  /\ client \in Nat /\ opened \in Nat /\ closed \in SUBSET (1 .. opened) /\ client <= opened
  /\ held \in SUBSET Shims
  /\ last \in [Shims -> Readings]
  /\ lock \in SUBSET Workers
  /\ driving \in SUBSET Shims
  /\ worker \in [Workers -> Threads]
  /\ flaws \in SUBSET Flaws /\ operations \in Nat

\* _mount(), _focuser(): the live client, for a shim that holds it.
Mount(s) == s \in held /\ client # NoClient

\* The controller executes a move of this shim.
Moves(s) == s # "park" /\ \E t \in Workers : worker[t].at = "commanded" /\ worker[t].shim = s

\* Somebody operates the controller (who reads it then is another thread).
MidOperation == \E u \in Workers : worker[u].at \in {"entered", "commanded"}

-------------------------------------------------------------------------------
(* The connection: opened by the first shim, closed by the last.             *)

\* connect(): shares the live client or opens one.
Connect(s) ==
  /\ s \notin held /\ held' = held \cup {s}
  /\ users' = users + 1
  /\ IF client = NoClient THEN opened < MaxOpens /\ opened' = opened + 1 /\ client' = opened'
     ELSE UNCHANGED <<client, opened>>
  /\ UNCHANGED <<closed, last, lock, driving, worker, flaws, operations>>

\* The controller cannot be reached: the client is closed again, nobody counted.
ConnectFails(s) ==
  /\ s \notin held /\ client = NoClient /\ opened < MaxOpens
  /\ opened' = opened + 1 /\ closed' = closed \cup {opened'}
  /\ UNCHANGED <<client, users, held, last, lock, driving, worker, flaws, operations>>

\* release(): the last user closes the client.
Release ==
  /\ users' = users - 1
  /\ client' = IF users' = 0 THEN NoClient ELSE client
  /\ closed' = IF users' = 0 THEN closed \cup ({client} \ {NoClient}) ELSE closed
  /\ UNCHANGED opened

\* disconnect(): the shim's reading goes with it. Nothing waits for a worker
\* that is reading at that moment.
Disconnect(s) ==
  /\ s \in held /\ held' = held \ {s}
  /\ LateReads \/ ~\E t \in Workers : worker[t].at = "reading" /\ worker[t].shim = s
  /\ last' = [last EXCEPT ![s] = NotRead]
  /\ worker' = [t \in Workers |->
       [worker[t] EXCEPT !.late = @ \/ (worker[t].at = "reading" /\ worker[t].shim = s)]]
  /\ Release
  /\ UNCHANGED <<lock, driving, flaws, operations>>

-------------------------------------------------------------------------------
(* Readings                                                                  *)

\* What is wrong with the answer a shim gives.
Answered(s, available, fresh, moves, old) ==
  flaws' = {f \in Flaws : \/ f = "midOperation" /\ fresh /\ MidOperation
                          \/ f = "restless" /\ available /\ ~moves /\ Moves(s)
                          \/ f = "oldSession" /\ available /\ old}

\* The controller is read. A focuser may be seen moving by another hand.
TakeReading(s, old) ==
  \E moves \in BOOLEAN :
    /\ IF s = "focuser" THEN Moves(s) => moves ELSE moves = Moves(s)
    /\ last' = [last EXCEPT ![s] = [known |-> TRUE, moves |-> moves, old |-> old]]
    /\ Answered(s, TRUE, TRUE, moves, old)

\* The lock is taken: the last reading, moving whatever its own move does.
HeldOver(s) ==
  LET available == Mount(s) /\ last[s].known
  IN  /\ Answered(s, available, FALSE, last[s].moves \/ s \in driving, last[s].old)
      /\ UNCHANGED last

\* status() on the GUI thread. A reading that raises is dropped by the focuser,
\* and reaches the panel from the others.
Poll(s) ==
  /\ s \in held
  /\ IF lock = {}
     THEN \/ TakeReading(s, FALSE)
          \/ /\ last' = IF s = "focuser" THEN [last EXCEPT ![s] = NotRead] ELSE last
             /\ flaws' = {}
     ELSE HeldOver(s)
  /\ UNCHANGED <<clientVars, lock, driving, worker, operations>>

\* decision_status() on a worker: the park shim's reading, waited for a while.
Decide(t) ==
  /\ worker[t].at = "idle" /\ operations < MaxOperations /\ operations' = operations + 1
  /\ worker' = [worker EXCEPT ![t] = [Resting EXCEPT !.at = "deciding"]]
  /\ UNCHANGED <<clientVars, last, lock, driving, flaws>>

\* The lock is free: it reads, if the shim is connected.
EnterReading(t) ==
  /\ worker[t].at = "deciding" /\ lock = {}
  /\ IF Mount("park") THEN lock' = {t} /\ worker' = [worker EXCEPT ![t].at = "reading"]
     ELSE UNCHANGED lock /\ worker' = [worker EXCEPT ![t] = Resting]
  /\ UNCHANGED <<clientVars, last, driving, flaws, operations>>

\* The wait is over, the lock still taken.
DecideOnHeldOver(t) ==
  /\ worker[t].at = "deciding" /\ lock # {}
  /\ HeldOver("park")
  /\ worker' = [worker EXCEPT ![t] = Resting]
  /\ UNCHANGED <<clientVars, lock, driving, operations>>

\* The reading is there, or raises.
ReadingEnds(t) ==
  /\ worker[t].at = "reading" /\ lock' = {}
  /\ TakeReading("park", worker[t].late) \/ UNCHANGED <<last, flaws>>
  /\ worker' = [worker EXCEPT ![t] = Resting]
  /\ UNCHANGED <<clientVars, driving, operations>>

-------------------------------------------------------------------------------
(* Operations                                                                *)

\* A worker is asked for an operation of a connected shim.
Request(t, s) ==
  /\ worker[t].at = "idle" /\ s \in held
  /\ operations < MaxOperations /\ operations' = operations + 1
  /\ worker' = [worker EXCEPT ![t] = [Resting EXCEPT !.at = "queued", !.shim = s]]
  /\ UNCHANGED <<clientVars, last, lock, driving, flaws>>

\* It has the connection. A shim disconnected meanwhile sends nothing.
EnterOperation(t) ==
  /\ worker[t].at = "queued" /\ lock = {}
  /\ IF Mount(worker[t].shim)
     THEN lock' = {t} /\ worker' = [worker EXCEPT ![t].at = "entered"]
     ELSE UNCHANGED lock /\ worker' = [worker EXCEPT ![t] = Resting]
  /\ UNCHANGED <<clientVars, last, driving, flaws, operations>>

\* The command goes out, marked first by the shims that move something.
Command(t) ==
  /\ worker[t].at = "entered"
  /\ worker' = [worker EXCEPT ![t].at = "commanded"]
  /\ driving' = driving \cup ({worker[t].shim} \ {"park"})
  /\ UNCHANGED <<clientVars, last, lock, flaws, operations>>

\* It is refused before, or done, or raises: the lock comes back in each case.
OperationEnds(t) ==
  /\ worker[t].at \in {"entered", "commanded"} /\ lock' = {}
  /\ worker' = [worker EXCEPT ![t] = Resting]
  /\ driving' = driving \ {worker[t].shim}
  /\ UNCHANGED <<clientVars, last, flaws, operations>>

-------------------------------------------------------------------------------
ConnectionInit ==
  /\ client = NoClient /\ opened = 0 /\ closed = {} /\ users = 0 /\ held = {}
  /\ last = [s \in Shims |-> NotRead]
  /\ lock = {} /\ driving = {}
  /\ worker = [t \in Workers |-> Resting] /\ flaws = {} /\ operations = 0

WorkerStep(t) ==
  \/ EnterReading(t) \/ DecideOnHeldOver(t) \/ ReadingEnds(t)
  \/ EnterOperation(t) \/ Command(t) \/ OperationEnds(t)

ConnectionNext ==
  \/ \E s \in Shims : Connect(s) \/ ConnectFails(s) \/ Disconnect(s) \/ Poll(s)
  \/ \E t \in Workers : Decide(t) \/ WorkerStep(t) \/ \E s \in Shims : Request(t, s)

\* Workers run on; who holds the lock gives it back however the others wait for it.
ConnectionFairness == \A t \in Workers : WF_connectionVars(WorkerStep(t))

ConnectionSpec == ConnectionInit /\ [][ConnectionNext]_connectionVars /\ ConnectionFairness

-------------------------------------------------------------------------------
(* Properties                                                                *)

\* One client at most is open, exactly while a shim holds it; a failed open
\* leaves none behind (OnStepConnection.acquire, release).
ClientShared ==
  /\ (1 .. opened) \ closed = {client} \ {NoClient}
  /\ users = Cardinality(held) /\ (client = NoClient <=> held = {})

\* What a shim answers: never from the middle of another thread's operation;
\* at rest only if none of its own moves is on its way; and what is held over
\* was read in this session of the shim (the shims' status()).
AnswersHonest == flaws = {}

\* Somebody holds operation_lock: a worker that must give it back.
LockTaken == lock # {}
===============================================================================
