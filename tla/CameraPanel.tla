----------------------------- MODULE CameraPanel -----------------------------
(***************************************************************************)
(* One camera panel (ui/camera_panel.py), its camera adapters (camera/     *)
(* touptek_adapter.py) opened, switched and released through session/      *)
(* device_connection.py, and the capture threads of acquisition/           *)
(* stream_controller.py.                                                   *)
(*                                                                         *)
(* Callbacks of the GUI thread are atomic, except that stopping a stream   *)
(* blocks in the join of its thread. Adapter 1 is the demo camera. What a  *)
(* frame shows, and the polls that only draw it, change nothing here.      *)
(***************************************************************************)
EXTENDS Integers, Sequences, FiniteSets

CONSTANTS
  Devices,     \* the real cameras on the bus
  MaxCams,     \* bound: adapters created, the demo camera's included
  MaxStreams   \* bound: streams started

VARIABLES
  cams,      \* adapters: device, SDK handle ("dead": closed, but still referenced), abort flag
  tec,       \* each device's cooler: "off", "on", or "left" on, against the last word sent to it
  camera,    \* the panel's adapter
  cooling,   \* the panel's "Cooling" box
  stream,    \* the running stream, 0 when stopped
  threads,   \* one capture thread per stream
  joining,   \* the thread the GUI is waiting for
  quit       \* the application is closing

hardware == <<cams, tec>>
panel == <<camera, cooling, stream, joining, quit>>
camVars == <<cams, tec, panel, threads>>

Demo == 1
Adapter(dev) == [dev |-> dev, handle |-> "none", abort |-> FALSE]
Thread(c) == [cam |-> c, at |-> "loop", stop |-> FALSE, error |-> FALSE]
Idle == ~quit /\ joining = 0

-----------------------------------------------------------------------------
(* Opening and releasing a device: what each may leave, as [ok, cams, tec].   *)

Result(ok, handles, coolers) == [ok |-> ok, cams |-> handles, tec |-> coolers]

\* A cooler is switched by an SDK call whose failure is only logged (_sdk_call), and which
\* reaches no device without an open handle: told to stop, a cooler that ran is off or left on.
TurnedOff(handles, coolers, c) ==
  {[d \in Devices |-> IF d = handles[c].dev /\ coolers[d] # "off" THEN after ELSE coolers[d]] :
     after \in IF handles[c].handle = "open" THEN {"off", "left"} ELSE {"left"}}

TurnedOn(handles, coolers, c) ==
  {coolers} \cup {[coolers EXCEPT ![handles[c].dev] = "on"] :
                    x \in {k \in {c} : handles[c].handle = "open"}}

\* A device is open now and its cooler told to stop, whoever left it on; a step of its
\* configuration may still fail, which leaves no handle.
Configured(handles, coolers, c) ==
  LET opened == [handles EXCEPT ![c].handle = "open"]
  IN  UNION {{Result(TRUE, opened, after), Result(FALSE, handles, after)} :
               after \in TurnedOff(opened, coolers, c)}

\* A handle is opened unless there is one (a dead one passes for open). The SDK refuses a device
\* that is open elsewhere, and may fail to open any.
MayOpen(handles, c) ==
  c # Demo => ~\E d \in DOMAIN handles :
                handles[d].dev = handles[c].dev /\ handles[d].handle = "open"

Opened(handles, coolers, c) ==
  IF handles[c].handle # "none" THEN {Result(TRUE, handles, coolers)}
  ELSE {Result(FALSE, handles, coolers)} \cup
       (IF MayOpen(handles, c) THEN Configured(handles, coolers, c) ELSE {})

\* MUTANT (of Closed): the handle is closed before the cooler is told to stop.
ClosedFirst(handles, coolers, c) ==
  IF handles[c].handle = "none" THEN {Result(TRUE, handles, coolers)}
  ELSE {Result(TRUE, [handles EXCEPT ![c].handle = "none"], coolers)}

\* Disconnect tells the cooler to stop and closes the handle; where the SDK raises on the way
\* the handle is closed all the same, but the reference stays.
Closed(handles, coolers, c) ==
  IF handles[c].handle = "none" THEN {Result(TRUE, handles, coolers)}
  ELSE {Result(ok, [handles EXCEPT ![c].handle = IF ok THEN "none" ELSE "dead"], after) :
          ok \in {k \in BOOLEAN : k \/ c # Demo}, after \in TurnedOff(handles, coolers, c)}

\* MUTANT (of OpenDevice): a device that fails its check is not released again.
OpenDeviceLeaking(handles, coolers, c) ==
  {[r EXCEPT !.ok = @ /\ verified] : r \in Opened(handles, coolers, c), verified \in BOOLEAN}

\* CONNECT, then START or WAIT (which may fail); a failure releases the device again.
OpenDevice(handles, coolers, c) ==
  LET tried == Opened(handles, coolers, c)
  IN  {r \in tried : r.ok} \cup
      UNION {{[h EXCEPT !.ok = FALSE] : h \in Closed(r.cams, r.tec, c)} : r \in tried}

\* The hardware after one of these results.
Becomes(result) == cams' = result.cams /\ tec' = result.tec

\* The abort flag of a running capture is set.
Aborted(c) == cams' = [cams EXCEPT ![c].abort = TRUE]

-----------------------------------------------------------------------------
(* The operator, on the GUI thread.                                          *)

CInit ==
  /\ cams = <<Adapter("demo")>> /\ camera = Demo /\ cooling = FALSE
  /\ tec \in [Devices -> {"off", "left"}]      \* a crashed session may have left a cooler on
  /\ stream = 0 /\ threads = <<>> /\ joining = 0 /\ quit = FALSE

\* The camera is opened and a new stream's thread started, or the failure shown.
StartStream ==
  /\ Idle /\ stream = 0 /\ Len(threads) < MaxStreams
  /\ \E r \in OpenDevice(cams, tec, camera) :
       /\ Becomes(r)
       /\ IF r.ok THEN threads' = Append(threads, Thread(camera)) /\ stream' = Len(threads) + 1
          ELSE UNCHANGED <<threads, stream>>
  /\ UNCHANGED <<camera, cooling, joining, quit>>

\* The stream is dropped, then its stop event set; the GUI waits for its thread.
EndStream(leaving) ==
  /\ threads' = IF stream = 0 THEN threads ELSE [threads EXCEPT ![stream].stop = TRUE]
  /\ joining' = stream /\ stream' = 0 /\ quit' = leaving

\* The operator stops the stream; or a poll finds that its thread died.
StopStream ==
  /\ Idle /\ stream # 0
  /\ EndStream(FALSE) /\ Aborted(threads[stream].cam)
  /\ UNCHANGED <<tec, camera, cooling>>

\* The thread has ended, or the wait for it has (10 s), which only happens where no abort is
\* pending: the capture it met was just clearing the flag. Quitting then releases the camera.
JoinEnds ==
  /\ joining # 0
  /\ threads[joining].at = "done" \/ ~cams[threads[joining].cam].abort
  /\ joining' = 0
  /\ \E r \in IF quit THEN Closed(cams, tec, camera) ELSE {Result(TRUE, cams, tec)} : Becomes(r)
  /\ UNCHANGED <<camera, cooling, stream, threads, quit>>

\* The panel takes a camera; its controls start with cooling off.
Activate(c) == camera' = c /\ cooling' = FALSE

\* To the demo camera: the previous one is released, failing or not.
SwitchToDemo ==
  /\ Idle /\ stream = 0
  /\ \E r \in Closed(cams, tec, camera) : Becomes(r)
  /\ Activate(Demo)
  /\ UNCHANGED <<stream, joining, quit, threads>>

\* What releasing the previous camera, then opening a new adapter of dev may leave.
Candidates(dev) ==
  UNION {OpenDevice(Append(r.cams, Adapter(dev)), r.tec, Len(r.cams) + 1) :
           r \in Closed(cams, tec, camera)}

\* A failed switch: the previous device is opened again; failing that, the demo camera is.
Restore(failed) ==
  IF camera = Demo THEN Becomes(failed) /\ UNCHANGED <<camera, cooling>>
  ELSE \E old \in OpenDevice(failed.cams, failed.tec, camera) :
         Becomes(old) /\ Activate(IF old.ok THEN camera ELSE Demo)

\* To a device: the previous camera is released, an adapter created and opened, its identity
\* checked.
SwitchCamera ==
  /\ Idle /\ stream = 0 /\ Len(cams) < MaxCams
  /\ \E dev \in Devices : \E new \in Candidates(dev) :
       IF new.ok THEN Becomes(new) /\ Activate(Len(new.cams)) ELSE Restore(new)
  /\ UNCHANGED <<stream, joining, quit, threads>>

\* The cooler of c is switched, or not (see TurnedOff); without a handle there is none to switch.
SetCooling(c, on) ==
  tec' \in IF cams[c].handle = "none" THEN {tec}
            ELSE IF on THEN TurnedOn(cams, tec, c) ELSE TurnedOff(cams, tec, c)

\* The "Cooling" box.
ToggleCooling ==
  /\ Idle /\ camera # Demo
  /\ cooling' = ~cooling /\ SetCooling(camera, ~cooling)
  /\ UNCHANGED <<cams, camera, stream, joining, quit, threads>>

\* The application closes: the stream is stopped, then the camera released.
Quit ==
  /\ Idle /\ EndStream(TRUE)
  /\ IF stream = 0 THEN \E r \in Closed(cams, tec, camera) : Becomes(r)
     ELSE Aborted(threads[stream].cam) /\ tec' = tec
  /\ UNCHANGED <<camera, cooling>>

-----------------------------------------------------------------------------
(* Capture threads.                                                          *)

Reach(t, at) == threads' = [threads EXCEPT ![t].at = at]

\* The loop's check of the stop event.
ThreadChecks(t) ==
  /\ threads[t].at = "loop"
  /\ Reach(t, IF threads[t].stop THEN "done" ELSE "entering")
  /\ UNCHANGED <<hardware, panel>>

\* A capture begins: the adapter's capture lock is free, its flags are drained (also an abort
\* that came since the check above), the exposure triggered.
ThreadTriggers(t) ==
  /\ threads[t].at = "entering" /\ cams[threads[t].cam].handle = "open"
  /\ \A u \in DOMAIN threads : threads[u].at = "exposing" => threads[u].cam # threads[t].cam
  /\ cams' = [cams EXCEPT ![threads[t].cam].abort = FALSE]
  /\ Reach(t, "exposing")
  /\ UNCHANGED <<tec, panel>>

\* The frame arrives and goes to the stream's mailbox.
ThreadDelivers(t) ==
  /\ threads[t].at = "exposing" /\ cams[threads[t].cam].handle = "open"
  /\ Reach(t, "loop")
  /\ UNCHANGED <<hardware, panel>>

\* The abort flag is seen: it is cleared and the thread ends.
ThreadAborts(t) ==
  /\ threads[t].at = "exposing" /\ cams[threads[t].cam].abort
  /\ cams' = [cams EXCEPT ![threads[t].cam].abort = FALSE]
  /\ Reach(t, "done")
  /\ UNCHANGED <<tec, panel>>

\* Not connected, camera busy, no frame in time, trigger failed: the thread ends with an error.
ThreadFails(t) ==
  /\ threads[t].at \in {"entering", "exposing"}
  /\ threads' = [threads EXCEPT ![t].at = "done", ![t].error = TRUE]
  /\ UNCHANGED <<hardware, panel>>

\* A poll takes the error of its dead thread, once, and stops the stream.
PollError ==
  /\ Idle /\ stream # 0 /\ threads[stream].error
  /\ threads' = [threads EXCEPT ![stream].error = FALSE, ![stream].stop = TRUE]
  /\ stream' = 0 /\ Aborted(threads[stream].cam)
  /\ UNCHANGED <<tec, camera, cooling, joining, quit>>

-----------------------------------------------------------------------------
ThreadStep(t) == \/ ThreadChecks(t) \/ ThreadTriggers(t) \/ ThreadDelivers(t)
                 \/ ThreadAborts(t) \/ ThreadFails(t)

CNext ==
  \/ StartStream \/ StopStream \/ JoinEnds \/ SwitchToDemo \/ SwitchCamera
  \/ ToggleCooling \/ Quit \/ PollError
  \/ \E t \in DOMAIN threads : ThreadStep(t)

\* Threads run and every exposure ends, with a frame, an error or an abort.
CFairness == \A t \in 1 .. MaxStreams : WF_camVars(t \in DOMAIN threads /\ ThreadStep(t))

CSpec == CInit /\ [][CNext]_camVars /\ CFairness

-----------------------------------------------------------------------------
(* Properties.                                                               *)

\* Types of the adapters, their handles and the stream threads (TouptekCameraAdapter).
CTypeOK ==
  /\ \A c \in DOMAIN cams : cams[c] \in [dev : Devices \cup {"demo"}, abort : BOOLEAN,
                                         handle : {"none", "open", "dead"}]
  /\ tec \in [Devices -> {"off", "on", "left"}]
  /\ camera \in DOMAIN cams /\ cooling \in BOOLEAN /\ quit \in BOOLEAN
  /\ {stream, joining} \subseteq 0 .. Len(threads)
  /\ \A t \in DOMAIN threads : threads[t].at \in {"loop", "entering", "exposing", "done"}

\* Whatever fails while cameras are opened, checked, switched and restored, only the panel's own
\* camera has an open handle (a second open of a device is refused by the SDK), and no handle is
\* open once the application has closed. A cooler the program switched on runs on that open
\* camera and is shown as on, unless a later call to stop it was lost: no path forgets the call.
\* (disconnect() says it never leaves a cooler running; a lost call is "left".)
CamerasReleased ==
  /\ \A c \in DOMAIN cams : cams[c].handle = "open" => c = camera
  /\ \A d \in Devices : tec[d] = "on" =>
       cooling /\ cams[camera].dev = d /\ cams[camera].handle = "open"
  /\ quit /\ joining = 0 => \A c \in DOMAIN cams : cams[c].handle # "open"

\* A camera goes on exposing for nobody: the thread of a stream that is no longer the panel's.
ExposesForNobody == \E t \in DOMAIN threads : stream # t /\ threads[t].at # "done"
=============================================================================
