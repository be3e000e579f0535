------------------------------- MODULE Settings -------------------------------
(***************************************************************************)
(* What the collimation tool remembers between sessions: the cameras and   *)
(* their controls (astrotool_core/config/camera_settings.py), saved by     *)
(* rewriting their tables of a file that also holds the tables the         *)
(* operator edits (mount_alignment_settings.py), and restored when the     *)
(* window opens (ui/camera_panel.py, ui/main_window.py). A session ends    *)
(* at any moment, by closing or by a power loss.                           *)
(***************************************************************************)
EXTENDS Integers, FiniteSets

CONSTANTS
  Devices,      \* the real cameras
  Gains,        \* values of the gain, standing for those of the exposure and the target, too
  DefaultGain,  \* the gain automatic exposure starts from
  TornWrites,   \* whether power may be lost while the file is being written
  MaxSessions   \* bound: sessions

VARIABLES
  file,      \* [cams: panel -> entry, align]: the file
  written,   \* what the operator wrote for the alignment, at the last edit
  panel,     \* panel -> [id, gain, auto]: what the panels show
  found,     \* panel -> what the session found of it: "all", its "controls" but not its camera,
             \* or "nothing" (a save finds all)
  refused,   \* panels that show an exposure their camera refused, since the last save
  align,     \* the alignment settings of the session
  sessions,  \* sessions begun
  open       \* the window is open

settingsVars == <<file, written, panel, found, refused, align, sessions, open>>

Panels == {"main", "guide"}
Demo == "demo"
None == [id |-> "none", gain |-> 0, auto |-> FALSE]
Other(p) == CHOOSE q \in Panels : q # p

-----------------------------------------------------------------------------
(* The file.                                                                 *)

\* load_mount_alignment_settings: a value that is missing or malformed has its default.
LoadAlign == IF file.align = "custom" THEN "custom" ELSE "default"

\* load_camera_settings: of a file that is no TOML any more, wherever it is broken, nothing.
LoadCameras == IF file.align = "broken" THEN [p \in Panels |-> None] ELSE file.cams

\* save_camera_settings: the file is read, the tables of the cameras replaced, the others kept as
\* they are. A write cut off leaves nothing.
Save(p) ==
  \/ file' = [file EXCEPT !.cams = p]
  \/ TornWrites /\ file' = [cams |-> [q \in Panels |-> None], align |-> "missing"]

-----------------------------------------------------------------------------
(* The panels.                                                               *)

\* A camera's own gain when it is connected.
Connected(d) == [id |-> d, gain |-> DefaultGain, auto |-> FALSE]

\* The box, which puts the gain to its default when it is checked.
Toggle(s, on) == IF on /\ ~s.auto THEN [s EXCEPT !.auto = on, !.gain = DefaultGain]
                 ELSE [s EXCEPT !.auto = on]

\* The box is restored before the values it changes.
Controls(s, saved) == [Toggle(s, saved.auto) EXCEPT !.gain = saved.gain]

\* apply_saved_settings, without the saving: the camera if it is listed and opens, else the demo
\* camera; the controls in either case.
Restored(saved, ready) ==
  IF saved = None THEN Connected(Demo)
  ELSE Controls(Connected(IF saved.id \in ready THEN saved.id ELSE Demo), saved)

\* The window opens: the main panel is restored first and its camera leaves the guide's list.
\* Which cameras are there, and open without an error, differs from session to session.
OpenWindow ==
  /\ ~open /\ sessions < MaxSessions
  /\ open' = TRUE /\ sessions' = sessions + 1 /\ align' = LoadAlign
  /\ \E ready \in SUBSET Devices :
       panel' = LET main == Restored(LoadCameras["main"], ready)
                IN  [p \in Panels |-> IF p = "main" THEN main
                                      ELSE Restored(LoadCameras["guide"], ready \ {main.id})]
  /\ found' = [p \in Panels |-> IF LoadCameras[p] = None THEN "nothing"
                                ELSE IF LoadCameras[p].id = panel'[p].id THEN "all" ELSE "controls"]
  /\ refused' = {}
  /\ UNCHANGED <<file, written>>

\* MUTANT (of Changed): only the panel that has changed is saved.
ChangedAlone(p, s) ==
  /\ open /\ panel' = [panel EXCEPT ![p] = s] /\ Save([file.cams EXCEPT ![p] = s])
  /\ found' = [q \in Panels |-> "all"] /\ refused' = {}
  /\ UNCHANGED <<written, align, sessions, open>>

\* What a change shows, and the camera took, is saved with all that both panels show.
Changed(p, s) ==
  /\ open /\ panel' = [panel EXCEPT ![p] = s] /\ Save(panel')
  /\ found' = [q \in Panels |-> "all"] /\ refused' = {}
  /\ UNCHANGED <<written, align, sessions, open>>

\* The camera refuses the exposure the panel already shows: set_exposure_ms raises, before the
\* saving is asked for. (A gain is never refused, see Gains.)
ExposureRefused(p) ==
  /\ open /\ \E g \in Gains \ {panel[p].gain} : panel' = [panel EXCEPT ![p].gain = g]
  /\ refused' = refused \cup {p}
  /\ UNCHANGED <<file, written, found, align, sessions, open>>

\* A camera is connected, be it the one in use, or the demo camera, also where a switch and the
\* return to the previous camera have failed.
ConnectCamera(p) ==
  \E d \in (Devices \ {panel[Other(p)].id}) \cup {Demo} :
    Changed(p, [Connected(d) EXCEPT !.auto = panel[p].auto])

\* The operator or the automatic exposure.
SetGain(p) == \E g \in Gains \ {panel[p].gain} : Changed(p, [panel[p] EXCEPT !.gain = g])

ToggleAuto(p) == Changed(p, Toggle(panel[p], ~panel[p].auto))

\* A session that is over shows and knows nothing.
NoSession(panels, ofThem, without, table) ==
  /\ panels = [p \in Panels |-> Connected(Demo)] /\ ofThem = [p \in Panels |-> "nothing"]
  /\ without = {} /\ table = "default"

\* By closing or by a power loss: nothing is saved.
SessionEnds ==
  /\ open /\ open' = FALSE /\ NoSession(panel', found', refused', align')
  /\ UNCHANGED <<file, written, sessions>>

-----------------------------------------------------------------------------
\* The operator edits the alignment's table, also while the application runs; a slip may leave a
\* value malformed or the whole file unreadable.
Edit ==
  /\ \E a \in {"custom", "malformed", "missing", "broken"} \ {file.align} :
       file' = [file EXCEPT !.align = a] /\ written' = a
  /\ UNCHANGED <<panel, found, refused, align, sessions, open>>

SettingsInit ==
  /\ file = [cams |-> [p \in Panels |-> None], align |-> "missing"] /\ written = "missing"
  /\ sessions = 0 /\ open = FALSE /\ NoSession(panel, found, refused, align)

SettingsNext ==
  \/ OpenWindow \/ SessionEnds \/ Edit
  \/ \E p \in Panels : ConnectCamera(p) \/ SetGain(p) \/ ToggleAuto(p) \/ ExposureRefused(p)

SettingsSpec == SettingsInit /\ [][SettingsNext]_settingsVars

-----------------------------------------------------------------------------
\* Types of the settings kept and shown (CameraPanelSettings).
SettingsTypeOK ==
  /\ \A p \in Panels : /\ panel[p] \in [id : Devices \cup {Demo}, gain : Gains, auto : BOOLEAN]
                       /\ file.cams[p] = None \/ file.cams[p].id \in Devices \cup {Demo}
  /\ file.align \in {"custom", "malformed", "missing", "broken"} /\ align \in {"custom", "default"}

\* What panel p shows, as the file has it: its entry; that of another camera where p's was not
\* there when the session began; or, where no entry could be read, a fresh panel.
Known(p) ==
  IF found[p] = "nothing" THEN Connected(Demo)
  ELSE IF found[p] = "controls" THEN [file.cams[p] EXCEPT !.id = Demo] ELSE file.cams[p]

\* Whenever the session ends, the file holds what the panels show, but for an exposure that the
\* camera refused; right after the start, and until the first change, also but for the camera
\* that was not there and for what could not be read. Never is anything else than what the
\* operator wrote left of the tables the file is shared with, and the panels never restore one
\* camera twice.
Remembered ==
  /\ open => \A p \in Panels :
       \/ panel[p] = Known(p)
       \/ p \in refused /\ panel[p] = [Known(p) EXCEPT !.gain = panel[p].gain]
  /\ file.align = written
  /\ open /\ panel["main"].id = panel["guide"].id => panel["main"].id = Demo
=============================================================================
