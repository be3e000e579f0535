----------------------------- MODULE FilterWheel -----------------------------
(***************************************************************************)
(* A filter wheel: its panel (ui/filter_wheel_panel.py), its adapter       *)
(* (filter_wheel/indi_filter_wheel_adapter.py) and the INDI client below   *)
(* it (indi/client.py), whose reader thread keeps the latest vector the    *)
(* driver sent. Commands and answers travel in order through one           *)
(* connection, which may be lost at any time; the driver answers a command *)
(* with Busy and Ok, or with Alert.                                        *)
(*                                                                         *)
(* Names and texts are left out: what counts is which slots are offered.   *)
(***************************************************************************)
EXTENDS Integers, Sequences

CONSTANTS
  Slots,        \* the slots the wheel has
  SharedNames,  \* the slots named in the configuration shared with SmartTScope
  LocalNames,   \* the slots named in the tool's own configuration, if it names any
  BuiltIn,      \* the built-in names
  Prompt,       \* the driver's first answer to a command arrives within _ALERT_GRACE_S
  Reconnects,   \* a session may follow one that saw the wheel, whose vectors the client keeps
  MaxChanges,   \* bound: slot changes requested
  MaxQueued     \* bound: answers on their way

VARIABLES
  wiring,   \* the resolved configuration
  wheel,    \* the wheel: its slot, and the slot it turns to (0: at rest)
  up,       \* the connection to indiserver
  sent,     \* the commands on their way to the driver
  answers,  \* the driver's answers on their way
  cache,    \* the client's latest slot vector
  adapter,  \* the wheel adapter
  wanted,   \* the panel: the slot change in flight, and what it has seen of it
  changes,  \* the changes requested so far (history)
  settled   \* how the last change was settled (history)

wheelVars == <<wiring, wheel, up, sent, answers, cache, adapter, wanted, changes, settled>>
wire == <<up, sent, answers>>
history == <<changes, settled>>

-----------------------------------------------------------------------------
(* The configuration. Each file is silent about the wheel, turns it on (with the train it     *)
(* serves) or off; the shared one is asked first, and names in the local one win.             *)

Wiring(shared, local, named) ==
  LET enabled == IF shared # "silent" THEN shared = "on" ELSE local # "off"
      base == CASE shared = "on" -> SharedNames
                [] shared # "on" /\ local = "on" -> LocalNames
                [] OTHER -> BuiltIn
  IN  [enabled |-> enabled, override |-> enabled /\ named,
       names |-> IF ~enabled THEN {} ELSE IF named THEN LocalNames ELSE base]

\* The slots that have a name: the configured ones where they override the driver's or the
\* driver has none, else the driver's.
SlotNames(driverNames) ==
  IF wiring.override \/ driverNames = {} THEN wiring.names ELSE driverNames

\* The slots offered: those, and the current one.
Offered(driverNames) == SlotNames(driverNames) \cup {cache.slot}

Nothing == [slot |-> 0, state |-> "none"]
NoChange == [slot |-> 0, seenBusy |-> FALSE]
NoWheel == [connected |-> FALSE, requested |-> 0, grace |-> FALSE, busySeen |-> FALSE]

WheelInit ==
  /\ \E s, l \in {"silent", "on", "off"}, n \in BOOLEAN : wiring = Wiring(s, l, n)
  /\ wheel \in [at : Slots, going : {0}, refused : {FALSE}]
  /\ up = FALSE /\ sent = <<>> /\ answers = <<>> /\ cache = Nothing
  /\ adapter = NoWheel /\ wanted = NoChange /\ changes = 0 /\ settled = "none"

-----------------------------------------------------------------------------
(* The driver (external), and the client's reader.                           *)

Answer(state, reply) ==
  Append(answers, [slot |-> wheel'.at, state |-> state, reply |-> reply])

Vector == [slot |-> wheel.at,
           state |-> IF wheel.going # 0 THEN "Busy" ELSE IF wheel.refused THEN "Alert" ELSE "Ok"]

\* A command: the wheel turns to a slot it has, or refuses.
Receive ==
  /\ sent # <<>> /\ Len(answers) < MaxQueued
  /\ sent' = Tail(sent)
  /\ IF Head(sent) \in Slots
       THEN /\ wheel' = [wheel EXCEPT !.going = Head(sent), !.refused = FALSE]
            /\ answers' = Answer("Busy", TRUE)
       ELSE wheel' = [wheel EXCEPT !.refused = TRUE] /\ answers' = Answer("Alert", TRUE)
  /\ UNCHANGED <<wiring, up, cache, adapter, wanted, history>>

\* It arrives, whether or not somebody listens.
Arrives ==
  /\ wheel.going # 0 /\ Len(answers) < MaxQueued
  /\ wheel' = [wheel EXCEPT !.at = wheel.going, !.going = 0]
  /\ answers' = IF up THEN Answer("Ok", FALSE) ELSE answers
  /\ UNCHANGED <<wiring, up, sent, cache, adapter, wanted, history>>

\* It answers the refresh that status() sends now and then.
Refresh ==
  /\ up /\ adapter.connected /\ Len(answers) < MaxQueued /\ sent = <<>>
  /\ answers' = Append(answers, [slot |-> Vector.slot, state |-> Vector.state, reply |-> FALSE])
  /\ UNCHANGED <<wiring, wheel, up, sent, cache, adapter, wanted, history>>

\* The reader keeps the latest vector.
OnElement ==
  /\ answers # <<>>
  /\ cache' = [slot |-> Head(answers).slot, state |-> Head(answers).state] /\ answers' = Tail(answers)
  /\ UNCHANGED <<wiring, wheel, up, sent, adapter, wanted, history>>

\* Reading or sending fails: the client drops the socket, the cache stays.
Lost ==
  /\ up' = FALSE /\ sent' = <<>> /\ answers' = <<>>
  /\ UNCHANGED <<wiring, wheel, cache, adapter, wanted, history>>

MarkDisconnected == up /\ Lost

-----------------------------------------------------------------------------
(* The panel, on the GUI thread.                                             *)

\* Connect: with the driver's confirmation and the first slot vector; it fails, leaving nothing
\* open, or no wheel answers. A slot vector of an earlier session passes for the first one.
Connect ==
  /\ wiring.enabled /\ ~adapter.connected /\ ~up /\ (Reconnects \/ cache = Nothing)
  /\ up' = TRUE /\ adapter' = [NoWheel EXCEPT !.connected = TRUE]
  /\ cache' \in {cache, Vector} /\ wanted' = [wanted EXCEPT !.slot = 0]
  /\ UNCHANGED <<wiring, wheel, sent, answers, history>>

\* Disconnect, or closing the window: the wheel may go on turning.
Disconnect ==
  /\ adapter.connected
  /\ adapter' = NoWheel /\ wanted' = [wanted EXCEPT !.slot = 0] /\ settled' = "none"
  /\ up' = FALSE /\ sent' = <<>> /\ answers' = <<>>
  /\ UNCHANGED <<wiring, wheel, cache, changes>>

Available == adapter.connected /\ up /\ cache # Nothing

\* The grace after a command in which an Alert is still the previous command's.
GraceEnds ==
  /\ adapter.grace
  /\ Prompt => (sent = <<>> /\ \A i \in DOMAIN answers : ~answers[i].reply)
  /\ adapter' = [adapter EXCEPT !.grace = FALSE]
  /\ UNCHANGED <<wiring, wheel, wire, cache, wanted, history>>

\* MUTANT (of SetClicked): what was seen of the previous change is kept.
SetClickedKeeping(s) ==
  /\ Available /\ wanted.slot = 0 /\ cache.state # "Busy" /\ changes < MaxChanges
  /\ sent' = Append(sent, s)
  /\ adapter' = [adapter EXCEPT !.requested = s, !.grace = TRUE, !.busySeen = FALSE]
  /\ wanted' = [wanted EXCEPT !.slot = s] /\ changes' = changes + 1 /\ settled' = "none"
  /\ UNCHANGED <<wiring, wheel, up, answers, cache>>

\* Set: one change at a time, none while the wheel turns (the adapter raises, the panel says
\* so); a send that fails ends it too (MarkDisconnected).
SetClicked(s) ==
  /\ Available /\ wanted.slot = 0 /\ cache.state # "Busy" /\ changes < MaxChanges
  /\ sent' = Append(sent, s)
  /\ adapter' = [adapter EXCEPT !.requested = s, !.grace = TRUE, !.busySeen = FALSE]
  /\ wanted' = [slot |-> s, seenBusy |-> FALSE] /\ changes' = changes + 1 /\ settled' = "none"
  /\ UNCHANGED <<wiring, wheel, up, answers, cache>>

\* status(): Busy is remembered, an Alert counts once it is not an old one.
Busy == Available /\ cache.state = "Busy"
Rejected == Available /\ cache.state = "Alert" /\ (adapter.busySeen \/ ~adapter.grace)

Settle(how) == wanted' = [wanted EXCEPT !.slot = 0] /\ settled' = how

\* One poll: a rejection ends the change, so does Busy followed by rest -- or by a lost
\* connection, which reads as rest -- and so does the timeout. A poll that raises only knows
\* the timeout.
PollOnce(expired) ==
  /\ adapter.connected
  /\ expired => ~adapter.grace
  /\ adapter' = [adapter EXCEPT !.busySeen = @ \/ Busy]
  /\ \/ wanted.slot = 0 /\ UNCHANGED <<wanted, settled>>
     \/ wanted.slot # 0 /\ Rejected /\ Settle("rejected")
     \/ wanted.slot # 0 /\ ~Rejected /\ ~Busy /\ wanted.seenBusy /\ Settle("confirmed")
     \/ wanted.slot # 0 /\ ~Rejected /\ (Busy \/ ~wanted.seenBusy)
        /\ IF expired THEN Settle("timeout")
           ELSE wanted' = [wanted EXCEPT !.seenBusy = @ \/ Busy] /\ settled' = settled
  /\ UNCHANGED <<wiring, wheel, wire, cache, changes>>

-----------------------------------------------------------------------------
Driver == Receive \/ Arrives \/ OnElement

WheelNext ==
  \/ Driver \/ Refresh \/ MarkDisconnected
  \/ Connect \/ Disconnect \/ GraceEnds
  \/ \E names \in {{}, Slots} : \E s \in Offered(names) \ {0} : SetClicked(s)
  \/ \E expired \in BOOLEAN : PollOnce(expired)

\* The driver and the reader go on, the clock does, and the poll's timer is served.
WheelFairness ==
  WF_wheelVars(Driver) /\ WF_wheelVars(GraceEnds) /\ WF_wheelVars(PollOnce(TRUE))

WheelSpec == WheelInit /\ [][WheelNext]_wheelVars /\ WheelFairness

\* Types; a wheel the wiring disables is never connected (IndiFilterWheelAdapter.connect).
WheelTypeOK ==
  /\ wheel.at \in Slots /\ wheel.going \in Slots \cup {0}
  /\ cache.state \in {"none", "Ok", "Busy", "Alert"}
  /\ settled \in {"none", "confirmed", "rejected", "timeout"}
  /\ (~wiring.enabled => ~adapter.connected)

\* A change is said to be done only when the wheel rests at the slot asked for, and rejected
\* only when the driver rejected it -- while the connection lasts (a lost one is shown as lost).
SettledAsSaid ==
  up => /\ settled = "confirmed" => (wheel.going = 0 /\ wheel.at = adapter.requested)
        /\ settled = "rejected" => (wheel.going = 0 /\ wheel.refused)

\* A requested change is not settled.
ChangePending == wanted.slot # 0
=============================================================================
