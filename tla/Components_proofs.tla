--------------------------- MODULE Components_proofs ---------------------------
(***************************************************************************)
(* What the components of Components promise holds for every value of the  *)
(* constants: types and limits, what is reported as done or kept, and that *)
(* what is offered agrees with what is selected and measured.              *)
(***************************************************************************)
EXTENDS Components, Equipment_proofs

\* The surroundings are kind: the driver's first answer comes within the grace
\* of an Alert, no session follows one that saw the wheel, the wall clock is
\* not set back, and power is not lost while the settings are written.
Undisturbed == Prompt /\ ~Reconnects /\ ~ClockSteps /\ ~TornWrites

-------------------------------------------------------------------------------
(* The invariants, one for each part. *)

AnySlot == Slots \cup SharedNames \cup LocalNames \cup BuiltIn \cup {0}

WheelTyped ==
  /\ wiring \in [enabled : BOOLEAN, override : BOOLEAN, names : SUBSET AnySlot]
  /\ wheel \in [at : Slots, going : Slots \cup {0}, refused : BOOLEAN]
  /\ up \in BOOLEAN /\ sent \in Seq(AnySlot)
  /\ answers \in Seq([slot : AnySlot, state : {"Ok", "Busy", "Alert"}, reply : BOOLEAN])
  /\ cache \in [slot : AnySlot, state : {"none", "Ok", "Busy", "Alert"}]
  /\ adapter \in [connected : BOOLEAN, requested : AnySlot, grace : BOOLEAN, busySeen : BOOLEAN]
  /\ wanted \in [slot : AnySlot, seenBusy : BOOLEAN] /\ changes \in Nat
  /\ settled \in {"none", "confirmed", "rejected", "timeout"}
  /\ ~wiring.enabled => ~adapter.connected
  /\ up => adapter.connected

\* What an answer says of a wheel that has had no command since.
Says(state) ==
  /\ wheel.refused => state = "Alert"
  /\ ~wheel.refused => state # "Alert"
  /\ wheel.going # 0 => state = "Busy"

\* Before its first vector nothing has been asked of the wheel.
Untouched ==
  /\ sent = <<>> /\ changes = 0 /\ settled = "none" /\ wanted.slot = 0
  /\ ~adapter.busySeen /\ ~adapter.grace /\ ~wanted.seenBusy
  /\ wheel.going = 0 /\ ~wheel.refused
  /\ \A i \in DOMAIN answers : answers[i].state = "Ok" /\ ~answers[i].reply

\* A command whose answer is still to come: the change waits for it, and has
\* seen nothing that could be taken for the answer.
AwaitsAnswer ==
  /\ changes > 0 /\ wanted.slot # 0 /\ ~wanted.seenBusy /\ settled = "none"
  /\ adapter.grace /\ ~adapter.busySeen /\ cache.state \in {"Ok", "Alert"}

\* The command is on its way; the wheel rests.
Commanded ==
  /\ AwaitsAnswer /\ sent = <<adapter.requested>> /\ wheel.going = 0
  /\ \A i \in DOMAIN answers : answers[i].state # "Busy" /\ ~answers[i].reply

\* The driver has the command: the wheel turns, or has arrived, or has refused.
Received ==
  /\ sent = <<>> /\ ~(wheel.refused /\ wheel.going # 0)
  /\ wheel.going # 0 => wheel.going = adapter.requested
  /\ ~wheel.refused /\ wheel.going = 0 => wheel.at = adapter.requested

\* Its answer is the k-th on the way, older ones before it.
AnswerComes(k) ==
  /\ AwaitsAnswer /\ Received
  /\ \A i \in DOMAIN answers : i < k => answers[i].state # "Busy"
  /\ \A i \in DOMAIN answers : answers[i].reply <=> i = k
  /\ \A i \in DOMAIN answers : i >= k => Says(answers[i].state)
  /\ \A i, j \in DOMAIN answers : k <= i /\ i < j /\ answers[j].state = "Busy" => answers[i].state = "Busy"

\* Its answer has come: what is cached and on its way is of this command alone.
AnswerCame ==
  /\ sent = <<>> /\ cache.state # "none"
  /\ changes > 0 => Received
  /\ changes = 0 => /\ wheel.going = 0 /\ ~wheel.refused /\ cache.state = "Ok"
                     /\ \A i \in DOMAIN answers : answers[i].state = "Ok"
  /\ wanted.slot # 0 \/ wanted.seenBusy \/ adapter.busySeen \/ settled # "none" => changes > 0
  /\ adapter.busySeen \/ wanted.seenBusy => ~wheel.refused
  /\ Says(cache.state)
  /\ \A i \in DOMAIN answers : ~answers[i].reply /\ Says(answers[i].state)
  /\ \A i \in DOMAIN answers : answers[i].state = "Busy" => cache.state = "Busy"
  /\ \A i, j \in DOMAIN answers : i < j /\ answers[j].state = "Busy" => answers[i].state = "Busy"
  /\ settled = "confirmed" => wheel.going = 0 /\ ~wheel.refused
  /\ settled = "rejected" => wheel.going = 0 /\ wheel.refused

\* The change in flight and what is known of it.
WheelSteady ==
  /\ cache.state = "none" => cache.slot = 0 /\ Untouched
  /\ up /\ cache.state # "none" => Commanded \/ (\E k \in DOMAIN answers : AnswerComes(k)) \/ AnswerCame

WindowInv ==
  /\ Win!WindowTypeOK /\ Win!WindowConsistent
  /\ fov \in [at : {"idle", "running", "ok", "miss"}, of : [Win!Panels -> Devices \cup {"demo", "none"}]]
  /\ offered = [p \in Win!Panels |-> Devices \ {device[Win!Other(p)]}]
  /\ fov.at # "idle" => fov.of = pending
  /\ signals \in Nat

BrightnessInv ==
  /\ Exp!ExposureTypeOK
  /\ older \in [exposure : 1 .. Ceiling, gain : DefaultGain .. MaxGain]
  /\ prev \in [metric : -1 .. 100, gain : Nat]
  /\ scene \in Scenes

Pixels == [x : Int, y : Int]

Still == [x |-> 0, y |-> 0]

\* What may be calibrated.
Calibrated == [unit : {"axis", "guide"}, of : Matrices]

\* No step of a plan is longer than the cap or, as an angle, shorter than the smallest move.
PlanSized(plan, p) ==
  \A s \in plan.steps : /\ s \in [axis : {1, 2}, dir : {1, -1}, size : 1 .. MoveCap]
                        /\ p = "axis" => s.size >= LeastMove

\* What a plan sends and skips makes the shift; what it skips of an axis move is little.
Meets(plan, m, p, t) ==
  LET got == Pos!Sum(m, plan.steps \cup plan.dropped)
      off == [x |-> t.x - got.x, y |-> t.y - got.y]
      left == [x |-> t.x - Pos!Sum(m, plan.steps).x, y |-> t.y - Pos!Sum(m, plan.steps).y]
  IN  plan.why = "ok" /\ ~plan.clamped /\ ~Pos!Flipped(m, t)
      => /\ Pos!Square(off) <= Slack
         /\ (p = "axis" /\ plan.dropped # {})
              => 16 * Pos!Square(left) <= 2 * (Pos!Square(t) + 16 * Slack)

\* The panel's state but for the click.
PanelTyped ==
  /\ posMode \in {"terrestrial", "astronomical"}
  /\ matrix = Pos!NoMatrix \/ matrix \in Calibrated
  /\ shape \in Shapes /\ verified \in Shapes \cup {Pos!NoShape} /\ seen \in Shapes \cup {Pos!NoShape}
  /\ fraction \in Fractions /\ refusals = Pos!Refusals(matrix, fraction, seen)

\* The click's plan is sized and meets its shift.
ClickGood ==
  /\ PlanSized(click.plan, click.by)
  /\ click.target # Still => Meets(click.plan, matrix.of, click.by, click.target)

PositionInv == PanelTyped /\ ClickGood

Bundle == [made : 1 .. MaxClock, time : 1 .. MaxClock, seq : Nat, written : BOOLEAN,
           removed : {"no", "aged", "excess"}]

Captor == [at : {"idle", "incident", "rest", "pruning", "sorting"}, id : Nat, seq : Nat, list : SUBSET Nat]

Copies == [there : BOOLEAN, incident : BOOLEAN, whole : BOOLEAN, broken : BOOLEAN]

DiagnosticsTyped ==
  /\ clock \in 1 .. MaxClock /\ pulled \in BOOLEAN
  /\ local \in Copies
  /\ bundles \in Seq(Bundle) /\ app \in [Apps -> Captor]

\* One application writes a bundle, and writes it once; until then it stands as it was made.
Unwritten ==
  /\ \A a \in Apps : app[a].at = "incident" =>
       app[a].id \in Diag!Ids /\ ~bundles[app[a].id].written
  /\ \A a, b \in Apps : app[a].at = "incident" /\ app[b].at = "incident" /\ app[a].id = app[b].id
                        => a = b
  /\ \A i \in Diag!Ids : ~bundles[i].written => bundles[i].time = bundles[i].made /\ bundles[i].seq = 0

\* No bundle is stamped later than now.
NothingAhead == \A i \in Diag!Ids : bundles[i].made <= clock

DiagnosticsInv ==
  /\ DiagnosticsTyped /\ Unwritten
  /\ local.there => local.whole \/ local.broken
  /\ Diag!PullReported

DiagnosticsKept == NothingAhead /\ Diag!NewestKept

Entry == [id : SavedCameras \cup {"demo"}, gain : Gains, auto : BOOLEAN]

Files == [cams : [Sets!Panels -> Entry \cup {Sets!None}],
          align : {"custom", "malformed", "missing", "broken"}]

SettingsInv ==
  /\ align \in {"custom", "default"}
  /\ file \in Files
  /\ shownPanel \in [Sets!Panels -> Entry]
  /\ open /\ shownPanel["main"].id = shownPanel["guide"].id => shownPanel["main"].id = "demo"

SettingsKept == Sets!Remembered

Vector == Int \X Int

AdviceSet == [screw : {"none"}] \cup [screw : Screws, cw : BOOLEAN, command : BOOLEAN]

Shown == [seq : Nat \ {0}, on : Vector, advice : AdviceSet]

AssistantTyped ==
  /\ truth \in Truths /\ error \in Vector /\ turns \in 0 .. MaxTurns /\ frame \in 0 .. MaxFrames
  /\ learned \in [Screws -> [sum : Vector, n : Nat]] /\ streaming \in BOOLEAN
  /\ analysis = Asst!None \/ analysis \in [seq : Nat \ {0}, on : Vector]
  /\ analysed = Asst!None \/ analysed \in Shown
  /\ advice = Asst!None \/ advice \in Shown
  /\ \A r \in {analysis, analysed, advice} : r.seq <= frame
  /\ \A s \in Screws : learned[s].n <= turns

\* Equal observations: what was learned of a screw is what it does.
LearnedTrue == \A s \in Screws : learned[s].sum = Asst!Times(learned[s].n, truth[s])

Stages == {"idle", "precheck", "acquire_star", "center_star", "auto_exposure", "rough_defocus",
           "map_screws_by_obstruction", "measure_donut", "guide_rough_collimation", "focus",
           "complete", "failed"}

\* A workflow that is not paused has nowhere to go back to.
SessionInv ==
  /\ session \in [at : Stages \cup {"paused"}, prePause : Stages \cup {"none"}]
  /\ Asst!PausedKnowsWhere

\* What one may turn by shrinks the error it was measured on.
Reduces(r) ==
  r # Asst!None /\ r.advice.screw # "none" /\ r.advice.command
    => Asst!Dot(r.on, Asst!Times(IF r.advice.cw THEN 1 ELSE -1, truth[r.advice.screw])) < 0

AssistantInv ==
  /\ AssistantTyped /\ LearnedTrue /\ Asst!AdviceReduces /\ Asst!AnalysedInOrder

\* Every part that acts is in its invariant.
OfficeInv ==
  /\ Acts("wheel") => WheelTyped
  /\ Acts("window") => WindowInv
  /\ Acts("exposure") => BrightnessInv
  /\ Acts("positioning") => PositionInv
  /\ Acts("diagnostics") => DiagnosticsInv
  /\ Acts("settings") => SettingsInv
  /\ Acts("session") \/ Acts("assistant") => SessionInv /\ AssistantInv

\* And, when it is not disturbed, in what it keeps and says.
KeptInv ==
  /\ Acts("wheel") => WheelSteady
  /\ Acts("diagnostics") => DiagnosticsKept
  /\ Acts("settings") => SettingsKept

-------------------------------------------------------------------------------
(* The filter wheel. *)

\* What the configuration names.
LEMMA WiringTyped ==
  ASSUME NEW shared, NEW local_, NEW named \in BOOLEAN
  PROVE  Whl!Wiring(shared, local_, named)
           \in [enabled : BOOLEAN, override : BOOLEAN, names : SUBSET AnySlot]
BY DEF Whl!Wiring, AnySlot

\* The wheel starts in its types, and nothing has been asked of it.
LEMMA WheelStarts == Whl!WheelInit => WheelTyped /\ WheelSteady
<1> SUFFICES ASSUME Whl!WheelInit PROVE WheelTyped /\ WheelSteady
  OBVIOUS
<1> USE DEF Whl!WheelInit, Whl!Nothing, Whl!NoWheel, Whl!NoChange
<1>1. wiring \in [enabled : BOOLEAN, override : BOOLEAN, names : SUBSET AnySlot]
  BY WiringTyped
<1>2. wheel \in [at : Slots, going : Slots \cup {0}, refused : BOOLEAN]
  OBVIOUS
<1>3. cache \in [slot : AnySlot, state : {"none", "Ok", "Busy", "Alert"}]
      /\ adapter \in [connected : BOOLEAN, requested : AnySlot, grace : BOOLEAN, busySeen : BOOLEAN]
      /\ wanted \in [slot : AnySlot, seenBusy : BOOLEAN]
  BY DEF AnySlot
<1>4. sent \in Seq(AnySlot)
      /\ answers \in Seq([slot : AnySlot, state : {"Ok", "Busy", "Alert"}, reply : BOOLEAN])
  OBVIOUS
<1>5. WheelTyped BY <1>1, <1>2, <1>3, <1>4 DEF WheelTyped
<1>6. WheelSteady
  <2>1. DOMAIN answers = {} OBVIOUS
  <2>2. wheel.going = 0 /\ wheel.refused = FALSE BY <1>2
  <2> QED BY <2>1, <2>2 DEF WheelSteady, Untouched
<1> QED BY <1>5, <1>6

\* What a panel may ask for is a slot somebody names, or the current one.
LEMMA OfferedTyped ==
  ASSUME WheelTyped, NEW names \in {{}, Slots}, NEW s \in Whl!Offered(names)
  PROVE  s \in AnySlot
BY DEF WheelTyped, Whl!Offered, Whl!SlotNames, AnySlot

\* The wheel, its client, adapter and panel keep their types.
LEMMA WheelTypes == WheelTyped /\ [Whl!WheelNext]_wheelVars => WheelTyped'
<1> SUFFICES ASSUME WheelTyped, [Whl!WheelNext]_wheelVars PROVE WheelTyped'
  OBVIOUS
<1> DEFINE A == [slot : AnySlot, state : {"Ok", "Busy", "Alert"}, reply : BOOLEAN]
<1>t. /\ wheel \in [at : Slots, going : Slots \cup {0}, refused : BOOLEAN]
      /\ answers \in Seq(A) /\ sent \in Seq(AnySlot)
  BY DEF WheelTyped
<1>a. ASSUME NEW a \in A PROVE Append(answers, a) \in Seq(A)
  BY <1>t
<1>b. ASSUME Whl!Receive PROVE WheelTyped'
  <2> USE DEF Whl!Receive
  <2>1. Tail(sent) \in Seq(AnySlot) /\ Head(sent) \in AnySlot BY <1>b, <1>t
  <2>2. wheel' \in [at : Slots, going : Slots \cup {0}, refused : BOOLEAN] BY <1>b, <1>t
  <2>3. [slot |-> wheel'.at, state |-> "Busy", reply |-> TRUE] \in A
        /\ [slot |-> wheel'.at, state |-> "Alert", reply |-> TRUE] \in A
    BY <2>2 DEF AnySlot
  <2>4. answers' \in Seq(A)
    BY <1>b, <2>3, <1>a DEF Whl!Answer
  <2> QED BY <1>b, <2>1, <2>2, <2>4 DEF WheelTyped, Whl!history
<1>c. ASSUME Whl!Arrives PROVE WheelTyped'
  <2> USE DEF Whl!Arrives
  <2>2. wheel' \in [at : Slots, going : Slots \cup {0}, refused : BOOLEAN] BY <1>c, <1>t
  <2>3. [slot |-> wheel'.at, state |-> "Ok", reply |-> FALSE] \in A
    BY <2>2 DEF AnySlot
  <2>4. answers' \in Seq(A)
    BY <1>c, <1>t, <2>3, <1>a DEF Whl!Answer
  <2> QED BY <1>c, <2>2, <2>4 DEF WheelTyped, Whl!history
<1>d. ASSUME Whl!Refresh PROVE WheelTyped'
  <2> USE DEF Whl!Refresh
  <2>3. [slot |-> Whl!Vector.slot, state |-> Whl!Vector.state, reply |-> FALSE] \in A
    BY <1>t DEF AnySlot, Whl!Vector
  <2>4. answers' \in Seq(A) BY <1>d, <2>3, <1>a
  <2> QED BY <1>d, <2>4 DEF WheelTyped, Whl!history
<1>e. ASSUME Whl!OnElement PROVE WheelTyped'
  <2> USE DEF Whl!OnElement
  <2>1. Head(answers) \in A /\ Tail(answers) \in Seq(A)
    <3> HIDE DEF A
    <3> QED BY <1>e, <1>t
  <2>2. cache' \in [slot : AnySlot, state : {"none", "Ok", "Busy", "Alert"}] BY <1>e, <2>1
  <2> QED BY <1>e, <2>1, <2>2 DEF WheelTyped, Whl!history
<1>f. ASSUME Whl!MarkDisconnected PROVE WheelTyped'
  <2>1. sent' \in Seq(AnySlot) /\ answers' \in Seq(A) BY <1>f DEF Whl!MarkDisconnected, Whl!Lost
  <2> QED BY <1>f, <2>1 DEF WheelTyped, Whl!MarkDisconnected, Whl!Lost, Whl!history
<1>g. ASSUME Whl!Connect PROVE WheelTyped'
  <2>1. cache' \in [slot : AnySlot, state : {"none", "Ok", "Busy", "Alert"}]
    BY <1>g, <1>t DEF Whl!Connect, Whl!Vector, WheelTyped, AnySlot
  <2>2. adapter' \in [connected : BOOLEAN, requested : AnySlot, grace : BOOLEAN, busySeen : BOOLEAN]
    BY <1>g DEF Whl!Connect, Whl!NoWheel, AnySlot
  <2>3. wanted' \in [slot : AnySlot, seenBusy : BOOLEAN]
    BY <1>g DEF Whl!Connect, WheelTyped, AnySlot
  <2>4. adapter'.connected /\ wiring'.enabled BY <1>g DEF Whl!Connect, Whl!NoWheel
  <2> QED BY <1>g, <2>1, <2>2, <2>3, <2>4 DEF WheelTyped, Whl!Connect, Whl!history
<1>h. ASSUME Whl!Disconnect PROVE WheelTyped'
  <2>1. sent' \in Seq(AnySlot) /\ answers' \in Seq(A) BY <1>h DEF Whl!Disconnect
  <2>2. adapter' \in [connected : BOOLEAN, requested : AnySlot, grace : BOOLEAN, busySeen : BOOLEAN]
        /\ ~adapter'.connected
    BY <1>h DEF Whl!Disconnect, Whl!NoWheel, AnySlot
  <2>3. wanted' \in [slot : AnySlot, seenBusy : BOOLEAN]
    BY <1>h DEF Whl!Disconnect, WheelTyped, AnySlot
  <2> QED BY <1>h, <2>1, <2>2, <2>3 DEF WheelTyped, Whl!Disconnect
<1>i. ASSUME Whl!GraceEnds PROVE WheelTyped'
  BY <1>i DEF WheelTyped, Whl!GraceEnds, Whl!history, Whl!wire
<1>j. ASSUME NEW names \in {{}, Slots}, NEW s \in Whl!Offered(names), Whl!SetClicked(s)
      PROVE  WheelTyped'
  <2>1. s \in AnySlot BY OfferedTyped
  <2>2. sent' \in Seq(AnySlot) BY <1>j, <2>1, <1>t DEF Whl!SetClicked
  <2>3. adapter' \in [connected : BOOLEAN, requested : AnySlot, grace : BOOLEAN, busySeen : BOOLEAN]
        /\ adapter'.connected = adapter.connected
    BY <1>j, <2>1 DEF Whl!SetClicked, WheelTyped
  <2> QED BY <1>j, <2>1, <2>2, <2>3 DEF WheelTyped, Whl!SetClicked
<1>k. ASSUME NEW expired \in BOOLEAN, Whl!PollOnce(expired) PROVE WheelTyped'
  <2>1. Whl!Busy \in BOOLEAN BY DEF Whl!Busy, Whl!Available, WheelTyped
  <2>2. adapter' \in [connected : BOOLEAN, requested : AnySlot, grace : BOOLEAN, busySeen : BOOLEAN]
        /\ adapter'.connected = adapter.connected
    BY <1>k, <2>1 DEF Whl!PollOnce, WheelTyped
  <2>3. wanted' \in [slot : AnySlot, seenBusy : BOOLEAN]
        /\ settled' \in {"none", "confirmed", "rejected", "timeout"}
    BY <1>k, <2>1 DEF Whl!PollOnce, Whl!Settle, WheelTyped, AnySlot
  <2> QED BY <1>k, <2>2, <2>3 DEF WheelTyped, Whl!PollOnce, Whl!wire
<1>l. CASE UNCHANGED wheelVars
  BY <1>l DEF WheelTyped, wheelVars
<1> QED
  BY <1>b, <1>c, <1>d, <1>e, <1>f, <1>g, <1>h, <1>i, <1>j, <1>k, <1>l DEF Whl!WheelNext, Whl!Driver

\* An answer appended to those on their way.
LEMMA Appended ==
  ASSUME WheelTyped, NEW a, answers' = Append(answers, a)
  PROVE  /\ Len(answers) \in Nat /\ DOMAIN answers = 1 .. Len(answers)
         /\ DOMAIN answers' = 1 .. (Len(answers) + 1)
         /\ \A i \in DOMAIN answers : answers'[i] = answers[i]
         /\ answers'[Len(answers) + 1] = a
<1> DEFINE A == [slot : AnySlot, state : {"Ok", "Busy", "Alert"}, reply : BOOLEAN]
<1>1. answers \in Seq(A) BY DEF WheelTyped
<1> HIDE DEF A
<1> QED BY <1>1

\* An answer taken off them.
LEMMA Taken ==
  ASSUME WheelTyped, answers # <<>>, answers' = Tail(answers)
  PROVE  /\ Len(answers) \in Nat \ {0} /\ DOMAIN answers = 1 .. Len(answers)
         /\ DOMAIN answers' = 1 .. (Len(answers) - 1)
         /\ \A i \in DOMAIN answers' : answers'[i] = answers[i + 1]
         /\ Head(answers) = answers[1]
         /\ answers[1] \in [slot : AnySlot, state : {"Ok", "Busy", "Alert"}, reply : BOOLEAN]
<1> DEFINE A == [slot : AnySlot, state : {"Ok", "Busy", "Alert"}, reply : BOOLEAN]
<1>1. answers \in Seq(A) BY DEF WheelTyped
<1> HIDE DEF A
<1>2. answers[1] \in A BY <1>1
<1> QED BY <1>1, <1>2 DEF A

\* The cache is empty before the first vector only.
LEMMA CacheEmpty ==
  ASSUME WheelTyped, WheelSteady
  PROVE  cache = Whl!Nothing <=> cache.state = "none"
BY DEF WheelTyped, WheelSteady, Whl!Nothing

\* As long as no vector has come, nothing is asked and the wheel rests.
LEMMA StaysUntouched ==
  ASSUME WheelTyped, WheelSteady, cache.state = "none", Whl!WheelNext, ~Reconnects
  PROVE  WheelSteady'
<1>1. cache = Whl!Nothing /\ Untouched BY CacheEmpty DEF WheelSteady
<1>2. CASE Whl!Receive BY <1>1, <1>2 DEF Untouched, Whl!Receive
<1>3. CASE Whl!Arrives BY <1>1, <1>3 DEF Untouched, Whl!Arrives
<1>4. CASE Whl!Refresh
  <2>1. answers' = Append(answers, [slot |-> wheel.at, state |-> "Ok", reply |-> FALSE])
    BY <1>1, <1>4 DEF Untouched, Whl!Refresh, Whl!Vector
  <2>2. \A i \in DOMAIN answers' : answers'[i].state = "Ok" /\ ~answers'[i].reply
    BY <1>1, <2>1, Appended DEF Untouched
  <2> QED BY <1>1, <1>4, <2>2 DEF Untouched, WheelSteady, Whl!Refresh, Whl!history
<1>5. CASE Whl!OnElement
  <2>1. /\ cache'.state = "Ok"
        /\ \A i \in DOMAIN answers' : answers'[i].state = "Ok" /\ ~answers'[i].reply
    BY <1>1, <1>5, Taken DEF Untouched, Whl!OnElement
  <2>2. AnswerCame'
    BY <1>1, <1>5, <2>1 DEF Untouched, AnswerCame, Says, Whl!OnElement, Whl!history
  <2> QED BY <2>1, <2>2 DEF WheelSteady
<1>6. CASE Whl!MarkDisconnected
  <2>1. DOMAIN answers' = {} BY <1>6 DEF Whl!MarkDisconnected, Whl!Lost
  <2> QED
    BY <1>1, <1>6, <2>1 DEF Untouched, WheelSteady, Whl!MarkDisconnected, Whl!Lost, Whl!history
<1>7. CASE Whl!Connect
  <2>1. Untouched' /\ cache' \in {cache, Whl!Vector}
    BY <1>1, <1>7 DEF Untouched, Whl!Connect, Whl!NoWheel, Whl!history, WheelTyped
  <2>2. CASE cache' = cache BY <1>1, <2>1, <2>2 DEF WheelSteady
  <2>3. CASE cache' = Whl!Vector
    <3>1. cache'.state = "Ok" BY <1>1, <2>3 DEF Whl!Vector, Untouched
    <3>2. AnswerCame' BY <2>1, <3>1 DEF Untouched, AnswerCame, Says
    <3> QED BY <3>1, <3>2 DEF WheelSteady
  <2> QED BY <2>1, <2>2, <2>3
<1>8. CASE Whl!Disconnect
  <2>1. DOMAIN answers' = {} BY <1>8 DEF Whl!Disconnect
  <2> QED BY <1>1, <1>8, <2>1 DEF Untouched, WheelSteady, Whl!Disconnect, Whl!NoWheel, WheelTyped
<1>9. CASE Whl!GraceEnds BY <1>1, <1>9 DEF Untouched, Whl!GraceEnds
<1>10. ASSUME NEW s, Whl!SetClicked(s) PROVE FALSE
  BY <1>1, <1>10 DEF Whl!SetClicked, Whl!Available
<1>11. ASSUME NEW expired \in BOOLEAN, Whl!PollOnce(expired) PROVE WheelSteady'
  <2>1. ~Whl!Busy BY <1>1 DEF Whl!Busy, Whl!Available
  <2> QED BY <1>1, <1>11, <2>1 DEF Untouched, WheelSteady, Whl!PollOnce, Whl!wire, WheelTyped
<1> QED
  BY <1>2, <1>3, <1>4, <1>5, <1>6, <1>7, <1>8, <1>9, <1>10, <1>11 DEF Whl!WheelNext, Whl!Driver

\* While an answer is awaited a poll changes nothing.
LEMMA PollWaits ==
  ASSUME WheelTyped, AwaitsAnswer, up, NEW expired \in BOOLEAN, Whl!PollOnce(expired)
  PROVE  UNCHANGED <<adapter, wanted, settled>>
<1>1. ~Whl!Busy /\ ~Whl!Rejected /\ ~expired
  BY DEF AwaitsAnswer, Whl!Busy, Whl!Rejected, Whl!PollOnce
<1> QED BY <1>1 DEF Whl!PollOnce, AwaitsAnswer, WheelTyped

\* A command on its way is received, or waits.
LEMMA FromCommanded ==
  ASSUME WheelTyped, Commanded, up, cache.state # "none", Prompt, ~Reconnects, Whl!WheelNext, up'
  PROVE  Commanded' \/ \E k \in DOMAIN answers' : AnswerComes(k)'
<1>1. AwaitsAnswer /\ sent = <<adapter.requested>> /\ wheel.going = 0 BY DEF Commanded
<1>2. CASE Whl!Receive
  <2>1. Head(sent) = adapter.requested /\ Tail(sent) = <<>> BY <1>1
  <2>2. PICK a \in [slot : {wheel'.at}, state : {"Busy", "Alert"}, reply : {TRUE}] :
          /\ answers' = Append(answers, a)
          /\ a.state = "Busy" => /\ wheel'.going = adapter.requested /\ ~wheel'.refused
                                 /\ adapter.requested \in Slots
          /\ a.state = "Alert" => wheel'.going = 0 /\ wheel'.refused
    <3> DEFINE taken == [slot |-> wheel'.at, state |-> "Busy", reply |-> TRUE]
               denied == [slot |-> wheel'.at, state |-> "Alert", reply |-> TRUE]
    <3>1. CASE Head(sent) \in Slots
      <4>1. answers' = Append(answers, taken) /\ wheel'.going = adapter.requested /\ ~wheel'.refused
        BY <1>2, <2>1, <3>1 DEF Whl!Receive, Whl!Answer, WheelTyped
      <4>2. taken \in [slot : {wheel'.at}, state : {"Busy", "Alert"}, reply : {TRUE}]
            /\ taken.state = "Busy"
        OBVIOUS
      <4>3. adapter.requested \in Slots BY <2>1, <3>1
      <4> HIDE DEF taken
      <4> QED BY <4>1, <4>2, <4>3
    <3>2. CASE Head(sent) \notin Slots
      <4>1. answers' = Append(answers, denied) /\ wheel'.going = 0 /\ wheel'.refused
        BY <1>1, <1>2, <2>1, <3>2 DEF Whl!Receive, Whl!Answer, WheelTyped
      <4> QED BY <4>1
    <3> QED BY <3>1, <3>2
  <2>3. UNCHANGED <<cache, adapter, wanted, changes, settled>> BY <1>2 DEF Whl!Receive, Whl!history
  <2>4. AwaitsAnswer' BY <1>1, <2>3 DEF AwaitsAnswer
  <2>5. adapter.requested \in Slots => adapter.requested # 0
    BY ComponentsAssumption DEF ComponentsAssumption
  <2>6. Received'
    <3>1. sent' = <<>> BY <1>2, <2>1 DEF Whl!Receive
    <3>2. ~(wheel'.refused /\ wheel'.going # 0)
          /\ (wheel'.going # 0 => wheel'.going = adapter.requested)
          /\ (~wheel'.refused => wheel'.going # 0)
      BY <2>2, <2>5
    <3> QED BY <2>3, <3>1, <3>2 DEF Received
  <2>7. Says(a.state)' BY <2>2, <2>5 DEF Says
  <2>8. /\ Len(answers) \in Nat /\ DOMAIN answers = 1 .. Len(answers)
        /\ DOMAIN answers' = 1 .. (Len(answers) + 1)
        /\ \A i \in DOMAIN answers : answers'[i] = answers[i]
        /\ answers'[Len(answers) + 1] = a
    BY <2>2, Appended
  <2>9. \A i \in DOMAIN answers' : i \in DOMAIN answers \/ i = Len(answers) + 1
    BY <2>8
  <2>10. \A i \in DOMAIN answers : answers'[i].state # "Busy" /\ ~answers'[i].reply
    BY <2>8 DEF Commanded
  <2>11. PICK k \in Nat : k = Len(answers) + 1 BY <2>8
  <2>12. AnswerComes(k)'
    <3>1. \A i \in DOMAIN answers' : i < k => answers'[i].state # "Busy" /\ ~answers'[i].reply
      BY <2>8, <2>10, <2>11
    <3>2. \A i \in DOMAIN answers' : i >= k => i = k /\ answers'[i] = a
      BY <2>8, <2>11
    <3>3. a.reply OBVIOUS
    <3>4. \A i \in DOMAIN answers' : i \in Nat BY <2>8
    <3>5. \A i \in DOMAIN answers' : answers'[i].reply <=> i = k
      BY <2>11, <3>1, <3>2, <3>3, <3>4
    <3>6. \A i, j \in DOMAIN answers' : ~(k <= i /\ i < j) BY <2>8, <2>11
    <3> QED BY <2>4, <2>6, <2>7, <3>1, <3>2, <3>5, <3>6 DEF AnswerComes
  <2> QED BY <2>8, <2>11, <2>12
<1>3. CASE Whl!Arrives BY <1>1, <1>3 DEF Whl!Arrives
<1>4. CASE Whl!Refresh BY <1>1, <1>4 DEF Whl!Refresh
<1>5. CASE Whl!OnElement
  <2>1. UNCHANGED <<sent, wheel, adapter, wanted, changes, settled>>
    BY <1>5 DEF Whl!OnElement, Whl!history
  <2>2. cache'.state \in {"Ok", "Alert"}
        /\ \A i \in DOMAIN answers' : answers'[i].state # "Busy" /\ ~answers'[i].reply
    BY <1>5, Taken DEF Whl!OnElement, Commanded
  <2> QED BY <1>1, <2>1, <2>2 DEF Commanded, AwaitsAnswer
<1>6. CASE Whl!MarkDisconnected BY <1>6 DEF Whl!MarkDisconnected, Whl!Lost
<1>7. CASE Whl!Connect BY <1>7 DEF Whl!Connect
<1>8. CASE Whl!Disconnect BY <1>8 DEF Whl!Disconnect
<1>9. CASE Whl!GraceEnds BY <1>1, <1>9 DEF Whl!GraceEnds
<1>10. ASSUME NEW s, Whl!SetClicked(s) PROVE FALSE
  BY <1>1, <1>10 DEF Whl!SetClicked, AwaitsAnswer
<1>11. ASSUME NEW expired \in BOOLEAN, Whl!PollOnce(expired) PROVE Commanded'
  BY <1>1, <1>11, PollWaits DEF Commanded, AwaitsAnswer, Whl!PollOnce, Whl!wire
<1> QED
  BY <1>2, <1>3, <1>4, <1>5, <1>6, <1>7, <1>8, <1>9, <1>10, <1>11 DEF Whl!WheelNext, Whl!Driver

\* What the wheel appends of its own accord: its arrival, or its vector.
LEMMA OwnAnswer ==
  ASSUME WheelTyped, up, sent = <<>>, ~(wheel.refused /\ wheel.going # 0),
         Whl!Arrives \/ Whl!Refresh
  PROVE  \E a : /\ answers' = Append(answers, a) /\ ~a.reply /\ Says(a.state)'
                /\ a.state = "Busy" => wheel.going # 0
                /\ ~wheel.refused => a.state \in {"Ok", "Busy"}
                /\ wheel.going = 0 => wheel' = wheel /\ (~wheel.refused => a.state = "Ok")
                /\ wheel.going # 0 =>
                     ~wheel.refused /\ ~wheel'.refused
                       /\ (wheel' = wheel \/ (wheel'.going = 0 /\ wheel'.at = wheel.going))
<1>1. CASE Whl!Arrives
  <2> DEFINE arrived == [slot |-> wheel'.at, state |-> "Ok", reply |-> FALSE]
  <2>1. /\ answers' = Append(answers, arrived) /\ wheel.going # 0 /\ ~wheel.refused
        /\ wheel'.going = 0 /\ wheel'.at = wheel.going /\ ~wheel'.refused
    BY <1>1 DEF Whl!Arrives, Whl!Answer, WheelTyped
  <2>2. arrived.state = "Ok" /\ ~arrived.reply OBVIOUS
  <2> HIDE DEF arrived
  <2> QED BY <2>1, <2>2 DEF Says
<1>2. CASE Whl!Refresh
  <2>1. PICK a : a = [slot |-> Whl!Vector.slot, state |-> Whl!Vector.state, reply |-> FALSE]
    OBVIOUS
  <2>2. answers' = Append(answers, a) /\ wheel' = wheel BY <1>2, <2>1 DEF Whl!Refresh
  <2>3. ~a.reply /\ a.state = Whl!Vector.state BY <2>1
  <2>4. /\ wheel.going # 0 => a.state = "Busy"
        /\ wheel.going = 0 /\ wheel.refused => a.state = "Alert"
        /\ wheel.going = 0 /\ ~wheel.refused => a.state = "Ok"
    BY <2>3 DEF Whl!Vector
  <2>5. Says(a.state)' BY <2>2, <2>4 DEF Says
  <2>6. wheel.going # 0 => ~wheel.refused OBVIOUS
  <2> HIDE <2>1
  <2> QED BY <2>2, <2>3, <2>4, <2>5, <2>6
<1> QED BY <1>1, <1>2

\* Whoever follows the last answers with one more keeps their order.
LEMMA FromAnswerComes ==
  ASSUME WheelTyped, up, cache.state # "none", Prompt, ~Reconnects, Whl!WheelNext, up',
         NEW k \in DOMAIN answers, AnswerComes(k)
  PROVE  (\E l \in DOMAIN answers' : AnswerComes(l)') \/ AnswerCame'
<1>1. AwaitsAnswer /\ Received BY DEF AnswerComes
<1>d. Len(answers) \in Nat /\ DOMAIN answers = 1 .. Len(answers) /\ k \in Nat
  BY DEF WheelTyped
<1>2. CASE Whl!Receive BY <1>1, <1>2 DEF Received, Whl!Receive
<1>3. CASE Whl!Arrives \/ Whl!Refresh
  <2>1. UNCHANGED <<sent, cache, adapter, wanted, changes, settled>>
    BY <1>3 DEF Whl!Arrives, Whl!Refresh, Whl!history
  <2>2. PICK a : /\ answers' = Append(answers, a) /\ ~a.reply /\ Says(a.state)'
                 /\ a.state = "Busy" => wheel.going # 0
                 /\ ~wheel.refused => a.state \in {"Ok", "Busy"}
                 /\ wheel.going = 0 => wheel' = wheel /\ (~wheel.refused => a.state = "Ok")
                 /\ wheel.going # 0 =>
                      ~wheel.refused /\ ~wheel'.refused
                        /\ (wheel' = wheel \/ (wheel'.going = 0 /\ wheel'.at = wheel.going))
    BY <1>1, <1>3, OwnAnswer DEF Received
  <2>3. AwaitsAnswer' BY <1>1, <2>1 DEF AwaitsAnswer
  <2>4. Received' BY <1>1, <2>1, <2>2 DEF Received
  <2>5. /\ DOMAIN answers' = 1 .. (Len(answers) + 1)
        /\ \A i \in DOMAIN answers : answers'[i] = answers[i]
        /\ answers'[Len(answers) + 1] = a
    BY <2>2, Appended
  <2>6. \A i \in DOMAIN answers' : i \in Nat /\ (i \in DOMAIN answers \/ (i = Len(answers) + 1 /\ i > k))
    BY <1>d, <2>5
  <2>7. \A i \in DOMAIN answers : i >= k => Says(answers[i].state)
    BY DEF AnswerComes
  <2>8. \A i \in DOMAIN answers : i >= k => Says(answers[i].state)'
    BY <2>2, <2>5, <2>7 DEF Says
  <2>9. \A i \in DOMAIN answers' : i < k => answers'[i].state # "Busy"
    BY <1>d, <2>5, <2>6 DEF AnswerComes
  <2>10. \A i \in DOMAIN answers' : answers'[i].reply <=> i = k
    <3>1. \A i \in DOMAIN answers : answers'[i].reply <=> i = k BY <2>5 DEF AnswerComes
    <3> QED BY <1>d, <2>2, <2>5, <2>6, <3>1
  <2>11. \A i \in DOMAIN answers' : i >= k => Says(answers[i].state)'
    BY <2>2, <2>5, <2>6, <2>8
  <2>12. ASSUME NEW i \in DOMAIN answers', NEW j \in DOMAIN answers', k <= i, i < j,
                answers'[j].state = "Busy"
         PROVE  answers'[i].state = "Busy"
    <3>1. i \in DOMAIN answers BY <1>d, <2>5, <2>12
    <3>2. CASE j \in DOMAIN answers BY <2>5, <2>12, <3>1, <3>2 DEF AnswerComes
    <3>3. CASE j = Len(answers) + 1
      <4>1. wheel.going # 0 BY <2>2, <2>5, <2>12, <3>3
      <4>2. answers[i].state = "Busy" BY <1>d, <2>7, <2>12, <3>1, <4>1 DEF Says
      <4> QED BY <2>5, <3>1, <4>2
    <3> QED BY <2>6, <3>2, <3>3
  <2>13. AnswerComes(k)'
    BY <2>3, <2>4, <2>9, <2>10, <2>11, <2>12 DEF AnswerComes
  <2> QED BY <1>d, <2>5, <2>13
<1>4. CASE Whl!OnElement
  <2>1. UNCHANGED <<sent, wheel, adapter, wanted, changes, settled>>
        /\ cache'.state = Head(answers).state /\ answers # <<>> /\ answers' = Tail(answers)
    BY <1>4 DEF Whl!OnElement, Whl!history
  <2>2. /\ DOMAIN answers' = 1 .. (Len(answers) - 1)
        /\ \A i \in DOMAIN answers' : answers'[i] = answers[i + 1]
        /\ Head(answers) = answers[1]
        /\ answers[1].state \in {"Ok", "Busy", "Alert"}
    BY <2>1, Taken
  <2>3. \A i \in DOMAIN answers' : i \in Nat /\ i + 1 \in DOMAIN answers BY <1>d, <2>2
  <2>4. Received' BY <1>1, <2>1 DEF Received
  <2>5. CASE k = 1
    <3>1. \A i \in DOMAIN answers' : ~answers'[i].reply
      BY <2>2, <2>3, <2>5 DEF AnswerComes
    <3>2. \A i \in DOMAIN answers : Says(answers[i].state) BY <1>d, <2>5 DEF AnswerComes
    <3>3. Says(cache.state)' /\ \A i \in DOMAIN answers' : Says(answers[i].state)'
      BY <1>d, <2>1, <2>2, <2>3, <2>5, <3>2 DEF Says
    <3>4. \A i \in DOMAIN answers' : answers'[i].state = "Busy" => cache'.state = "Busy"
      BY <1>d, <2>1, <2>2, <2>3, <2>5 DEF AnswerComes
    <3>5. \A i, j \in DOMAIN answers' : i < j /\ answers'[j].state = "Busy" => answers'[i].state = "Busy"
      <4> SUFFICES ASSUME NEW i \in DOMAIN answers', NEW j \in DOMAIN answers', i < j,
                          answers'[j].state = "Busy"
                   PROVE  answers'[i].state = "Busy"
        OBVIOUS
      <4>1. i + 1 \in DOMAIN answers /\ j + 1 \in DOMAIN answers /\ k <= i + 1 /\ i + 1 < j + 1
        BY <1>d, <2>2, <2>3, <2>5
      <4> QED BY <2>2, <4>1 DEF AnswerComes
    <3>6. changes' > 0 /\ ~adapter'.busySeen /\ ~wanted'.seenBusy /\ settled' = "none"
      BY <1>1, <2>1 DEF AwaitsAnswer
    <3>7. sent' = <<>> /\ cache'.state # "none" /\ changes \in Nat /\ changes' = changes
      BY <1>1, <2>1, <2>2 DEF Received, WheelTyped
    <3>8. AnswerCame'
      BY <2>4, <3>1, <3>3, <3>4, <3>5, <3>6, <3>7 DEF AnswerCame
    <3> QED BY <3>8
  <2>6. CASE k # 1
    <3> DEFINE l == k - 1
    <3>1. l \in DOMAIN answers' /\ l \in Nat /\ k = l + 1 BY <1>d, <2>2, <2>6
    <3> HIDE DEF l
    <3>2. cache'.state \in {"Ok", "Alert"}
      <4>1. 1 \in DOMAIN answers /\ 1 < k BY <1>d, <2>6
      <4>2. answers[1].state # "Busy" BY <4>1 DEF AnswerComes
      <4> QED BY <2>1, <2>2, <4>2
    <3>3. AwaitsAnswer' BY <1>1, <2>1, <3>2 DEF AwaitsAnswer
    <3>4. \A i \in DOMAIN answers' : i < l => answers'[i].state # "Busy"
      BY <2>2, <2>3, <3>1 DEF AnswerComes
    <3>5. \A i \in DOMAIN answers' : answers'[i].reply <=> i = l
      <4> SUFFICES ASSUME NEW i \in DOMAIN answers' PROVE answers'[i].reply <=> i = l
        OBVIOUS
      <4>1. answers[i + 1].reply <=> i + 1 = k BY <2>3 DEF AnswerComes
      <4> QED BY <2>2, <2>3, <3>1, <4>1
    <3>6. \A i \in DOMAIN answers' : i >= l => Says(answers[i].state)'
      <4> SUFFICES ASSUME NEW i \in DOMAIN answers', i >= l PROVE Says(answers[i].state)'
        OBVIOUS
      <4>1. Says(answers[i + 1].state) BY <2>3, <3>1 DEF AnswerComes
      <4> QED BY <2>1, <2>2, <4>1 DEF Says
    <3>7. \A i, j \in DOMAIN answers' :
            l <= i /\ i < j /\ answers'[j].state = "Busy" => answers'[i].state = "Busy"
      <4> SUFFICES ASSUME NEW i \in DOMAIN answers', NEW j \in DOMAIN answers', l <= i, i < j,
                          answers'[j].state = "Busy"
                   PROVE  answers'[i].state = "Busy"
        OBVIOUS
      <4>1. i + 1 \in DOMAIN answers /\ j + 1 \in DOMAIN answers /\ k <= i + 1 /\ i + 1 < j + 1
        BY <2>3, <3>1
      <4> QED BY <2>2, <4>1 DEF AnswerComes
    <3>8. AnswerComes(l)' BY <2>4, <3>3, <3>4, <3>5, <3>6, <3>7 DEF AnswerComes
    <3> QED BY <3>1, <3>8
  <2> QED BY <2>5, <2>6
<1>6. CASE Whl!MarkDisconnected BY <1>6 DEF Whl!MarkDisconnected, Whl!Lost
<1>7. CASE Whl!Connect BY <1>7 DEF Whl!Connect
<1>8. CASE Whl!Disconnect BY <1>8 DEF Whl!Disconnect
<1>9. CASE Whl!GraceEnds
  <2>1. \A i \in DOMAIN answers : ~answers[i].reply BY <1>9 DEF Whl!GraceEnds
  <2> QED BY <2>1 DEF AnswerComes
<1>10. ASSUME NEW s, Whl!SetClicked(s) PROVE FALSE
  BY <1>1, <1>10 DEF Whl!SetClicked, AwaitsAnswer
<1>11. ASSUME NEW expired \in BOOLEAN, Whl!PollOnce(expired) PROVE AnswerComes(k)' /\ k \in DOMAIN answers'
  <2>1. UNCHANGED <<wheel, sent, answers, cache, changes, adapter, wanted, settled>>
    BY <1>1, <1>11, PollWaits DEF Whl!PollOnce, Whl!wire
  <2> QED BY <2>1 DEF AnswerComes, AwaitsAnswer, Received, Says
<1> QED
  BY <1>2, <1>3, <1>4, <1>6, <1>7, <1>8, <1>9, <1>10, <1>11 DEF Whl!WheelNext, Whl!Driver

\* Once its answer has come a change can be settled, and the next one begin.
LEMMA FromAnswerCame ==
  ASSUME WheelTyped, up, cache.state # "none", Prompt, ~Reconnects, Whl!WheelNext, up', AnswerCame
  PROVE  Commanded' \/ AnswerCame'
<1>r. ~(wheel.refused /\ wheel.going # 0) BY DEF AnswerCame, Received, WheelTyped
<1>1. sent = <<>> BY DEF AnswerCame
<1>d. Len(answers) \in Nat /\ DOMAIN answers = 1 .. Len(answers)
  BY DEF WheelTyped
<1>2. CASE Whl!Receive BY <1>1, <1>2 DEF Whl!Receive
<1>3. CASE Whl!Arrives \/ Whl!Refresh
  <2>1. UNCHANGED <<sent, cache, adapter, wanted, changes, settled>>
    BY <1>3 DEF Whl!Arrives, Whl!Refresh, Whl!history
  <2>2. PICK a : /\ answers' = Append(answers, a) /\ ~a.reply /\ Says(a.state)'
                 /\ a.state = "Busy" => wheel.going # 0
                 /\ ~wheel.refused => a.state \in {"Ok", "Busy"}
                 /\ wheel.going = 0 => wheel' = wheel /\ (~wheel.refused => a.state = "Ok")
                 /\ wheel.going # 0 =>
                      ~wheel.refused /\ ~wheel'.refused
                        /\ (wheel' = wheel \/ (wheel'.going = 0 /\ wheel'.at = wheel.going))
    BY <1>1, <1>3, <1>r, OwnAnswer
  <2>3. changes > 0 => Received' BY <2>1, <2>2 DEF Received, AnswerCame
  <2>4. /\ DOMAIN answers' = 1 .. (Len(answers) + 1)
        /\ \A i \in DOMAIN answers : answers'[i] = answers[i]
        /\ answers'[Len(answers) + 1] = a
    BY <2>2, Appended
  <2>5. \A i \in DOMAIN answers' : i \in DOMAIN answers \/ i = Len(answers) + 1
    BY <1>d, <2>4
  <2>6. \A s \in {"Ok", "Busy", "Alert"} : Says(s) => Says(s)'
    BY <2>2 DEF Says
  <2>7. answers \in Seq([slot : AnySlot, state : {"Ok", "Busy", "Alert"}, reply : BOOLEAN])
        /\ cache.state \in {"Ok", "Busy", "Alert"}
    BY DEF WheelTyped
  <2>8. \A i \in DOMAIN answers : answers[i].state \in {"Ok", "Busy", "Alert"}
    <3> DEFINE A == [slot : AnySlot, state : {"Ok", "Busy", "Alert"}, reply : BOOLEAN]
    <3>1. answers \in Seq(A) BY <2>7
    <3> HIDE DEF A
    <3>2. \A i \in DOMAIN answers : answers[i] \in A BY <3>1
    <3> QED BY <3>2 DEF A
  <2>9. \A i \in DOMAIN answers' : ~answers'[i].reply /\ Says(answers[i].state)'
    BY <2>2, <2>4, <2>5, <2>6, <2>8 DEF AnswerCame
  <2>10. Says(cache.state)' BY <2>1, <2>6, <2>7 DEF AnswerCame, Says
  <2>11. wheel.going # 0 => cache.state = "Busy" /\ \A i \in DOMAIN answers : answers[i].state = "Busy"
    BY DEF AnswerCame, Says
  <2>12. \A i \in DOMAIN answers' : answers'[i].state = "Busy" => cache'.state = "Busy"
    BY <2>1, <2>2, <2>4, <2>5, <2>11 DEF AnswerCame
  <2>13. ASSUME NEW i \in DOMAIN answers', NEW j \in DOMAIN answers', i < j,
                answers'[j].state = "Busy"
         PROVE  answers'[i].state = "Busy"
    <3>1. i \in DOMAIN answers BY <1>d, <2>4, <2>13
    <3>2. CASE j \in DOMAIN answers BY <2>4, <2>13, <3>1, <3>2 DEF AnswerCame
    <3>3. CASE j = Len(answers) + 1 BY <2>2, <2>4, <2>11, <2>13, <3>1, <3>3
    <3> QED BY <2>5, <3>2, <3>3
  <2>14. changes = 0 => /\ wheel'.going = 0 /\ ~wheel'.refused
                        /\ \A i \in DOMAIN answers' : answers'[i].state = "Ok"
    BY <2>2, <2>4, <2>5 DEF AnswerCame
  <2>15. /\ settled = "confirmed" => wheel'.going = 0 /\ ~wheel'.refused
         /\ settled = "rejected" => wheel'.going = 0 /\ wheel'.refused
         /\ adapter.busySeen \/ wanted.seenBusy => ~wheel'.refused
    BY <2>2 DEF AnswerCame
  <2>16. AnswerCame'
    BY <2>1, <2>3, <2>9, <2>10, <2>12, <2>13, <2>14, <2>15 DEF AnswerCame
  <2> QED BY <2>16
<1>4. CASE Whl!OnElement
  <2>1. UNCHANGED <<sent, wheel, adapter, wanted, changes, settled>>
        /\ cache'.state = Head(answers).state /\ answers # <<>> /\ answers' = Tail(answers)
    BY <1>4 DEF Whl!OnElement, Whl!history
  <2>2. /\ DOMAIN answers' = 1 .. (Len(answers) - 1)
        /\ \A i \in DOMAIN answers' : answers'[i] = answers[i + 1]
        /\ Head(answers) = answers[1]
        /\ answers[1].state \in {"Ok", "Busy", "Alert"}
    BY <2>1, Taken
  <2>3. 1 \in DOMAIN answers /\ \A i \in DOMAIN answers' : i \in Nat /\ i + 1 \in DOMAIN answers /\ 1 < i + 1
    BY <1>d, <2>1, <2>2
  <2>4. cache'.state = answers[1].state /\ cache'.state # "none" BY <2>1, <2>2
  <2>5. \A s : Says(s) <=> Says(s)' BY <2>1 DEF Says
  <2>6. Says(cache.state)' /\ \A i \in DOMAIN answers' : ~answers'[i].reply /\ Says(answers[i].state)'
    <3>1. \A i \in DOMAIN answers : ~answers[i].reply /\ Says(answers[i].state) BY DEF AnswerCame
    <3> QED BY <2>1, <2>2, <2>3, <2>4, <3>1 DEF Says
  <2>7. \A i \in DOMAIN answers' : answers'[i].state = "Busy" => cache'.state = "Busy"
    BY <2>2, <2>3, <2>4 DEF AnswerCame
  <2>8. \A i, j \in DOMAIN answers' : i < j /\ answers'[j].state = "Busy" => answers'[i].state = "Busy"
    <3> SUFFICES ASSUME NEW i \in DOMAIN answers', NEW j \in DOMAIN answers', i < j,
                        answers'[j].state = "Busy"
                 PROVE  answers'[i].state = "Busy"
      OBVIOUS
    <3>1. i + 1 \in DOMAIN answers /\ j + 1 \in DOMAIN answers /\ i + 1 < j + 1 BY <2>3
    <3> QED BY <2>2, <3>1 DEF AnswerCame
  <2>9. changes > 0 => Received' BY <2>1 DEF AnswerCame, Received
  <2>10. changes = 0 => cache'.state = "Ok" /\ \A i \in DOMAIN answers' : answers'[i].state = "Ok"
    BY <2>2, <2>3, <2>4 DEF AnswerCame
  <2>11. AnswerCame'
    BY <2>1, <2>4, <2>6, <2>7, <2>8, <2>9, <2>10 DEF AnswerCame
  <2> QED BY <2>11
<1>6. CASE Whl!MarkDisconnected BY <1>6 DEF Whl!MarkDisconnected, Whl!Lost
<1>7. CASE Whl!Connect BY <1>7 DEF Whl!Connect
<1>8. CASE Whl!Disconnect BY <1>8 DEF Whl!Disconnect
<1>9. CASE Whl!GraceEnds
  <2>1. UNCHANGED <<wheel, sent, answers, cache, changes, wanted, settled>>
        /\ adapter'.busySeen = adapter.busySeen /\ adapter'.requested = adapter.requested
    BY <1>9 DEF Whl!GraceEnds, Whl!wire, Whl!history, WheelTyped
  <2> QED BY <2>1 DEF AnswerCame, Received, Says
<1>10. ASSUME NEW names \in {{}, Slots}, NEW s \in Whl!Offered(names) \ {0}, Whl!SetClicked(s)
       PROVE  Commanded'
  <2>1. /\ sent' = <<s>> /\ adapter'.requested = s /\ adapter'.grace /\ ~adapter'.busySeen
        /\ wanted' = [slot |-> s, seenBusy |-> FALSE] /\ changes' = changes + 1 /\ settled' = "none"
        /\ UNCHANGED <<wheel, answers, cache>> /\ cache.state # "Busy"
    BY <1>1, <1>10 DEF Whl!SetClicked, WheelTyped
  <2>2. cache.state \in {"Ok", "Alert"} /\ changes \in Nat BY <2>1 DEF WheelTyped
  <2>3. AwaitsAnswer' BY <2>1, <2>2 DEF AwaitsAnswer
  <2>4. wheel.going = 0 /\ \A i \in DOMAIN answers : answers[i].state # "Busy" /\ ~answers[i].reply
    BY <2>1 DEF AnswerCame, Says
  <2> QED BY <2>1, <2>3, <2>4 DEF Commanded
<1>11. ASSUME NEW expired \in BOOLEAN, Whl!PollOnce(expired) PROVE AnswerCame'
  <2>1. UNCHANGED <<wheel, sent, answers, cache, changes>> BY <1>11 DEF Whl!PollOnce, Whl!wire
  <2>2. Whl!Busy => cache.state = "Busy" BY DEF Whl!Busy
  <2>3. cache.state = "Busy" => changes > 0 /\ ~wheel.refused
    BY DEF AnswerCame, Says, WheelTyped
  <2>4. adapter'.requested = adapter.requested
        /\ (adapter'.busySeen => adapter.busySeen \/ Whl!Busy)
    BY <1>11 DEF Whl!PollOnce, WheelTyped
  <2>5. changes > 0 => Received' BY <2>1, <2>4 DEF AnswerCame, Received
  <2>6. adapter'.busySeen => changes > 0 /\ ~wheel.refused BY <2>2, <2>3, <2>4 DEF AnswerCame
  <2>7. Whl!Available
    <3>1. cache # Whl!Nothing BY DEF Whl!Nothing
    <3> QED BY <3>1 DEF Whl!Available, WheelTyped
  <2>8. /\ wanted'.slot # 0 \/ wanted'.seenBusy \/ settled' # "none" => changes > 0
        /\ wanted'.seenBusy => ~wheel.refused
        /\ settled' = "confirmed" => wheel.going = 0 /\ ~wheel.refused
        /\ settled' = "rejected" => wheel.going = 0 /\ wheel.refused
    <3>1. CASE wanted.slot = 0 /\ UNCHANGED <<wanted, settled>> BY <3>1 DEF AnswerCame
    <3>2. CASE wanted.slot # 0 /\ Whl!Rejected /\ Whl!Settle("rejected")
      <4>1. cache.state = "Alert" BY <3>2 DEF Whl!Rejected
      <4>2. wheel.refused /\ wheel.going = 0 BY <4>1 DEF AnswerCame, Says
      <4>3. changes > 0 BY <3>2 DEF AnswerCame
      <4>4. settled' = "rejected" /\ wanted'.seenBusy = wanted.seenBusy
        BY <3>2 DEF Whl!Settle, WheelTyped
      <4> QED BY <4>2, <4>3, <4>4 DEF AnswerCame
    <3>3. CASE wanted.slot # 0 /\ ~Whl!Rejected /\ ~Whl!Busy /\ wanted.seenBusy /\ Whl!Settle("confirmed")
      <4>1. cache.state # "Busy" BY <2>7, <3>3 DEF Whl!Busy
      <4>2. wheel.going = 0 /\ ~wheel.refused /\ changes > 0 BY <3>3, <4>1 DEF AnswerCame, Says
      <4>3. settled' = "confirmed" BY <3>3 DEF Whl!Settle
      <4> QED BY <4>2, <4>3
    <3>4. CASE /\ wanted.slot # 0 /\ ~Whl!Rejected /\ (Whl!Busy \/ ~wanted.seenBusy)
               /\ IF expired THEN Whl!Settle("timeout")
                  ELSE wanted' = [wanted EXCEPT !.seenBusy = @ \/ Whl!Busy] /\ settled' = settled
      <4>1. changes > 0 BY <3>4 DEF AnswerCame
      <4>2. wanted'.seenBusy => wanted.seenBusy \/ Whl!Busy BY <3>4 DEF Whl!Settle, WheelTyped
      <4>3. settled' \in {"timeout", settled} BY <3>4 DEF Whl!Settle
      <4> QED BY <2>2, <2>3, <4>1, <4>2, <4>3 DEF AnswerCame
    <3> QED BY <1>11, <3>1, <3>2, <3>3, <3>4 DEF Whl!PollOnce
  <2> QED BY <2>1, <2>5, <2>6, <2>8 DEF AnswerCame, Says
<1> QED
  BY <1>2, <1>3, <1>4, <1>6, <1>7, <1>8, <1>9, <1>10, <1>11 DEF Whl!WheelNext, Whl!Driver

\* The change in flight stays what the driver's answers make of it.
LEMMA WheelKeeps ==
  ASSUME WheelTyped, WheelSteady, Prompt, ~Reconnects, [Whl!WheelNext]_wheelVars
  PROVE  WheelSteady'
<1>1. CASE UNCHANGED wheelVars
  BY <1>1 DEF wheelVars, WheelSteady, Untouched, Commanded, AnswerComes, AnswerCame, AwaitsAnswer,
              Received, Says
<1>2. CASE Whl!WheelNext /\ cache.state = "none" BY <1>2, StaysUntouched
<1>3. CASE Whl!WheelNext /\ cache.state # "none"
  <2>1. cache'.state # "none"
    <3>1. CASE Whl!OnElement
      <4>1. answers # <<>> /\ answers' = Tail(answers) /\ cache'.state = Head(answers).state
        BY <3>1 DEF Whl!OnElement
      <4> QED BY <4>1, Taken
    <3>2. CASE Whl!Connect BY <1>3, <3>2 DEF Whl!Connect, Whl!Nothing
    <3>3. CASE UNCHANGED cache BY <1>3, <3>3
    <3> QED
      BY <1>3, <3>1, <3>2, <3>3 DEF Whl!WheelNext, Whl!Driver, Whl!Receive, Whl!Arrives, Whl!Refresh,
         Whl!MarkDisconnected, Whl!Lost, Whl!Disconnect, Whl!GraceEnds, Whl!SetClicked, Whl!PollOnce
  <2>2. up' => up
    <3>1. ~Whl!Connect BY <1>3 DEF Whl!Connect, Whl!Nothing
    <3> QED
      BY <1>3, <3>1 DEF Whl!WheelNext, Whl!Driver, Whl!Receive, Whl!Arrives, Whl!Refresh,
         Whl!OnElement, Whl!MarkDisconnected, Whl!Lost, Whl!Disconnect, Whl!GraceEnds,
         Whl!SetClicked, Whl!PollOnce, Whl!wire
  <2>3. up' => Commanded' \/ (\E k \in DOMAIN answers' : AnswerComes(k)') \/ AnswerCame'
    <3> SUFFICES ASSUME up'
                 PROVE  Commanded' \/ (\E k \in DOMAIN answers' : AnswerComes(k)') \/ AnswerCame'
      OBVIOUS
    <3>1. Commanded \/ (\E k \in DOMAIN answers : AnswerComes(k)) \/ AnswerCame
      BY <1>3, <2>2 DEF WheelSteady
    <3>2. CASE Commanded BY <1>3, <2>2, <3>2, FromCommanded
    <3>3. ASSUME NEW k \in DOMAIN answers, AnswerComes(k)
          PROVE  (\E l \in DOMAIN answers' : AnswerComes(l)') \/ AnswerCame'
      BY <1>3, <2>2, <3>3, FromAnswerComes
    <3>4. CASE AnswerCame BY <1>3, <2>2, <3>4, FromAnswerCame
    <3> QED BY <3>1, <3>2, <3>3, <3>4
  <2> QED BY <2>1, <2>3 DEF WheelSteady
<1> QED BY <1>1, <1>2, <1>3

\* A change is reported as done or rejected as the driver says it is.
LEMMA WheelFacts == WheelTyped /\ WheelSteady => Whl!SettledAsSaid
<1> SUFFICES ASSUME WheelTyped, WheelSteady, up,
                    settled = "confirmed" \/ settled = "rejected"
             PROVE  /\ settled = "confirmed" => (wheel.going = 0 /\ wheel.at = adapter.requested)
                    /\ settled = "rejected" => (wheel.going = 0 /\ wheel.refused)
  BY DEF Whl!SettledAsSaid
<1>1. cache.state # "none" BY DEF WheelSteady, Untouched
<1>2. AnswerCame BY <1>1 DEF WheelSteady, Commanded, AnswerComes, AwaitsAnswer
<1> QED BY <1>2 DEF AnswerCame, Received

-------------------------------------------------------------------------------
(* The main window. *)

\* Two panels.
LEMMA TwoPanels ==
  /\ Win!Other("main") = "guide" /\ Win!Other("guide") = "main"
  /\ Win!Panels = {"main", "guide"}
BY DEF Win!Other, Win!Panels

\* The window starts with its choices in agreement.
LEMMA WindowStarts == "demo" \notin Devices /\ Win!WindowInit => WindowInv
<1> SUFFICES ASSUME "demo" \notin Devices, Win!WindowInit PROVE WindowInv
  OBVIOUS
<1> USE DEF Win!WindowInit, Win!FirstChoice, Win!NoCameras
<1>1. Win!WindowTypeOK BY DEF Win!WindowTypeOK
<1>2. Win!WindowConsistent BY TwoPanels DEF Win!WindowConsistent
<1>3. offered = [p \in Win!Panels |-> Devices \ {device[Win!Other(p)]}]
  BY TwoPanels
<1>4. fov \in [at : {"idle", "running", "ok", "miss"}, of : [Win!Panels -> Devices \cup {"demo", "none"}]]
  OBVIOUS
<1> QED BY <1>1, <1>2, <1>3, <1>4 DEF WindowInv

\* The choices there are.
Choices == [op : {"terrestrial", "astronomical"}, target : {"natural", "artificial"},
            reg : {"terrestrial", "star_field", "artificial"}, focus : BOOLEAN]

\* The choices that agree.
Agree(c) ==
  /\ c \in Choices
  /\ c.target = "artificial" <=> c.reg = "artificial"
  /\ c.focus = (c.target = "artificial")
  /\ c.target = "artificial" => c.op = "terrestrial"
  /\ c.reg = "star_field" => c.op = "astronomical"

\* A mode selects the matcher, and nothing else.
LEMMA ModeApplied ==
  ASSUME NEW c \in Choices
  PROVE  LET d == Win!ApplyOperatingMode(c)
         IN  /\ d \in Choices /\ d.op = c.op /\ d.target = c.target /\ d.focus = c.focus
             /\ c.op = "astronomical" => d.reg = "star_field"
             /\ c.op = "terrestrial" => d.reg = IF c.reg = "star_field" THEN "terrestrial" ELSE c.reg
BY DEF Win!ApplyOperatingMode, Choices

\* Terrestrial mode is required of an artificial target, and leaves its matcher.
LEMMA TerrestrialRequired ==
  ASSUME NEW c \in Choices, c.reg = "artificial"
  PROVE  LET d == Win!RequireTerrestrial(c)
         IN  /\ d \in Choices /\ d.op = "terrestrial" /\ d.target = c.target /\ d.focus = c.focus
             /\ d.reg = "artificial"
<1>1. CASE c.op = "terrestrial"
  BY <1>1 DEF Win!RequireTerrestrial, Choices
<1>2. CASE c.op = "astronomical"
  <2> DEFINE e == [c EXCEPT !.op = "terrestrial"]
  <2>1. /\ e \in Choices /\ e.op = "terrestrial" /\ e.target = c.target /\ e.focus = c.focus
        /\ e.reg = "artificial"
    BY DEF Choices
  <2>2. Win!RequireTerrestrial(c) = Win!ApplyOperatingMode(e) BY <1>2 DEF Win!RequireTerrestrial
  <2> HIDE DEF e
  <2> QED BY <2>1, <2>2, ModeApplied
<1> QED BY <1>1, <1>2 DEF Choices

\* The matcher and the metric follow the target.
LEMMA TargetFollowed ==
  ASSUME NEW c \in Choices
  PROVE  LET d == Win!TargetChanged(c)
         IN  /\ d \in Choices /\ d.target = c.target /\ d.focus = (c.target = "artificial")
             /\ c.target = "artificial" => d.op = "terrestrial" /\ d.reg = "artificial"
             /\ c.target = "natural" =>
                  /\ d.op = c.op
                  /\ c.reg # "artificial" => d.reg = c.reg
                  /\ c.reg = "artificial" =>
                       d.reg = IF c.op = "astronomical" THEN "star_field" ELSE "terrestrial"
<1> DEFINE f == [c EXCEPT !.focus = c.target = "artificial"]
           r == [f EXCEPT !.reg = "artificial"]
           n == [f EXCEPT !.reg = IF c.op = "astronomical" THEN "star_field" ELSE "terrestrial"]
<1>1. /\ f \in Choices /\ f.op = c.op /\ f.target = c.target /\ f.reg = c.reg
      /\ f.focus = (c.target = "artificial")
  BY DEF Choices
<1>2. /\ r \in Choices /\ r.op = c.op /\ r.target = c.target /\ r.reg = "artificial"
      /\ r.focus = (c.target = "artificial")
  BY DEF Choices
<1>3. /\ n \in Choices /\ n.op = c.op /\ n.target = c.target
      /\ n.reg = IF c.op = "astronomical" THEN "star_field" ELSE "terrestrial"
      /\ n.focus = (c.target = "artificial")
  BY DEF Choices
<1>4. CASE c.target = "artificial"
  <2>1. Win!TargetChanged(c) = Win!RequireTerrestrial(r) BY <1>4 DEF Win!TargetChanged
  <2> HIDE DEF r
  <2> QED BY <1>2, <1>4, <2>1, TerrestrialRequired
<1>5. CASE c.target = "natural" /\ c.reg = "artificial"
  <2>1. Win!TargetChanged(c) = n BY <1>5 DEF Win!TargetChanged
  <2> HIDE DEF n
  <2> QED BY <1>3, <1>5, <2>1
<1>6. CASE c.target = "natural" /\ c.reg # "artificial"
  <2>1. Win!TargetChanged(c) = f BY <1>6 DEF Win!TargetChanged
  <2> HIDE DEF f
  <2> QED BY <1>1, <1>6, <2>1
<1> QED BY <1>4, <1>5, <1>6 DEF Choices

\* Another target.
LEMMA TargetSet ==
  ASSUME NEW c \in Choices, NEW t \in {"natural", "artificial"}, c.target # t
  PROVE  LET d == Win!SetTarget(c, t)
         IN  /\ d \in Choices /\ d.target = t /\ d.focus = (t = "artificial")
             /\ t = "artificial" => d.op = "terrestrial" /\ d.reg = "artificial"
             /\ t = "natural" =>
                  /\ d.op = c.op
                  /\ c.reg # "artificial" => d.reg = c.reg
                  /\ c.reg = "artificial" =>
                       d.reg = IF c.op = "astronomical" THEN "star_field" ELSE "terrestrial"
<1> DEFINE e == [c EXCEPT !.target = t]
<1>1. e \in Choices /\ e.op = c.op /\ e.target = t /\ e.reg = c.reg BY DEF Choices
<1>2. Win!SetTarget(c, t) = Win!TargetChanged(e) BY DEF Win!SetTarget
<1> HIDE DEF e
<1>3. CASE t = "natural" BY <1>1, <1>2, <1>3, TargetFollowed
<1>4. CASE t = "artificial" BY <1>1, <1>2, <1>4, TargetFollowed
<1> QED BY <1>3, <1>4

\* Another mode leaves the choices in agreement.
LEMMA ModeAgrees ==
  ASSUME NEW c, Agree(c), NEW m \in {"terrestrial", "astronomical"}
  PROVE  Agree(Win!OperatingModeChanged([c EXCEPT !.op = m]))
<1> DEFINE e == [c EXCEPT !.op = m]
           s == IF e.op = "astronomical" THEN Win!SetTarget(e, "natural") ELSE e
<1>1. /\ e \in Choices /\ e.op = m /\ e.target = c.target /\ e.reg = c.reg /\ e.focus = c.focus
  BY DEF Agree, Choices
<1>2. Win!OperatingModeChanged(e) = Win!ApplyOperatingMode(s) BY DEF Win!OperatingModeChanged
<1> HIDE DEF e
<1>3. /\ s \in Choices /\ s.op = m /\ s.focus = (s.target = "artificial")
      /\ m = "astronomical" => s.target = "natural"
      /\ m = "terrestrial" => s.reg = c.reg /\ s.target = c.target
  <2>1. CASE m = "terrestrial"
    <3>1. s = e BY <1>1, <2>1
    <3> HIDE DEF s
    <3> QED BY <1>1, <2>1, <3>1 DEF Agree
  <2>2. CASE m = "astronomical" /\ c.target = "natural"
    <3>1. s = e BY <1>1, <2>2 DEF Win!SetTarget
    <3> HIDE DEF s
    <3> QED BY <1>1, <2>2, <3>1 DEF Agree
  <2>3. CASE m = "astronomical" /\ c.target = "artificial"
    <3>1. s = Win!SetTarget(e, "natural") BY <1>1, <2>3
    <3> HIDE DEF s
    <3> QED BY <1>1, <2>3, <3>1, TargetSet
  <2> QED BY <2>1, <2>2, <2>3 DEF Agree, Choices
<1> HIDE DEF s
<1> DEFINE d == Win!ApplyOperatingMode(s)
<1>4. /\ d \in Choices /\ d.op = s.op /\ d.target = s.target /\ d.focus = s.focus
      /\ s.op = "astronomical" => d.reg = "star_field"
      /\ s.op = "terrestrial" => d.reg = IF s.reg = "star_field" THEN "terrestrial" ELSE s.reg
  BY <1>3, ModeApplied
<1> HIDE DEF d
<1>5. Agree(d)
  <2>1. CASE m = "terrestrial" BY <1>3, <1>4, <2>1 DEF Agree
  <2>2. CASE m = "astronomical" BY <1>3, <1>4, <2>2 DEF Agree
  <2> QED BY <2>1, <2>2
<1> QED BY <1>2, <1>5 DEF d, e

\* So does another target.
LEMMA TargetAgrees ==
  ASSUME NEW c, Agree(c), NEW t \in {"natural", "artificial"}, c.target # t
  PROVE  Agree(Win!SetTarget(c, t))
<1>1. c \in Choices BY DEF Agree
<1>2. CASE t = "natural" BY <1>1, <1>2, TargetSet DEF Agree, Choices
<1>3. CASE t = "artificial" BY <1>1, <1>3, TargetSet DEF Agree
<1> QED BY <1>2, <1>3

\* And another matcher, where it is offered.
LEMMA MatcherAgrees ==
  ASSUME NEW c, Agree(c), NEW r \in {"terrestrial", "star_field", "artificial"},
         c.reg # r, r = "star_field" => c.op = "astronomical"
  PROVE  Agree(Win!RegistrationToggled(c, r))
<1> DEFINE e == [c EXCEPT !.reg = r]
<1>1. /\ e \in Choices /\ e.op = c.op /\ e.target = c.target /\ e.reg = r /\ e.focus = c.focus
  BY DEF Agree, Choices
<1>2. CASE r = "artificial"
  <2>1. c.target = "natural" BY <1>2 DEF Agree, Choices
  <2>2. Win!RegistrationToggled(c, r) = Win!SetTarget(e, "artificial")
    BY <1>2, <2>1 DEF Win!RegistrationToggled
  <2> HIDE DEF e
  <2> QED BY <1>1, <2>1, <2>2, TargetSet DEF Agree
<1>3. CASE r # "artificial" /\ c.target = "artificial"
  <2>1. Win!RegistrationToggled(c, r) = Win!SetTarget(e, "natural")
    BY <1>3 DEF Win!RegistrationToggled
  <2> HIDE DEF e
  <2> QED BY <1>1, <1>3, <2>1, TargetSet DEF Agree
<1>4. CASE r # "artificial" /\ c.target # "artificial"
  <2>1. Win!RegistrationToggled(c, r) = e BY <1>4 DEF Win!RegistrationToggled
  <2> HIDE DEF e
  <2> QED BY <1>1, <1>4, <2>1 DEF Agree
<1> QED BY <1>2, <1>3, <1>4

\* Every step of the window keeps what it shows and offers consistent.
LEMMA WindowStep ==
  ASSUME "demo" \notin Devices, WindowInv, [Win!WindowNext]_windowVars PROVE WindowInv'
<1> USE TwoPanels
<1>1. Agree(choice)
  BY DEF WindowInv, Win!WindowTypeOK, Win!WindowConsistent, Agree, Choices
<1>2. /\ device \in [Win!Panels -> Devices \cup {"demo"}]
      /\ offered = [p \in Win!Panels |-> Devices \ {device[Win!Other(p)]}]
      /\ device["main"] = device["guide"] => device["main"] = "demo"
  BY DEF WindowInv, Win!WindowTypeOK, Win!WindowConsistent
<1> DEFINE Rest == /\ {keep, moving, stopEnabled, shut} \subseteq BOOLEAN
                   /\ fov \in [at : {"idle", "running", "ok", "miss"},
                               of : [Win!Panels -> Devices \cup {"demo", "none"}]]
                   /\ fov.at # "idle" => fov.of = pending
                   /\ registration = prior
                   /\ signals \in Nat /\ (signals = 0 => stopEnabled = moving)
           Cameras == /\ device \in [Win!Panels -> Devices \cup {"demo"}]
                      /\ offered = [p \in Win!Panels |-> Devices \ {device[Win!Other(p)]}]
                      /\ device["main"] = device["guide"] => device["main"] = "demo"
<1>3. Rest /\ Cameras
  BY <1>2 DEF WindowInv, Win!WindowTypeOK, Win!WindowConsistent
<1>4. Agree(choice') /\ Rest' /\ Cameras' => WindowInv'
  BY DEF WindowInv, Win!WindowTypeOK, Win!WindowConsistent, Agree, Choices
<1>5. CASE UNCHANGED windowVars
  BY <1>1, <1>3, <1>4, <1>5 DEF windowVars, Agree
<1>6. CASE Win!ChooseMode \/ Win!ChooseTarget \/ Win!ChooseRegistration
  <2>1. Agree(choice')
    <3>1. CASE Win!ChooseMode BY <1>1, <3>1, ModeAgrees DEF Win!ChooseMode
    <3>2. CASE Win!ChooseTarget
      <4>1. PICK t \in {"natural", "artificial"} \ {choice.target} : choice' = Win!SetTarget(choice, t)
        BY <3>2 DEF Win!ChooseTarget
      <4> QED BY <1>1, <4>1, TargetAgrees
    <3>3. CASE Win!ChooseRegistration
      <4>1. PICK r \in {"terrestrial", "star_field", "artificial"} \ {choice.reg} :
              /\ r = "star_field" => choice.op = "astronomical"
              /\ choice' = Win!RegistrationToggled(choice, r)
        BY <3>3 DEF Win!ChooseRegistration
      <4> QED BY <1>1, <4>1, MatcherAgrees
    <3> QED BY <1>6, <3>1, <3>2, <3>3
  <2>2. Rest' /\ Cameras'
    BY <1>3, <1>6 DEF Win!ChooseMode, Win!ChooseTarget, Win!ChooseRegistration, Win!calibration, Win!motion
  <2> QED BY <1>4, <2>1, <2>2
<1>7. ASSUME NEW p \in Win!Panels, Win!ConnectCamera(p) PROVE WindowInv'
  <2>1. PICK d \in offered[p] \cup {"demo"} :
          device' = [device EXCEPT ![p] = d] /\ Win!CameraChanged(p, d)
    BY <1>7 DEF Win!ConnectCamera
  <2>2. d \in (Devices \ {device[Win!Other(p)]}) \cup {"demo"} BY <1>2, <2>1
  <2>3. Cameras'
    <3>1. device' \in [Win!Panels -> Devices \cup {"demo"}] BY <1>2, <2>1, <2>2
    <3>2. offered' = [q \in Win!Panels |-> Devices \ {device'[Win!Other(q)]}]
      BY <1>2, <2>1 DEF Win!CameraChanged
    <3>3. device'["main"] = device'["guide"] => device'["main"] = "demo"
      BY <1>2, <2>1, <2>2
    <3> QED BY <3>1, <3>2, <3>3
  <2>4. Agree(choice') /\ Rest'
    BY <1>1, <1>3, <1>7 DEF Win!ConnectCamera, Agree, Win!calibration, Win!motion
  <2> QED BY <1>4, <2>3, <2>4
<1>8. CASE Win!CalibrateClicked \/ Win!ToggleKeep \/ Win!WorkerEnds \/ Win!PollCalibration
  <2>1. Agree(choice') /\ Cameras'
    BY <1>1, <1>3, <1>8 DEF Win!CalibrateClicked, Win!ToggleKeep, Win!WorkerEnds,
       Win!PollCalibration, Agree
  <2>2. UNCHANGED <<moving, stopEnabled, shut, signals>> /\ keep' \in BOOLEAN
    BY <1>3, <1>8 DEF Win!CalibrateClicked, Win!ToggleKeep, Win!WorkerEnds,
       Win!PollCalibration, Win!motion
  <2>3. registration' = prior'
    BY <1>3, <1>8 DEF Win!CalibrateClicked, Win!ToggleKeep, Win!WorkerEnds,
       Win!PollCalibration, Win!Confident
  <2>4. /\ fov' \in [at : {"idle", "running", "ok", "miss"},
                     of : [Win!Panels -> Devices \cup {"demo", "none"}]]
        /\ fov'.at # "idle" => fov'.of = pending'
    <3>1. CASE Win!CalibrateClicked \/ Win!ToggleKeep \/ Win!WorkerEnds
      BY <1>2, <1>3, <3>1 DEF Win!CalibrateClicked, Win!ToggleKeep, Win!WorkerEnds, Win!Submit
    <3>2. CASE Win!PollCalibration
      <4>1. Win!NoCameras \in [Win!Panels -> Devices \cup {"demo", "none"}] BY DEF Win!NoCameras
      <4>2. CASE fov' = [at |-> "running", of |-> device] /\ pending' = device
        BY <1>2, <4>2
      <4>3. CASE fov' = [fov EXCEPT !.at = "idle", !.of = Win!NoCameras]
        BY <1>3, <4>1, <4>3
      <4> QED BY <3>2, <4>2, <4>3 DEF Win!PollCalibration, Win!Submit
    <3> QED BY <1>8, <3>1, <3>2
  <2> QED BY <1>3, <1>4, <2>1, <2>2, <2>3, <2>4
<1>9. CASE Win!MotionClaimed \/ Win!MotionReleased \/ Win!UpdateStopButton \/ Win!CloseEvent
  <2>1. Agree(choice') /\ Cameras'
    BY <1>1, <1>3, <1>9 DEF Win!MotionClaimed, Win!MotionReleased, Win!UpdateStopButton,
       Win!CloseEvent, Agree
  <2>2. Rest'
    <3>1. CASE Win!MotionClaimed
      <4>1. signals' = signals + 1 /\ moving' = TRUE /\ UNCHANGED <<keep, stopEnabled, shut>>
        BY <3>1 DEF Win!MotionClaimed, Win!calibration
      <4>2. signals' \in Nat /\ signals' # 0 BY <1>3, <4>1
      <4>3. UNCHANGED <<fov, pending, registration, prior>>
        BY <3>1 DEF Win!MotionClaimed, Win!calibration
      <4> QED BY <1>3, <4>1, <4>2, <4>3
    <3>2. CASE Win!MotionReleased
      <4>1. signals' = signals + 1 /\ moving' = FALSE /\ UNCHANGED <<keep, stopEnabled, shut>>
        BY <3>2 DEF Win!MotionReleased, Win!calibration
      <4>2. signals' \in Nat /\ signals' # 0 BY <1>3, <4>1
      <4>3. UNCHANGED <<fov, pending, registration, prior>>
        BY <3>2 DEF Win!MotionReleased, Win!calibration
      <4> QED BY <1>3, <4>1, <4>2, <4>3
    <3>3. CASE Win!UpdateStopButton
      <4>1. signals' = signals - 1 /\ signals > 0 /\ stopEnabled' = moving /\ UNCHANGED <<keep, moving, shut>>
        BY <3>3 DEF Win!UpdateStopButton, Win!calibration
      <4>2. signals' \in Nat BY <1>3, <4>1
      <4>3. UNCHANGED <<fov, pending, registration, prior>>
        BY <3>3 DEF Win!UpdateStopButton, Win!calibration
      <4> QED BY <1>3, <4>1, <4>2, <4>3
    <3>4. CASE Win!CloseEvent
      <4>1. shut' = TRUE /\ UNCHANGED <<keep, moving, stopEnabled, signals>>
        BY <3>4 DEF Win!CloseEvent, Win!motion, Win!calibration
      <4>2. UNCHANGED <<fov, pending, registration, prior>>
        BY <3>4 DEF Win!CloseEvent, Win!calibration
      <4> QED BY <1>3, <4>1, <4>2
    <3> QED BY <1>9, <3>1, <3>2, <3>3, <3>4
  <2> QED BY <1>4, <2>1, <2>2
<1> QED
  BY <1>5, <1>6, <1>7, <1>8, <1>9 DEF Win!WindowNext

-------------------------------------------------------------------------------
(* The automatic exposure. *)

\* Its limits.
LEMMA ExposureLimits ==
  /\ Ceiling \in Nat \ {0} /\ Ceiling >= 8 /\ Low \in Nat /\ High \in Nat /\ Scenes \subseteq Nat
  /\ DefaultGain \in Nat \ {0} /\ MaxGain \in Nat /\ DefaultGain <= MaxGain
  /\ GainStep \in Nat /\ MaxGainStep \in Nat /\ MaxChanges \in Nat
BY ComponentsAssumption

\* A product of numbers is a number, at least as large as each of them.
LEMMA Grown ==
  ASSUME NEW a \in Nat \ {0}, NEW b \in Nat \ {0}
  PROVE  a * b \in Nat \ {0} /\ a * b >= b
<1>1. (a - 1) * b >= 0 OBVIOUS
<1>2. (a - 1) * b = a * b - b OBVIOUS
<1> QED BY <1>1, <1>2

\* What is divided by no more than itself leaves something.
LEMMA Divided ==
  ASSUME NEW a \in Nat \ {0}, NEW b \in Nat \ {0}, b <= a
  PROVE  a \div b \in Nat \ {0}
<1> DEFINE q == a \div b
<1>1. q \in Int /\ b * q <= a /\ a < b * q + b OBVIOUS
<1> HIDE DEF q
<1>2. ~(q <= 0)
  <2> SUFFICES ASSUME q <= 0 PROVE FALSE OBVIOUS
  <2>1. b * (-q) >= 0 BY <1>1
  <2>2. b * q <= 0 BY <1>1, <2>1
  <2> QED BY <1>1, <2>2
<1> QED BY <1>1, <1>2 DEF q

\* A limited value is within the limits.
LEMMA Limited ==
  ASSUME NEW lo \in Int, NEW hi \in Int, lo <= hi, NEW x \in Int
  PROVE  Exp!Clamp(lo, hi, x) \in lo .. hi /\ Exp!Clamp(lo, hi, x) \in Int
<1>1. Exp!Least(hi, x) \in {hi, x} /\ Exp!Least(hi, x) <= hi BY DEF Exp!Least
<1> DEFINE y == Exp!Least(hi, x)
<1>2. y \in Int /\ y <= hi BY <1>1
<1>3. Exp!Clamp(lo, hi, x) = IF lo > y THEN lo ELSE y BY DEF Exp!Clamp, Exp!Most
<1> HIDE DEF y
<1> QED BY <1>2, <1>3

\* A rounded quotient is an integer.
LEMMA RoundedInt ==
  ASSUME NEW a \in Int, NEW b \in Int, b # 0
  PROVE  Exp!Rounded(a, b) \in Int
<1>1. CASE b < 0
  <2> DEFINE n == -2 * a - b
             d == -2 * b
  <2>1. n \in Int /\ d \in Nat \ {0} BY <1>1
  <2>2. Exp!Rounded(a, b) = n \div d BY <1>1 DEF Exp!Rounded
  <2> HIDE DEF n, d
  <2> QED BY <2>1, <2>2
<1>2. CASE b > 0
  <2> DEFINE n == 2 * a + b
             d == 2 * b
  <2>1. n \in Int /\ d \in Nat \ {0} BY <1>2
  <2>2. Exp!Rounded(a, b) = n \div d BY <1>2 DEF Exp!Rounded
  <2> HIDE DEF n, d
  <2> QED BY <2>1, <2>2
<1> QED BY <1>1, <1>2

\* The step of the gain is a number, whatever the last two frames say.
LEMMA GainStepInt ==
  ASSUME prev \in [metric : -1 .. 100, gain : Nat],
         NEW metric \in 0 .. 100, NEW gain \in Nat
  PROVE  Exp!AdaptiveGainStep(metric, gain) \in Int
<1>1. Exp!Middle \in Int BY ExposureLimits DEF Exp!Middle
<1> DEFINE known == prev.metric # -1 /\ gain # prev.gain /\ metric # prev.metric
           a == (Exp!Middle - metric) * (gain - prev.gain)
           b == metric - prev.metric
           needed == IF known THEN Exp!Rounded(a, b) ELSE 0
           step == Exp!Clamp(-MaxGainStep, MaxGainStep, needed)
<1>2. a \in Int /\ b \in Int /\ (known => b # 0) BY <1>1
<1>3. needed \in Int
  <2> HIDE DEF a, b
  <2>1. CASE known
    <3>1. b # 0 BY <1>2, <2>1
    <3> QED BY <1>2, <2>1, <3>1, RoundedInt
  <2>2. CASE ~known BY <2>2
  <2> QED BY <2>1, <2>2
<1>4. step \in Int
  <2>1. -MaxGainStep \in Int /\ MaxGainStep \in Int /\ -MaxGainStep <= MaxGainStep
    BY ExposureLimits
  <2> HIDE DEF needed
  <2> QED BY <1>3, <2>1, Limited
<1>5. Exp!AdaptiveGainStep(metric, gain)
        = IF step # 0 THEN step ELSE IF metric < Exp!Middle THEN GainStep ELSE -GainStep
  BY DEF Exp!AdaptiveGainStep
<1> HIDE DEF step
<1> QED BY <1>4, <1>5, ExposureLimits

\* Unwinding the gain keeps the camera's limits.
LEMMA UnwoundTyped ==
  ASSUME NEW c \in [exposure : 1 .. Ceiling, gain : DefaultGain .. MaxGain]
  PROVE  Exp!UnwindGain(c) \in [exposure : 1 .. Ceiling, gain : DefaultGain .. MaxGain]
<1> DEFINE E == c.exposure
           G == c.gain
           halved == (G + 1) \div 2
           floor == (G * E + Ceiling - 1) \div Ceiling
           candidate == Exp!Most(DefaultGain, Exp!Most(halved, floor))
<1>1. /\ E \in Nat \ {0} /\ E <= Ceiling /\ Ceiling \in Nat \ {0}
      /\ G \in Nat \ {0} /\ G <= MaxGain /\ DefaultGain \in Nat \ {0} /\ MaxGain \in Nat
  BY ExposureLimits
<1>2. Exp!UnwindGain(c) =
        IF G <= DefaultGain \/ candidate >= G THEN c
        ELSE [gain |-> candidate, exposure |-> Exp!Least(Ceiling, (E * G) \div candidate)]
  BY DEF Exp!UnwindGain
<1>3. E * G \in Nat \ {0} /\ E * G >= G /\ G * E \in Nat
  <2> HIDE DEF E, G
  <2> QED BY <1>1, Grown
<1>4. candidate \in Nat \ {0} /\ candidate >= DefaultGain
  <2> DEFINE n == G * E + Ceiling - 1
  <2>1. halved \in Int BY <1>1
  <2>2. n \in Int BY <1>1, <1>3
  <2> HIDE DEF n
  <2>3. n \div Ceiling \in Int BY <1>1, <2>2
  <2>4. floor = n \div Ceiling BY DEF n
  <2> HIDE DEF halved, floor
  <2> QED BY <1>1, <2>1, <2>3, <2>4 DEF Exp!Most
<1> HIDE DEF candidate
<1>5. CASE G <= DefaultGain \/ candidate >= G BY <1>2, <1>5
<1>6. CASE ~(G <= DefaultGain \/ candidate >= G)
  <2> DEFINE q == (E * G) \div candidate
  <2>1. q \in Nat \ {0}
    <3> DEFINE p == E * G
    <3>1. p \in Nat \ {0} /\ candidate <= p BY <1>1, <1>3, <1>4, <1>6
    <3> HIDE DEF p
    <3>2. p \div candidate \in Nat \ {0} BY <1>4, <3>1, Divided
    <3> QED BY <3>2 DEF p
  <2> HIDE DEF q
  <2>2. Exp!Least(Ceiling, q) \in 1 .. Ceiling BY <1>1, <2>1 DEF Exp!Least
  <2>3. candidate \in DefaultGain .. MaxGain BY <1>1, <1>4, <1>6
  <2>4. Exp!UnwindGain(c) = [gain |-> candidate, exposure |-> Exp!Least(Ceiling, q)]
    BY <1>2, <1>6 DEF q
  <2> QED BY <2>2, <2>3, <2>4
<1> QED BY <1>5, <1>6

\* A correction keeps the camera's limits.
LEMMA ComputedTyped ==
  ASSUME prev \in [metric : -1 .. 100, gain : Nat],
         NEW c \in [exposure : 1 .. Ceiling, gain : DefaultGain .. MaxGain], NEW metric \in 0 .. 100
  PROVE  Exp!Compute(c, metric) \in [exposure : 1 .. Ceiling, gain : DefaultGain .. MaxGain]
<1> DEFINE product == c.exposure * Exp!Middle
           scaled == product \div metric
           desired == IF metric = 0 THEN Ceiling
                      ELSE Exp!Clamp(c.exposure \div 2, 2 * c.exposure, scaled)
           beyond == (metric < Low /\ desired > Ceiling) \/ (metric > High /\ desired < 1)
           g == c.gain + Exp!AdaptiveGainStep(metric, c.gain)
           gain == IF beyond THEN Exp!Clamp(DefaultGain, MaxGain, g) ELSE c.gain
<1>1. /\ c.exposure \in Nat \ {0} /\ Ceiling \in Nat \ {0} /\ c.gain \in Nat
      /\ DefaultGain \in Nat /\ MaxGain \in Nat /\ DefaultGain <= MaxGain
  BY ExposureLimits
<1>2. Exp!Compute(c, metric) =
        IF metric \in Low..High THEN Exp!UnwindGain(c)
        ELSE [exposure |-> Exp!Clamp(1, Ceiling, desired), gain |-> gain]
  BY DEF Exp!Compute
<1>3. desired \in Int
  <2>1. product \in Int BY <1>1, ExposureLimits DEF Exp!Middle
  <2> HIDE DEF product
  <2>2. metric # 0 => scaled \in Int BY <2>1
  <2> HIDE DEF scaled
  <2>3. c.exposure \div 2 \in Int /\ c.exposure \div 2 <= 2 * c.exposure BY <1>1
  <2> QED BY <1>1, <2>2, <2>3, Limited
<1> HIDE DEF desired
<1>4. gain \in DefaultGain .. MaxGain
  <2>1. g \in Int
    <3> DEFINE old == c.gain
    <3>1. old \in Nat BY <1>1
    <3> HIDE DEF old
    <3>2. Exp!AdaptiveGainStep(metric, old) \in Int BY <3>1, GainStepInt
    <3>3. old + Exp!AdaptiveGainStep(metric, old) \in Int BY <3>1, <3>2
    <3> QED BY <3>3 DEF old
  <2> HIDE DEF g
  <2>2. Exp!Clamp(DefaultGain, MaxGain, g) \in DefaultGain .. MaxGain
    <3>1. DefaultGain \in Int /\ MaxGain \in Int BY <1>1
    <3> QED BY ONLY <1>1, <2>1, <3>1, Limited
  <2>3. c.gain \in DefaultGain .. MaxGain OBVIOUS
  <2> HIDE DEF beyond
  <2> QED BY <2>2, <2>3
<1> HIDE DEF gain
<1>5. Exp!Clamp(1, Ceiling, desired) \in 1 .. Ceiling
  <2>1. 1 \in Int /\ Ceiling \in Int /\ 1 <= Ceiling BY <1>1
  <2> QED BY ONLY <1>3, <2>1, Limited
<1> QED BY <1>2, <1>4, <1>5, UnwoundTyped

\* What a frame measures is a percentage.
LEMMA Measured ==
  ASSUME scene \in Scenes,
         NEW c \in [exposure : 1 .. Ceiling, gain : DefaultGain .. MaxGain]
  PROVE  Exp!Measure(c) \in 0 .. 100
<1>1. c.exposure \in Nat \ {0} /\ c.gain \in Nat \ {0} /\ scene \in Nat
  BY ExposureLimits
<1> DEFINE p == c.exposure * c.gain
           s == p * scene
<1>2. p \in Nat BY <1>1, Grown
<1> HIDE DEF p
<1>3. s \in Nat BY <1>1, <1>2
<1> HIDE DEF s
<1>4. s \div 4 \in Nat BY <1>3
<1>5. Exp!Measure(c) = Exp!Least(100, s \div 4) BY DEF Exp!Measure, s, p
<1> QED BY <1>4, <1>5 DEF Exp!Least

\* The exposure starts within its limits.
LEMMA ExposureStarts == Exp!ExposureInit => BrightnessInv
<1> SUFFICES ASSUME Exp!ExposureInit PROVE BrightnessInv
  OBVIOUS
<1>1. cam \in [exposure : 1 .. Ceiling, gain : DefaultGain .. MaxGain]
  BY ExposureLimits DEF Exp!ExposureInit
<1>2. prev \in [metric : -1 .. 100, gain : Nat] /\ prev.metric \in -1 .. 100
  BY DEF Exp!ExposureInit, Exp!None
<1> QED BY <1>1, <1>2, ExposureLimits DEF Exp!ExposureInit, BrightnessInv, Exp!ExposureTypeOK

\* And stays within them.
LEMMA ExposureStep ==
  ASSUME BrightnessInv, [Exp!ExposureNext]_exposureVars
  PROVE  BrightnessInv'
<1> DEFINE C == [exposure : 1 .. Ceiling, gain : DefaultGain .. MaxGain]
           P == [metric : -1 .. 100, gain : Nat]
<1>1. cam \in C /\ older \in C /\ prev \in P /\ mail \in -1 .. 100 /\ scene \in Scenes
      /\ sceneChanges \in 0 .. MaxChanges
  BY DEF BrightnessInv, Exp!ExposureTypeOK
<1>2. /\ cam' \in C /\ older' \in C /\ prev' \in P /\ mail' \in -1 .. 100 /\ scene' \in Scenes
      /\ sceneChanges' \in 0 .. MaxChanges
      => BrightnessInv'
  BY DEF BrightnessInv, Exp!ExposureTypeOK
<1> HIDE DEF C, P
<1>3. DefaultGain \in Nat \ {0} /\ MaxGain \in Nat /\ DefaultGain <= MaxGain /\ MaxChanges \in Nat
      /\ Ceiling \in Nat /\ Ceiling >= 8
  BY ExposureLimits
<1>4. CASE UNCHANGED exposureVars BY <1>1, <1>2, <1>4 DEF exposureVars
<1>5. CASE Exp!Frame
  <2>1. Exp!Measure(cam) \in 0 .. 100 /\ Exp!Measure(older) \in 0 .. 100
    BY <1>1, Measured DEF C
  <2>2. mail' \in {Exp!Measure(cam), Exp!Measure(older)} BY <1>5 DEF Exp!Frame
  <2>3. mail' \in -1 .. 100 BY <2>1, <2>2
  <2> QED BY <1>1, <1>2, <1>5, <2>3 DEF Exp!Frame
<1>6. CASE Exp!ApplyAutoExposure
  <2>1. mail \in 0 .. 100 /\ mail' = -1 BY <1>1, <1>6 DEF Exp!ApplyAutoExposure
  <2>2. UNCHANGED <<scene, sceneChanges>> BY <1>6 DEF Exp!ApplyAutoExposure
  <2>3. CASE auto /\ ~aeHeld
    <3>1. cam' = Exp!Compute(cam, mail) /\ older' = cam /\ prev' = [metric |-> mail, gain |-> cam.gain]
      BY <1>6, <2>3 DEF Exp!ApplyAutoExposure
    <3>2. cam' \in C BY <1>1, <2>1, <3>1, ComputedTyped DEF C, P
    <3>3. prev' \in P
      <4>1. cam.gain \in Nat BY <1>1, <1>3 DEF C
      <4> QED BY <2>1, <3>1, <4>1 DEF P
    <3> QED BY <1>1, <1>2, <2>1, <2>2, <3>1, <3>2, <3>3
  <2>4. CASE ~(auto /\ ~aeHeld)
    BY <1>1, <1>2, <1>6, <2>1, <2>2, <2>4 DEF Exp!ApplyAutoExposure
  <2> QED BY <2>3, <2>4
<1>7. CASE Exp!AutoExposureToggled
  <2>1. cam' \in C
    <3>1. [cam EXCEPT !.gain = DefaultGain] \in C BY <1>1, <1>3 DEF C
    <3> QED BY <1>1, <1>7, <3>1 DEF Exp!AutoExposureToggled
  <2>2. prev' \in P
    <3>1. Exp!None \in P BY DEF Exp!None, P
    <3> QED BY <1>1, <1>7, <3>1 DEF Exp!AutoExposureToggled
  <2> QED BY <1>1, <1>2, <1>3, <1>7, <2>1, <2>2 DEF Exp!AutoExposureToggled
<1>8. CASE Exp!SetByHand
  <2>1. cam' \in C BY <1>3, <1>8 DEF Exp!SetByHand, C
  <2> QED BY <1>1, <1>2, <1>3, <1>8, <2>1 DEF Exp!SetByHand
<1>9. CASE Exp!SetPaused \/ Exp!SceneChanges
  BY <1>1, <1>2, <1>3, <1>9 DEF Exp!SetPaused, Exp!SceneChanges
<1> QED BY <1>4, <1>5, <1>6, <1>7, <1>8, <1>9 DEF Exp!ExposureNext

-------------------------------------------------------------------------------
(* The arrows of the alignment panel. *)

\* What the calibrations, the frames and the limits are.
LEMMA PositionLimits ==
  /\ \A m \in Matrices, a \in {1, 2}, d \in {1, -1} : m[a][d] \in Pixels
  /\ Shapes \subseteq [w : Nat \ {0}, h : Nat \ {0}] /\ Fractions \subseteq Nat
  /\ LeastMove \in Nat \ {0} /\ GuideMin \in Nat \ {0} /\ MoveCap \in Nat
  /\ LeastMove <= MoveCap /\ GuideMin <= MoveCap /\ Slack \in Nat
<1>1. ASSUME NEW m \in Matrices, NEW a \in {1, 2}, NEW d \in {1, -1} PROVE m[a][d] \in Pixels
  <2>1. m[1][d] \in Pixels /\ m[2][d] \in Pixels BY ComponentsAssumption DEF Pixels
  <2> QED BY <2>1
<1>2. /\ Shapes \subseteq [w : Nat \ {0}, h : Nat \ {0}] /\ Fractions \subseteq Nat
      /\ LeastMove \in Nat \ {0} /\ GuideMin \in Nat \ {0} /\ MoveCap \in Nat
      /\ LeastMove <= MoveCap /\ GuideMin <= MoveCap /\ Slack \in Nat
  BY ComponentsAssumption
<1> QED BY <1>1, <1>2

\* Slack covers half a unit of each response.
LEMMA SlackCovers ==
  ASSUME NEW m \in Matrices, NEW c \in {1, -1}, NEW d \in {1, -1}
  PROVE  LET across == Asst!Abs(m[1][c].x) + Asst!Abs(m[2][d].x)
             down == Asst!Abs(m[1][c].y) + Asst!Abs(m[2][d].y)
         IN  across * across + down * down <= 4 * Slack
BY ComponentsAssumption

\* A rounded quotient is within half a unit of the quotient.
LEMMA RoundNear ==
  ASSUME NEW a \in Int, NEW b \in Int, b # 0
  PROVE  LET e == b * Pos!Round(a, b) - a
         IN  /\ Pos!Round(a, b) \in Int /\ e \in Int
             /\ 2 * e <= Asst!Abs(b) /\ -2 * e <= Asst!Abs(b)
<1> DEFINE r == Pos!Round(a, b)
<1>1. CASE b < 0
  <2> DEFINE n == -2 * a - b
             d == -2 * b
  <2>1. n \in Int /\ d \in Nat \ {0} BY <1>1
  <2>2. r = n \div d BY <1>1 DEF Pos!Round
  <2> HIDE DEF n, d, r
  <2>3. r \in Int /\ d * r <= n /\ n < d * r + d BY <2>1, <2>2
  <2> DEFINE p == b * r
  <2>4. p \in Int /\ d * r = -2 * p BY <2>3 DEF d
  <2> HIDE DEF p
  <2>5. 2 * (p - a) <= -b /\ -2 * (p - a) <= -b BY <1>1, <2>3, <2>4 DEF n, d
  <2> QED BY <1>1, <2>3, <2>4, <2>5 DEF p, r, Asst!Abs
<1>2. CASE b > 0
  <2> DEFINE n == 2 * a + b
             d == 2 * b
  <2>1. n \in Int /\ d \in Nat \ {0} BY <1>2
  <2>2. r = n \div d BY <1>2 DEF Pos!Round
  <2> HIDE DEF n, d, r
  <2>3. r \in Int /\ d * r <= n /\ n < d * r + d BY <2>1, <2>2
  <2> DEFINE p == b * r
  <2>4. p \in Int /\ d * r = 2 * p BY <2>3 DEF d
  <2> HIDE DEF p
  <2>5. 2 * (p - a) <= b /\ -2 * (p - a) <= b BY <1>2, <2>3, <2>4 DEF n, d
  <2> QED BY <1>2, <2>3, <2>4, <2>5 DEF p, r, Asst!Abs
<1> QED BY <1>1, <1>2

\* What bounds a multiple bounds the number.
LEMMA Unscaled ==
  ASSUME NEW d \in Nat \ {0}, NEW o \in Int, NEW s \in Int, d * o <= d * s
  PROVE  o <= s
<1> SUFFICES ASSUME o >= s + 1 PROVE FALSE OBVIOUS
<1>1. d * (o - s - 1) >= 0 OBVIOUS
<1>2. d * (o - s - 1) = d * o - d * s - d OBVIOUS
<1> QED BY <1>1, <1>2

\* Two half units, each of one response, together.
LEMMA HalfUnits ==
  ASSUME NEW p \in Int, NEW q \in Int, NEW e \in Int, NEW f \in Int, NEW k \in Nat,
         2 * e <= k, -2 * e <= k, 2 * f <= k, -2 * f <= k
  PROVE  /\ 2 * (p * e + q * f) <= k * (Asst!Abs(p) + Asst!Abs(q))
         /\ -2 * (p * e + q * f) <= k * (Asst!Abs(p) + Asst!Abs(q))
<1>1. ASSUME NEW u \in Int, NEW v \in Int, 2 * v <= k, -2 * v <= k
      PROVE  /\ u * v \in Int /\ k * Asst!Abs(u) \in Int
             /\ 2 * (u * v) <= k * Asst!Abs(u) /\ -2 * (u * v) <= k * Asst!Abs(u)
  <2>1. CASE u >= 0
    <3>1. Asst!Abs(u) = u BY <2>1 DEF Asst!Abs
    <3>2. u * (k - 2 * v) >= 0 /\ u * (k + 2 * v) >= 0 BY <1>1, <2>1
    <3>3. u * (k - 2 * v) = k * u - 2 * (u * v) /\ u * (k + 2 * v) = k * u + 2 * (u * v) OBVIOUS
    <3> QED BY <3>1, <3>2, <3>3
  <2>2. CASE u < 0
    <3>1. Asst!Abs(u) = -u BY <2>2 DEF Asst!Abs
    <3>2. (-u) * (k - 2 * v) >= 0 /\ (-u) * (k + 2 * v) >= 0 BY <1>1, <2>2
    <3>3. (-u) * (k - 2 * v) = k * (-u) + 2 * (u * v) /\ (-u) * (k + 2 * v) = k * (-u) - 2 * (u * v)
      OBVIOUS
    <3> QED BY <3>1, <3>2, <3>3
  <2> QED BY <2>1, <2>2
<1> DEFINE i == p * e
           j == q * f
           g == Asst!Abs(p)
           h == Asst!Abs(q)
<1>2. i \in Int /\ k * g \in Int /\ 2 * i <= k * g /\ -2 * i <= k * g BY <1>1
<1>3. j \in Int /\ k * h \in Int /\ 2 * j <= k * h /\ -2 * j <= k * h BY <1>1
<1>4. g \in Int /\ h \in Int BY DEF Asst!Abs
<1> HIDE DEF g, h
<1>5. k * (g + h) = k * g + k * h BY <1>4
<1> HIDE DEF i, j
<1>6. 2 * (i + j) <= k * (g + h) /\ -2 * (i + j) <= k * (g + h) BY <1>2, <1>3, <1>5
<1> QED BY <1>6 DEF i, j, g, h

\* A number no larger than another has no larger square.
LEMMA Squared ==
  ASSUME NEW u \in Int, NEW s \in Int, u <= s, -u <= s
  PROVE  u * u <= s * s
<1>1. (s - u) * (s + u) >= 0 OBVIOUS
<1>2. (s - u) * (s + u) = s * s - u * u OBVIOUS
<1> QED BY <1>1, <1>2

\* The square of a sum.
LEMMA SumSquared ==
  ASSUME NEW u \in Int, NEW v \in Int
  PROVE  (u + v) * (u + v) <= 2 * (u * u) + 2 * (v * v)
<1>1. (u - v) * (u - v) >= 0
  <2>1. ASSUME NEW z \in Int PROVE z * z >= 0 OBVIOUS
  <2> QED BY <2>1
<1>2. (u - v) * (u - v) + (u + v) * (u + v) = 2 * (u * u) + 2 * (v * v) OBVIOUS
<1>3. /\ (u - v) * (u - v) \in Int /\ (u + v) * (u + v) \in Int
      /\ 2 * (u * u) + 2 * (v * v) \in Int
  OBVIOUS
<1> QED BY <1>1, <1>2, <1>3

\* Two rounded lengths miss one coordinate by at most half a unit of each response.
LEMMA MissedBy ==
  ASSUME NEW D \in Int, D # 0, NEW p \in Int, NEW q \in Int, NEW z \in Int,
         NEW m \in Int, NEW n \in Int, p * m + q * n = D * z,
         NEW k \in Int, NEW l \in Int,
         2 * (D * k - m) <= Asst!Abs(D), -2 * (D * k - m) <= Asst!Abs(D),
         2 * (D * l - n) <= Asst!Abs(D), -2 * (D * l - n) <= Asst!Abs(D)
  PROVE  LET o == z - (p * k + q * l)
             s == Asst!Abs(p) + Asst!Abs(q)
         IN  o \in Int /\ 4 * (o * o) <= s * s
<1> DEFINE e == D * k - m
           f == D * l - n
           o == z - (p * k + q * l)
           s == Asst!Abs(p) + Asst!Abs(q)
           K == Asst!Abs(D)
<1>1. e \in Int /\ f \in Int /\ o \in Int /\ s \in Int /\ K \in Nat \ {0} BY DEF Asst!Abs
<1>2. p * e + q * f = D * (-o)
  <2>1. p * e = D * (p * k) - p * m /\ q * f = D * (q * l) - q * n OBVIOUS
  <2>2. D * o = D * z - D * (p * k) - D * (q * l) OBVIOUS
  <2>3. /\ p * m \in Int /\ q * n \in Int /\ D * z \in Int /\ D * (p * k) \in Int /\ D * (q * l) \in Int
        /\ D * (-o) = -(D * o) /\ D * o \in Int
    OBVIOUS
  <2> QED BY <2>1, <2>2, <2>3
<1>3. 2 * (p * e + q * f) <= K * s /\ -2 * (p * e + q * f) <= K * s
  <2> HIDE DEF e, f, s, K
  <2>1. 2 * e <= K /\ -2 * e <= K /\ 2 * f <= K /\ -2 * f <= K BY DEF e, f, K
  <2> QED BY <1>1, <2>1, HalfUnits DEF s
<1>4. 2 * o <= s /\ -(2 * o) <= s
  <2> HIDE DEF e, f, o, s
  <2>1. 2 * (D * (-o)) <= K * s /\ -2 * (D * (-o)) <= K * s BY <1>2, <1>3
  <2>2. D * (-o) = -(D * o) /\ D * o \in Int BY <1>1
  <2>3. CASE D > 0
    <3>1. K = D BY <2>3 DEF Asst!Abs
    <3>2. D * (2 * o) = 2 * (D * o) /\ D * (-(2 * o)) = -2 * (D * o) BY <1>1
    <3>3. D * (2 * o) <= D * s /\ D * (-(2 * o)) <= D * s
      <4> HIDE DEF K
      <4> QED BY <1>1, <2>1, <2>2, <3>1, <3>2
    <3>4. D \in Nat \ {0} /\ 2 * o \in Int /\ -(2 * o) \in Int BY <1>1, <2>3
    <3> QED BY <1>1, <3>3, <3>4, Unscaled
  <2>4. CASE D < 0
    <3>1. K = -D BY <2>4 DEF Asst!Abs
    <3>2. (-D) * (2 * o) = -2 * (D * o) /\ (-D) * (-(2 * o)) = 2 * (D * o) BY <1>1
    <3>3. (-D) * (2 * o) <= (-D) * s /\ (-D) * (-(2 * o)) <= (-D) * s
      <4> HIDE DEF K
      <4> QED BY <1>1, <2>1, <2>2, <3>1, <3>2
    <3>4. -D \in Nat \ {0} /\ 2 * o \in Int /\ -(2 * o) \in Int BY <1>1, <2>4
    <3> QED BY <1>1, <3>3, <3>4, Unscaled
  <2> QED BY <2>3, <2>4
<1>5. (2 * o) * (2 * o) <= s * s
  <2> HIDE DEF o, s
  <2>1. 2 * o \in Int BY <1>1
  <2> QED BY <1>1, <1>4, <2>1, Squared
<1>6. (2 * o) * (2 * o) = 4 * (o * o)
  <2> HIDE DEF o
  <2> QED BY <1>1
<1> HIDE DEF o, s
<1> QED BY <1>1, <1>5, <1>6 DEF o, s

\* Lengths solved for a shift make it, to within Slack.
LEMMA LengthsSolve ==
  ASSUME NEW a \in Pixels, NEW b \in Pixels, NEW t \in Pixels, Pos!Det(a, b) # 0,
         LET across == Asst!Abs(a.x) + Asst!Abs(b.x)
             down == Asst!Abs(a.y) + Asst!Abs(b.y)
         IN  across * across + down * down <= 4 * Slack
  PROVE  LET L == Pos!Lengths(a, b, t)
             off == [x |-> t.x - (a.x * L[1] + b.x * L[2]), y |-> t.y - (a.y * L[1] + b.y * L[2])]
         IN  L[1] \in Int /\ L[2] \in Int /\ Pos!Square(off) <= Slack
<1> DEFINE D == Pos!Det(a, b)
           m == t.x * b.y - t.y * b.x
           n == a.x * t.y - a.y * t.x
           k == Pos!Round(m, D)
           l == Pos!Round(n, D)
           ox == t.x - (a.x * k + b.x * l)
           oy == t.y - (a.y * k + b.y * l)
           across == Asst!Abs(a.x) + Asst!Abs(b.x)
           down == Asst!Abs(a.y) + Asst!Abs(b.y)
<1>1. a.x \in Int /\ a.y \in Int /\ b.x \in Int /\ b.y \in Int /\ t.x \in Int /\ t.y \in Int
  BY DEF Pixels
<1>2. D \in Int /\ m \in Int /\ n \in Int /\ D # 0 BY <1>1 DEF Pos!Det
<1>3. Pos!Lengths(a, b, t) = <<k, l>> BY DEF Pos!Lengths
<1>4. a.x * m + b.x * n = D * t.x /\ a.y * m + b.y * n = D * t.y
  <2>1. D = a.x * b.y - b.x * a.y BY DEF Pos!Det
  <2> HIDE DEF D
  <2>2. ASSUME NEW i \in Int, NEW j \in Int, NEW u \in Int, NEW v \in Int, NEW x \in Int, NEW y \in Int
        PROVE  /\ i * (x * v - y * u) + u * (i * y - j * x) = (i * v - u * j) * x
               /\ j * (x * v - y * u) + v * (i * y - j * x) = (i * v - u * j) * y
    OBVIOUS
  <2> QED BY <1>1, <2>1, <2>2
<1> HIDE DEF D, m, n
<1>5. /\ k \in Int /\ 2 * (D * k - m) <= Asst!Abs(D) /\ -2 * (D * k - m) <= Asst!Abs(D)
      /\ l \in Int /\ 2 * (D * l - n) <= Asst!Abs(D) /\ -2 * (D * l - n) <= Asst!Abs(D)
  BY <1>2, RoundNear
<1> HIDE DEF k, l
<1>6. ox \in Int /\ 4 * (ox * ox) <= across * across BY <1>1, <1>2, <1>4, <1>5, MissedBy
<1>7. oy \in Int /\ 4 * (oy * oy) <= down * down BY <1>1, <1>2, <1>4, <1>5, MissedBy
<1>8. across * across + down * down <= 4 * Slack OBVIOUS
<1>9. across \in Int /\ down \in Int BY <1>1 DEF Asst!Abs
<1> HIDE DEF ox, oy, across, down
<1>10. ox * ox + oy * oy <= Slack
  <2>1. /\ ox * ox \in Int /\ oy * oy \in Int /\ across * across \in Int /\ down * down \in Int
        /\ Slack \in Nat
    BY <1>6, <1>7, <1>9, PositionLimits
  <2> QED BY <1>6, <1>7, <1>8, <2>1
<1>11. Pos!Square([x |-> ox, y |-> oy]) <= Slack BY <1>10 DEF Pos!Square
<1> QED BY <1>3, <1>5, <1>11 DEF ox, oy

\* What the steps of a plan for both axes add up to.
LEMMA Totals ==
  ASSUME NEW m, NEW r, NEW s, r.axis = 1, s.axis = 2, NEW T, T \subseteq {r, s}
  PROVE  /\ Pos!Total(m, T, 1) = IF r \in T THEN Pos!Shift(m, r) ELSE Still
         /\ Pos!Total(m, T, 2) = IF s \in T THEN Pos!Shift(m, s) ELSE Still
<1>1. /\ \A e \in T : e.axis = 1 => e = r
      /\ \A e \in T : e.axis = 2 => e = s
  OBVIOUS
<1>2. Pos!Total(m, T, 1) = IF r \in T THEN Pos!Shift(m, r) ELSE Still
  <2>1. CASE r \in T
    <3>1. (CHOOSE e \in T : e.axis = 1) = r BY <1>1, <2>1
    <3> QED BY <2>1, <3>1 DEF Pos!Total
  <2>2. CASE r \notin T BY <1>1, <2>2 DEF Pos!Total, Still
  <2> QED BY <2>1, <2>2
<1>3. Pos!Total(m, T, 2) = IF s \in T THEN Pos!Shift(m, s) ELSE Still
  <2>1. CASE s \in T
    <3>1. (CHOOSE e \in T : e.axis = 2) = s BY <1>1, <2>1
    <3> QED BY <2>1, <3>1 DEF Pos!Total
  <2>2. CASE s \notin T BY <1>1, <2>2 DEF Pos!Total, Still
  <2> QED BY <2>1, <2>2
<1> QED BY <1>2, <1>3

\* The two steps that are solved for a shift: axis, direction, length.
LEMMA Solved ==
  ASSUME NEW m \in Matrices, NEW t \in Pixels, ~Pos!Degenerate(m, t)
  PROVE  \E c, d \in {1, -1}, k, l \in Int :
           LET r == [axis |-> 1, dir |-> c, size |-> k]
               s == [axis |-> 2, dir |-> d, size |-> l]
               o == [x |-> t.x - (m[1][c].x * k + m[2][d].x * l),
                     y |-> t.y - (m[1][c].y * k + m[2][d].y * l)]
           IN  /\ Pos!Solve(m, t) = (IF k > 0 THEN {r} ELSE {}) \cup (IF l > 0 THEN {s} ELSE {})
               /\ ~Pos!Flipped(m, t) => k >= 0 /\ l >= 0
               /\ Pos!Square(o) <= Slack
<1> DEFINE once == Pos!Lengths(m[1][1], m[2][1], t)
           c == IF once[1] < 0 THEN -1 ELSE 1
           d == IF once[2] < 0 THEN -1 ELSE 1
           dir == [a \in 1 .. 2 |-> IF once[a] < 0 THEN -1 ELSE 1]
           twice == Pos!Lengths(m[1][c], m[2][d], t)
           k == twice[1]
           l == twice[2]
           r == [axis |-> 1, dir |-> c, size |-> k]
           s == [axis |-> 2, dir |-> d, size |-> l]
           o == [x |-> t.x - (m[1][c].x * k + m[2][d].x * l),
                 y |-> t.y - (m[1][c].y * k + m[2][d].y * l)]
<1>1. dir = <<c, d>> /\ dir[1] = c /\ dir[2] = d /\ c \in {1, -1} /\ d \in {1, -1}
  OBVIOUS
<1>2. Pos!Solve(m, t) =
        {[axis |-> a, dir |-> dir[a], size |-> twice[a]] : a \in {b \in 1 .. 2 : twice[b] > 0}}
  BY <1>1 DEF Pos!Solve, Pos!Axes
<1>3. ~Pos!Flipped(m, t) => \A a \in 1 .. 2 : ~(twice[a] < 0)
  BY <1>1 DEF Pos!Flipped, Pos!Axes
<1>4. Pos!Det(m[1][c], m[2][d]) # 0 BY DEF Pos!Degenerate
<1> HIDE DEF c, d, dir
<1>5. m[1][c] \in Pixels /\ m[2][d] \in Pixels BY <1>1, PositionLimits
<1>6. k \in Int /\ l \in Int /\ Pos!Square(o) <= Slack
  <2>1. LET across == Asst!Abs(m[1][c].x) + Asst!Abs(m[2][d].x)
            down == Asst!Abs(m[1][c].y) + Asst!Abs(m[2][d].y)
        IN  across * across + down * down <= 4 * Slack
    BY <1>1, SlackCovers
  <2> QED BY <1>4, <1>5, <2>1, LengthsSolve
<1> HIDE DEF twice
<1>7. Pos!Solve(m, t) = (IF k > 0 THEN {r} ELSE {}) \cup (IF l > 0 THEN {s} ELSE {})
  <2>1. {b \in 1 .. 2 : twice[b] > 0} = (IF k > 0 THEN {1} ELSE {}) \cup (IF l > 0 THEN {2} ELSE {})
    OBVIOUS
  <2>2. ASSUME NEW e
        PROVE  e \in Pos!Solve(m, t) <=> (k > 0 /\ e = r) \/ (l > 0 /\ e = s)
    BY <1>1, <1>2, <2>1
  <2> QED BY <2>2
<1>8. ~Pos!Flipped(m, t) => k >= 0 /\ l >= 0 BY <1>3, <1>6
<1> HIDE DEF k, l
<1>9. c \in {1, -1} /\ d \in {1, -1} /\ k \in Int /\ l \in Int BY <1>1, <1>6
<1> USE <1>9
<1> WITNESS c \in {1, -1}, d \in {1, -1}, k \in Int, l \in Int
<1> QED BY <1>6, <1>7, <1>8

\* A screen move may be solved into any two steps.
Step == [axis : {1, 2}, dir : {1, -1}, size : Nat \ {0}]

\* Whichever of the solved steps are kept, all of them make the shift, and those that are kept
\* miss no more of it than the others make.
LEMMA KeptAndDropped ==
  ASSUME NEW m \in Matrices, NEW t \in Pixels, ~Pos!Degenerate(m, t),
         NEW kept, kept \subseteq Pos!Solve(m, t)
  PROVE  LET dropped == Pos!Solve(m, t) \ kept
             got == Pos!Sum(m, kept \cup dropped)
             off == [x |-> t.x - got.x, y |-> t.y - got.y]
             left == [x |-> t.x - Pos!Sum(m, kept).x, y |-> t.y - Pos!Sum(m, kept).y]
         IN  /\ Pos!Solve(m, t) \subseteq Step /\ Pos!Square(Pos!Sum(m, dropped)) \in Int
             /\ ~Pos!Flipped(m, t) =>
                  /\ Pos!Square(off) <= Slack
                  /\ 16 * Pos!Square(Pos!Sum(m, dropped)) <= Pos!Square(t)
                       => 16 * Pos!Square(left) <= 2 * (Pos!Square(t) + 16 * Slack)
<1> DEFINE all == Pos!Solve(m, t)
           dropped == all \ kept
<1>1. PICK c, d \in {1, -1}, k, l \in Int :
        LET r == [axis |-> 1, dir |-> c, size |-> k]
            s == [axis |-> 2, dir |-> d, size |-> l]
            o == [x |-> t.x - (m[1][c].x * k + m[2][d].x * l),
                  y |-> t.y - (m[1][c].y * k + m[2][d].y * l)]
        IN  /\ all = (IF k > 0 THEN {r} ELSE {}) \cup (IF l > 0 THEN {s} ELSE {})
            /\ ~Pos!Flipped(m, t) => k >= 0 /\ l >= 0
            /\ Pos!Square(o) <= Slack
  BY Solved
<1> HIDE DEF all
<1> DEFINE r == [axis |-> 1, dir |-> c, size |-> k]
           s == [axis |-> 2, dir |-> d, size |-> l]
           rx == m[1][c].x * k
           ry == m[1][c].y * k
           sx == m[2][d].x * l
           sy == m[2][d].y * l
<1>2. all = (IF k > 0 THEN {r} ELSE {}) \cup (IF l > 0 THEN {s} ELSE {}) BY <1>1
<1>3. all \subseteq Step BY <1>2 DEF Step
<1>4. Pos!Shift(m, r) = [x |-> rx, y |-> ry] /\ Pos!Shift(m, s) = [x |-> sx, y |-> sy]
  BY DEF Pos!Shift
<1>5. rx \in Int /\ ry \in Int /\ sx \in Int /\ sy \in Int
  <2>1. m[1][c] \in Pixels /\ m[2][d] \in Pixels BY PositionLimits
  <2>2. m[1][c].x \in Int /\ m[1][c].y \in Int /\ m[2][d].x \in Int /\ m[2][d].y \in Int
    BY <2>1 DEF Pixels
  <2> QED BY <2>2
<1>6. r.axis = 1 /\ s.axis = 2 /\ r # s OBVIOUS
<1>7. (k = 0 => rx = 0 /\ ry = 0) /\ (l = 0 => sx = 0 /\ sy = 0)
  <2>1. m[1][c] \in Pixels /\ m[2][d] \in Pixels BY PositionLimits
  <2>2. m[1][c].x \in Int /\ m[1][c].y \in Int /\ m[2][d].x \in Int /\ m[2][d].y \in Int
    BY <2>1 DEF Pixels
  <2> QED BY <2>2
<1>8. Pos!Square([x |-> t.x - (rx + sx), y |-> t.y - (ry + sy)]) <= Slack BY <1>1
<1>9. (r \in all <=> k > 0) /\ (s \in all <=> l > 0) /\ all \subseteq {r, s} BY <1>2, <1>6
<1>10. ~Pos!Flipped(m, t) => (r \notin all => rx = 0 /\ ry = 0) /\ (s \notin all => sx = 0 /\ sy = 0)
  BY <1>1, <1>7, <1>9
<1> HIDE DEF r, s, rx, ry, sx, sy
<1>11. ASSUME NEW T, T \subseteq all
       PROVE  /\ Pos!Sum(m, T).x = (IF r \in T THEN rx ELSE 0) + (IF s \in T THEN sx ELSE 0)
              /\ Pos!Sum(m, T).y = (IF r \in T THEN ry ELSE 0) + (IF s \in T THEN sy ELSE 0)
  <2>1. T \subseteq {r, s} BY <1>9, <1>11
  <2>2. /\ Pos!Total(m, T, 1) = IF r \in T THEN Pos!Shift(m, r) ELSE Still
        /\ Pos!Total(m, T, 2) = IF s \in T THEN Pos!Shift(m, s) ELSE Still
    BY <1>6, <2>1, Totals
  <2> QED BY <1>4, <2>2 DEF Pos!Sum, Still
<1> DEFINE vx == Pos!Sum(m, dropped).x
           vy == Pos!Sum(m, dropped).y
           wx == Pos!Sum(m, kept).x
           wy == Pos!Sum(m, kept).y
           gx == Pos!Sum(m, kept \cup dropped).x
           gy == Pos!Sum(m, kept \cup dropped).y
<1>12. kept \subseteq all /\ dropped \subseteq all /\ kept \cup dropped = all BY DEF all
<1>13. /\ ~Pos!Flipped(m, t) => gx = rx + sx /\ gy = ry + sy /\ gx = wx + vx /\ gy = wy + vy
       /\ vx \in Int /\ vy \in Int /\ wx \in Int /\ wy \in Int
  <2>1. /\ gx = (IF r \in all THEN rx ELSE 0) + (IF s \in all THEN sx ELSE 0)
        /\ gy = (IF r \in all THEN ry ELSE 0) + (IF s \in all THEN sy ELSE 0)
    BY <1>11, <1>12
  <2>2. /\ wx = (IF r \in kept THEN rx ELSE 0) + (IF s \in kept THEN sx ELSE 0)
        /\ wy = (IF r \in kept THEN ry ELSE 0) + (IF s \in kept THEN sy ELSE 0)
    BY <1>11, <1>12
  <2>3. /\ vx = (IF r \in dropped THEN rx ELSE 0) + (IF s \in dropped THEN sx ELSE 0)
        /\ vy = (IF r \in dropped THEN ry ELSE 0) + (IF s \in dropped THEN sy ELSE 0)
    BY <1>11, <1>12
  <2> HIDE DEF gx, gy, wx, wy, vx, vy
  <2>4. /\ r \in all <=> (r \in kept \/ r \in dropped)
        /\ s \in all <=> (s \in kept \/ s \in dropped)
        /\ ~(r \in kept /\ r \in dropped) /\ ~(s \in kept /\ s \in dropped)
    BY <1>12
  <2> HIDE DEF dropped
  <2> QED BY <1>5, <1>10, <2>1, <2>2, <2>3, <2>4
<1>14. ~Pos!Flipped(m, t) => Pos!Square([x |-> t.x - gx, y |-> t.y - gy]) <= Slack
  BY <1>8, <1>13
<1>15. ASSUME ~Pos!Flipped(m, t), 16 * (vx * vx + vy * vy) <= Pos!Square(t)
       PROVE  16 * Pos!Square([x |-> t.x - wx, y |-> t.y - wy]) <= 2 * (Pos!Square(t) + 16 * Slack)
  <2> DEFINE ux == t.x - gx
             uy == t.y - gy
             zx == ux + vx
             zy == uy + vy
  <2>1. t.x \in Int /\ t.y \in Int /\ ~Pos!Flipped(m, t) BY <1>15 DEF Pixels
  <2>2. /\ ux \in Int /\ uy \in Int /\ vx \in Int /\ vy \in Int
        /\ t.x - wx = zx /\ t.y - wy = zy
    <3> HIDE DEF vx, vy, wx, wy, gx, gy
    <3> QED BY <1>5, <1>13, <2>1
  <2>3. ux * ux + uy * uy <= Slack
    <3>1. Pos!Square([x |-> ux, y |-> uy]) <= Slack BY <1>14, <1>15
    <3> QED BY <3>1 DEF Pos!Square
  <2> HIDE DEF ux, uy, vx, vy
  <2>4. zx * zx <= 2 * (ux * ux) + 2 * (vx * vx) BY <2>2, SumSquared
  <2>5. zy * zy <= 2 * (uy * uy) + 2 * (vy * vy) BY <2>2, SumSquared
  <2>6. /\ ux * ux \in Int /\ uy * uy \in Int /\ vx * vx \in Int /\ vy * vy \in Int
        /\ zx * zx \in Int /\ zy * zy \in Int /\ Slack \in Nat /\ Pos!Square(t) \in Int
    BY <2>1, <2>2, PositionLimits DEF Pos!Square
  <2>7. 16 * (zx * zx + zy * zy) <= 2 * (Pos!Square(t) + 16 * Slack)
    <3> HIDE DEF zx, zy
    <3> QED BY <1>15, <2>3, <2>4, <2>5, <2>6
  <2>8. Pos!Square([x |-> t.x - wx, y |-> t.y - wy]) = zx * zx + zy * zy
    <3> HIDE DEF zx, zy, wx, wy
    <3> QED BY <2>2 DEF Pos!Square
  <2> QED BY <2>7, <2>8
<1>16. Pos!Square(Pos!Sum(m, dropped)) = vx * vx + vy * vy BY DEF Pos!Square
<1> HIDE DEF vx, vy, wx, wy, gx, gy
<1>17. Pos!Square(Pos!Sum(m, dropped)) \in Int BY <1>13, <1>16
<1> QED BY <1>3, <1>14, <1>15, <1>16, <1>17 DEF all, vx, vy, wx, wy, gx, gy

\* A refused click plans nothing.
LEMMA NothingRefused ==
  ASSUME NEW why, why # "ok", NEW m, NEW p, NEW t
  PROVE  PlanSized(Pos!Refused(why), p) /\ Meets(Pos!Refused(why), m, p, t)
BY DEF PlanSized, Meets, Pos!Refused

\* The cap keeps a step a step, and one that is long enough long enough.
LEMMA CappedSized ==
  ASSUME NEW T, T \subseteq Step, NEW least \in Nat \ {0}, least <= MoveCap,
         \A s \in T : s.size >= least, NEW e \in Pos!Capped(T)
  PROVE  e \in [axis : {1, 2}, dir : {1, -1}, size : 1 .. MoveCap] /\ e.size >= least
<1>1. PICK s \in T : e = [s EXCEPT !.size = IF s.size > MoveCap THEN MoveCap ELSE s.size]
  BY DEF Pos!Capped
<1>2. MoveCap \in Nat BY PositionLimits
<1>3. s \in [axis : {1, 2}, dir : {1, -1}, size : Nat \ {0}] BY DEF Step
<1>4. s.size \in Nat \ {0} /\ s.size >= least BY <1>3
<1> DEFINE z == IF s.size > MoveCap THEN MoveCap ELSE s.size
<1>5. z \in 1 .. MoveCap /\ z >= least BY <1>2, <1>4
<1> HIDE DEF z
<1>6. e = [s EXCEPT !.size = z] BY <1>1 DEF z
<1>7. e.size = z /\ e \in [axis : {1, 2}, dir : {1, -1}, size : 1 .. MoveCap] BY <1>3, <1>5, <1>6
<1> QED BY <1>5, <1>7

\* The plan of a screen move is sized and meets its shift.
LEMMA ScreenPlanned ==
  ASSUME NEW M, M.of \in Matrices, NEW p \in {"axis", "guide"}, NEW t \in Pixels
  PROVE  PlanSized(Pos!ScreenPlan(M, p, t), p) /\ Meets(Pos!ScreenPlan(M, p, t), M.of, p, t)
<1> DEFINE plan == Pos!ScreenPlan(M, p, t)
           m == M.of
           steps == Pos!Solve(m, t)
<1>1. CASE \E why \in {"unit", "parallel", "nothing", "floor"} : plan = Pos!Refused(why)
  BY <1>1, NothingRefused
<1>2. CASE M.unit = p /\ ~Pos!Degenerate(m, t) /\ p = "guide" /\ plan = Pos!GuidePlan(steps)
  <2> DEFINE kept == {s \in steps : s.size >= GuideMin}
  <2>1. CASE kept = {} BY <1>1, <1>2, <2>1 DEF Pos!GuidePlan
  <2>2. CASE kept # {}
    <3>1. plan = [why |-> "ok", steps |-> Pos!Capped(kept), clamped |-> Pos!Capped(kept) # kept,
                  dropped |-> steps \ kept]
      BY <1>2, <2>2 DEF Pos!GuidePlan
    <3>2. kept \subseteq steps /\ \A s \in kept : s.size >= GuideMin OBVIOUS
    <3> HIDE DEF plan, kept
    <3>3. steps \subseteq Step /\ kept \subseteq Step BY <1>2, <3>2, KeptAndDropped
    <3>4. PlanSized(plan, p)
      <4>1. GuideMin \in Nat \ {0} /\ GuideMin <= MoveCap BY PositionLimits
      <4>2. plan.steps = Pos!Capped(kept) BY <3>1
      <4> QED BY <1>2, <3>2, <3>3, <4>1, <4>2, CappedSized DEF PlanSized
    <3>5. Meets(plan, m, p, t)
      <4> SUFFICES ASSUME ~plan.clamped, ~Pos!Flipped(m, t) PROVE Meets(plan, m, p, t)
        BY DEF Meets
      <4>1. plan.steps = kept /\ plan.dropped = steps \ kept BY <3>1
      <4> HIDE DEF steps
      <4>2. LET got == Pos!Sum(m, kept \cup (steps \ kept))
            IN  Pos!Square([x |-> t.x - got.x, y |-> t.y - got.y]) <= Slack
        BY <1>2, <3>2, KeptAndDropped DEF steps
      <4> QED BY <1>2, <4>1, <4>2 DEF Meets
    <3> QED BY <3>4, <3>5 DEF plan
  <2> QED BY <2>1, <2>2
<1>3. CASE M.unit = p /\ ~Pos!Degenerate(m, t) /\ p = "axis" /\ plan = Pos!AngularPlan(m, steps, t)
  <2> DEFINE dropped == {s \in steps : s.size < LeastMove}
             kept == steps \ dropped
             often == dropped # {} /\ (kept = {} \/ 16 * Pos!Square(Pos!Sum(m, dropped)) > Pos!Square(t))
  <2>1. CASE often BY <1>1, <1>3, <2>1 DEF Pos!AngularPlan
  <2>2. CASE ~often
    <3>1. plan = [why |-> "ok", steps |-> Pos!Capped(kept), clamped |-> Pos!Capped(kept) # kept,
                  dropped |-> dropped]
      BY <1>3, <2>2 DEF Pos!AngularPlan
    <3>2. /\ kept \subseteq steps /\ \A s \in kept : ~(s.size < LeastMove)
          /\ dropped = steps \ kept
      OBVIOUS
    <3>3. dropped # {} => ~(16 * Pos!Square(Pos!Sum(m, dropped)) > Pos!Square(t)) BY <2>2
    <3> HIDE DEF plan, kept, dropped
    <3>4. steps \subseteq Step /\ kept \subseteq Step BY <1>3, <3>2, KeptAndDropped
    <3>5. PlanSized(plan, p)
      <4>1. LeastMove \in Nat \ {0} /\ LeastMove <= MoveCap BY PositionLimits
      <4>2. plan.steps = Pos!Capped(kept) BY <3>1
      <4>3. ASSUME NEW s \in kept PROVE s.size >= LeastMove
        <5>1. s.size \in Nat BY <3>4 DEF Step
        <5> QED BY <3>2, <4>1, <5>1
      <4> QED BY <3>4, <4>1, <4>2, <4>3, CappedSized DEF PlanSized
    <3>6. Meets(plan, m, p, t)
      <4> SUFFICES ASSUME ~plan.clamped, ~Pos!Flipped(m, t) PROVE Meets(plan, m, p, t)
        BY DEF Meets
      <4>1. plan.steps = kept /\ plan.dropped = steps \ kept BY <3>1, <3>2
      <4> HIDE DEF steps
      <4> DEFINE got == Pos!Sum(m, kept \cup (steps \ kept))
                 left == [x |-> t.x - Pos!Sum(m, kept).x, y |-> t.y - Pos!Sum(m, kept).y]
      <4>2. /\ Pos!Square([x |-> t.x - got.x, y |-> t.y - got.y]) <= Slack
            /\ 16 * Pos!Square(Pos!Sum(m, steps \ kept)) <= Pos!Square(t)
                 => 16 * Pos!Square(left) <= 2 * (Pos!Square(t) + 16 * Slack)
        BY <1>3, <3>2, KeptAndDropped DEF steps
      <4>3. dropped # {} => 16 * Pos!Square(Pos!Sum(m, steps \ kept)) <= Pos!Square(t)
        <5> SUFFICES ASSUME dropped # {}
                     PROVE  16 * Pos!Square(Pos!Sum(m, steps \ kept)) <= Pos!Square(t)
          OBVIOUS
        <5>1. Pos!Square(t) \in Int BY DEF Pos!Square, Pixels
        <5>2. Pos!Square(Pos!Sum(m, steps \ kept)) \in Int
          BY <1>3, <3>2, KeptAndDropped DEF steps
        <5> QED BY <3>2, <3>3, <5>1, <5>2
      <4> QED BY <3>2, <4>1, <4>2, <4>3 DEF Meets
    <3> QED BY <3>5, <3>6 DEF plan
  <2> QED BY <2>1, <2>2
<1>4. \/ \E why \in {"unit", "parallel", "nothing", "floor"} : plan = Pos!Refused(why)
      \/ M.unit = p /\ ~Pos!Degenerate(m, t) /\ p = "guide" /\ plan = Pos!GuidePlan(steps)
      \/ M.unit = p /\ ~Pos!Degenerate(m, t) /\ p = "axis" /\ plan = Pos!AngularPlan(m, steps, t)
  BY DEF Pos!ScreenPlan
<1> QED BY <1>1, <1>2, <1>3, <1>4

\* A nudge is sized as well, with a calibration or without.
LEMMA NudgePlanned ==
  ASSUME matrix = Pos!NoMatrix \/ matrix \in Calibrated, shape \in Shapes,
         NEW p \in {"axis", "guide"}, NEW a \in {1, 2}, NEW dir \in {1, -1}
  PROVE  PlanSized(Pos!NudgePlan(p, a, dir), p)
<1> DEFINE plan == Pos!NudgePlan(p, a, dir)
           rate == matrix.of[a][dir]
           speed == (IF rate.x < 0 THEN -rate.x ELSE rate.x) + (IF rate.y < 0 THEN -rate.y ELSE rate.y)
           size == IF matrix = Pos!NoMatrix THEN MoveCap ELSE Pos!Round(shape.w, 2 * speed)
           only == {[axis |-> a, dir |-> dir, size |-> size]}
<1>1. CASE \E why \in {"unit", "no_motion", "nothing", "floor"} : plan = Pos!Refused(why)
  BY <1>1, NothingRefused
<1>2. CASE /\ ~(matrix # Pos!NoMatrix /\ Pos!Square(rate) = 0) /\ size # 0
           /\ ~(p = "axis" /\ size < LeastMove)
           /\ plan = [why |-> "ok", steps |-> Pos!Capped(only), clamped |-> size > MoveCap, dropped |-> {}]
  <2>1. size \in Nat \ {0}
    <3>1. CASE matrix = Pos!NoMatrix BY <3>1, PositionLimits
    <3>2. CASE matrix # Pos!NoMatrix
      <4>1. matrix.of \in Matrices BY <3>2 DEF Calibrated
      <4>2. rate \in Pixels BY <4>1, PositionLimits
      <4>3. rate.x \in Int /\ rate.y \in Int /\ Pos!Square(rate) # 0 BY <1>2, <3>2, <4>2 DEF Pixels
      <4>4. speed \in Nat \ {0}
        <5> HIDE DEF rate
        <5>1. rate.x # 0 \/ rate.y # 0
          <6> SUFFICES ASSUME rate.x = 0, rate.y = 0 PROVE FALSE OBVIOUS
          <6>1. Pos!Square(rate) = 0 * 0 + 0 * 0 BY DEF Pos!Square
          <6> QED BY <4>3, <6>1
        <5> QED BY <4>3, <5>1
      <4>5. shape.w \in Nat \ {0} BY PositionLimits
      <4> HIDE DEF speed
      <4> DEFINE n == 2 * shape.w + 2 * speed
                 d == 4 * speed
      <4>6. n \in Nat /\ d \in Nat \ {0} BY <4>4, <4>5
      <4>7. Pos!Round(shape.w, 2 * speed) = n \div d
        <5>1. ~(2 * speed < 0) /\ 2 * (2 * speed) = d BY <4>4
        <5> HIDE DEF d
        <5> QED BY <5>1 DEF Pos!Round
      <4> HIDE DEF n, d
      <4>8. n \div d \in Nat BY <4>6
      <4> QED BY <1>2, <3>2, <4>7, <4>8
    <3> QED BY <3>1, <3>2
  <2> HIDE DEF size
  <2>2. only \subseteq Step /\ \A s \in only : s.size = size BY <2>1 DEF Step
  <2>3. plan.steps = Pos!Capped(only) BY <1>2
  <2> HIDE DEF plan, only
  <2>4. CASE p = "axis"
    <3>1. LeastMove \in Nat \ {0} /\ LeastMove <= MoveCap BY PositionLimits
    <3>2. size >= LeastMove BY <1>2, <2>1, <2>4, <3>1
    <3>3. \A s \in only : s.size >= LeastMove BY <2>2, <3>2
    <3> QED BY <2>2, <2>3, <3>1, <3>3, CappedSized DEF PlanSized, plan
  <2>5. CASE p = "guide"
    <3>1. 1 \in Nat \ {0} /\ 1 <= MoveCap BY PositionLimits
    <3>2. size >= 1 BY <2>1
    <3>3. \A s \in only : s.size >= 1 BY <2>2, <3>2
    <3>4. \A e \in plan.steps : e \in [axis : {1, 2}, dir : {1, -1}, size : 1 .. MoveCap]
      BY <2>2, <2>3, <3>1, <3>3, CappedSized
    <3> QED BY <2>5, <3>4 DEF PlanSized, plan
  <2> QED BY <2>4, <2>5
<1>3. \/ \E why \in {"unit", "no_motion", "nothing", "floor"} : plan = Pos!Refused(why)
      \/ /\ ~(matrix # Pos!NoMatrix /\ Pos!Square(rate) = 0) /\ size # 0
         /\ ~(p = "axis" /\ size < LeastMove)
         /\ plan = [why |-> "ok", steps |-> Pos!Capped(only), clamped |-> size > MoveCap, dropped |-> {}]
  BY DEF Pos!NudgePlan
<1> QED BY <1>1, <1>2, <1>3

\* What the panel plans and disables.
LEMMA PositionFacts == PositionInv => Pos!PositionTypeOK /\ Pos!MovesAsAsked /\ Pos!ButtonsTruthful
<1> SUFFICES ASSUME PanelTyped, ClickGood
             PROVE  Pos!PositionTypeOK /\ Pos!MovesAsAsked /\ Pos!ButtonsTruthful
  BY DEF PositionInv
<1>1. refusals \subseteq Pos!Directions BY DEF PanelTyped, Pos!Refusals
<1>2. matrix.unit \in {"none", "axis", "guide"} BY DEF PanelTyped, Pos!NoMatrix, Calibrated
<1>3. \A s \in click.plan.steps : s \in [axis : {1, 2}, dir : {1, -1}, size : 1 .. MoveCap]
  BY DEF ClickGood, PlanSized
<1>4. Pos!Axes = {1, 2} BY DEF Pos!Axes
<1>5. Pos!PositionTypeOK BY <1>1, <1>2, <1>3, <1>4 DEF Pos!PositionTypeOK, PanelTyped
<1>6. \A s \in click.plan.steps : s.size <= MoveCap /\ (click.by = "axis" => s.size >= LeastMove)
  <2> TAKE s \in click.plan.steps
  <2>1. s.size \in 1 .. MoveCap BY <1>3
  <2>2. MoveCap \in Nat BY PositionLimits
  <2> QED BY <2>1, <2>2 DEF ClickGood, PlanSized
<1>7. Pos!MovesAsAsked
  BY <1>6 DEF Pos!MovesAsAsked, ClickGood, Meets, Still
<1>8. Pos!ButtonsTruthful
  <2> SUFFICES ASSUME matrix.unit = "axis", shape = seen, NEW d \in Pos!Directions
               PROVE  d \in refusals
                        <=> Pos!ScreenPlan(matrix, "axis", Pos!Target(d, fraction, shape)).why = "floor"
    BY DEF Pos!ButtonsTruthful
  <2>1. seen # Pos!NoShape
    <3>1. shape.w # 0 BY PositionLimits DEF PanelTyped
    <3> QED BY <3>1 DEF Pos!NoShape
  <2> QED BY <2>1 DEF PanelTyped, Pos!Refusals
<1> QED BY <1>5, <1>7, <1>8

\* No click is a good click.
LEMMA NoClickGood == click = Pos!NoClick => ClickGood
BY DEF Pos!NoClick, ClickGood, PlanSized, Still

\* The panel starts without a calibration.
LEMMA PositionStarts == Pos!PositionInit => PanelTyped /\ ClickGood
BY NoClickGood DEF Pos!PositionInit, PanelTyped, Pos!Refusals, Pos!NoMatrix

\* What a button asks for is a shift in pixels.
LEMMA TargetTyped ==
  ASSUME NEW d \in Pos!Directions, NEW f \in Fractions, NEW s \in Shapes
  PROVE  Pos!Target(d, f, s) \in Pixels
<1>1. d[1] \in Int /\ d[2] \in Int BY DEF Pos!Directions
<1>2. f \in Nat /\ s.w \in Nat /\ s.h \in Nat BY PositionLimits
<1> DEFINE u == d[1] * f * s.w
           v == d[2] * f * s.h
<1>3. u \in Int /\ v \in Int BY <1>1, <1>2
<1>4. Pos!Target(d, f, s) = [x |-> u \div 100, y |-> v \div 100] BY DEF Pos!Target
<1> HIDE DEF u, v
<1>5. u \div 100 \in Int /\ v \div 100 \in Int BY <1>3
<1> QED BY <1>4, <1>5 DEF Pixels

\* The limits of the screen moves are those of the calibration, the size and the shape.
LEMMA LimitsRefreshed ==
  ASSUME NEW known \in Shapes \cup {Pos!NoShape}, Pos!RefreshScreenMoveLimits(known),
         verified' \in Shapes \cup {Pos!NoShape}
  PROVE  /\ seen' \in Shapes \cup {Pos!NoShape}
         /\ refusals' = Pos!Refusals(matrix', fraction', seen')
BY DEF Pos!RefreshScreenMoveLimits

\* Whatever is calibrated, chosen, switched or clicked.
LEMMA PositionStep ==
  ASSUME PanelTyped, ClickGood, [Pos!PositionNext]_positionVars
  PROVE  PanelTyped' /\ ClickGood'
<1>1. CASE UNCHANGED positionVars
  BY <1>1 DEF positionVars, PanelTyped, ClickGood, PlanSized, Meets
<1>2. CASE Pos!FinishCalibration
  <2>1. ClickGood' BY <1>2 DEF Pos!FinishCalibration, Pos!NoClick, ClickGood, PlanSized, Still
  <2>2. matrix' = Pos!NoMatrix \/ matrix' \in Calibrated
    BY <1>2 DEF Pos!FinishCalibration, Pos!Primitives, Calibrated
  <2>3. verified' = shape /\ UNCHANGED <<posMode, shape, fraction>>
        /\ Pos!RefreshScreenMoveLimits(Pos!NoShape)
    BY <1>2 DEF Pos!FinishCalibration
  <2>4. /\ seen' \in Shapes \cup {Pos!NoShape} /\ verified' \in Shapes \cup {Pos!NoShape}
        /\ refusals' = Pos!Refusals(matrix', fraction', seen')
    BY <2>3, LimitsRefreshed DEF PanelTyped
  <2> QED BY <2>1, <2>2, <2>3, <2>4 DEF PanelTyped
<1>3. CASE Pos!MoveSizeChanged \/ Pos!OperatingModeChanged
  <2>1. ClickGood'
    BY <1>3 DEF Pos!MoveSizeChanged, Pos!OperatingModeChanged, Pos!NoClick, ClickGood, PlanSized, Still
  <2>2. /\ UNCHANGED <<matrix, shape, verified>> /\ fraction' \in Fractions
        /\ posMode' \in {"terrestrial", "astronomical"}
        /\ Pos!RefreshScreenMoveLimits(seen)
    BY <1>3 DEF Pos!MoveSizeChanged, Pos!OperatingModeChanged, PanelTyped
  <2>3. /\ seen' \in Shapes \cup {Pos!NoShape}
        /\ refusals' = Pos!Refusals(matrix', fraction', seen')
    BY <2>2, LimitsRefreshed DEF PanelTyped
  <2> QED BY <2>1, <2>2, <2>3 DEF PanelTyped
<1>4. CASE Pos!FramesChange
  <2>1. ClickGood' BY <1>4 DEF Pos!FramesChange, Pos!NoClick, ClickGood, PlanSized, Still
  <2> QED BY <1>4, <2>1 DEF Pos!FramesChange, PanelTyped
<1>5. CASE Pos!ScreenMoveClicked
  <2>1. UNCHANGED <<posMode, matrix, shape, verified, seen, fraction, refusals>>
    BY <1>5 DEF Pos!ScreenMoveClicked
  <2>2. PICK d \in Pos!Directions, p \in {"axis", "guide"} :
          LET t == Pos!Target(d, fraction, shape)
          IN  click' = [target |-> t, plan |-> Pos!ScreenPlan(matrix, p, t), by |-> p]
    BY <1>5 DEF Pos!ScreenMoveClicked, Pos!Primitives
  <2> DEFINE t == Pos!Target(d, fraction, shape)
             plan == Pos!ScreenPlan(matrix, p, t)
  <2>3. matrix.of \in Matrices BY <1>5 DEF PanelTyped, Calibrated, Pos!ScreenMoveClicked
  <2>4. t \in Pixels BY TargetTyped DEF PanelTyped
  <2> HIDE DEF t
  <2>5. PlanSized(plan, p) /\ Meets(plan, matrix.of, p, t) BY <2>3, <2>4, ScreenPlanned
  <2>6. click' = [target |-> t, plan |-> plan, by |-> p] BY <2>2 DEF t
  <2> HIDE DEF plan
  <2>7. click'.plan = plan /\ click'.by = p /\ click'.target = t /\ matrix' = matrix BY <2>1, <2>6
  <2>8. ClickGood' BY <2>5, <2>7 DEF ClickGood
  <2>9. PanelTyped' BY <2>1 DEF PanelTyped
  <2> QED BY <2>8, <2>9
<1>6. CASE Pos!NudgeClicked
  <2>1. UNCHANGED <<posMode, matrix, shape, verified, seen, fraction, refusals>>
    BY <1>6 DEF Pos!NudgeClicked
  <2>2. PICK a \in {1, 2}, dir \in {1, -1}, p \in {"axis", "guide"} :
          click' = [target |-> Still, plan |-> Pos!NudgePlan(p, a, dir), by |-> p]
    BY <1>6 DEF Pos!NudgeClicked, Pos!Primitives, Pos!Axes, Still
  <2> DEFINE plan == Pos!NudgePlan(p, a, dir)
  <2>3. PlanSized(plan, p) BY NudgePlanned DEF PanelTyped
  <2> HIDE DEF plan
  <2>4. click'.plan = plan /\ click'.by = p /\ click'.target = Still BY <2>2 DEF plan
  <2>5. ClickGood' BY <2>3, <2>4 DEF ClickGood
  <2>6. PanelTyped' BY <2>1 DEF PanelTyped
  <2> QED BY <2>5, <2>6
<1> QED BY <1>1, <1>2, <1>3, <1>4, <1>5, <1>6 DEF Pos!PositionNext

-------------------------------------------------------------------------------
(* The diagnostic bundles. *)

\* Bundles are as many as were begun, and each is a bundle.
LEMMA Begun ==
  ASSUME DiagnosticsTyped
  PROVE  /\ Len(bundles) \in Nat /\ Diag!Ids = 1 .. Len(bundles) /\ Diag!Present \subseteq Diag!Ids
         /\ DOMAIN bundles = Diag!Ids /\ \A i \in Diag!Ids : bundles[i] \in Bundle
BY LenProperties, ElementOfSeq DEF DiagnosticsTyped, Diag!Ids, Diag!Present

\* Removing marks the bundles removed, and changes nothing else.
LEMMA Removing ==
  ASSUME DiagnosticsTyped, NEW ids, NEW why \in {"aged", "excess"}, bundles' = Diag!Remove(ids, why)
  PROVE  /\ bundles' \in Seq(Bundle) /\ Len(bundles') = Len(bundles)
         /\ \A i \in Diag!Ids : bundles'[i] = IF i \in ids THEN [bundles[i] EXCEPT !.removed = why]
                                             ELSE bundles[i]
<1> DEFINE n == Len(bundles)
           R == [i \in 1 .. n |-> IF i \in ids THEN [bundles[i] EXCEPT !.removed = why] ELSE bundles[i]]
<1>1. n \in Nat /\ Diag!Ids = 1 .. n /\ bundles' = R BY Begun DEF Diag!Remove, Diag!Ids
<1>2. ASSUME NEW i \in 1 .. n PROVE R[i] \in Bundle
  <2>1. bundles[i] \in Bundle BY <1>1, Begun
  <2>2. [bundles[i] EXCEPT !.removed = why] \in Bundle BY <2>1 DEF Bundle
  <2> QED BY <2>1, <2>2
<1>3. R \in [1 .. n -> Bundle]
  <2>1. R = [i \in 1 .. n |-> R[i]] OBVIOUS
  <2> HIDE DEF R
  <2> QED BY <1>2, <2>1
<1>4. \A i \in 1 .. n : R[i] = IF i \in ids THEN [bundles[i] EXCEPT !.removed = why] ELSE bundles[i]
  OBVIOUS
<1> HIDE DEF R, n
<1>5. R \in Seq(Bundle) /\ Len(R) = n BY <1>1, <1>3
<1> QED BY <1>1, <1>4, <1>5 DEF n

\* What an application does next, on which bundle.
LEMMA Doing ==
  ASSUME NEW c \in Captor, NEW at \in {"idle", "incident", "rest", "pruning", "sorting"}, NEW id \in Nat,
         NEW seq \in Nat
  PROVE  /\ [c EXCEPT !.at = at, !.id = id] \in Captor
         /\ [c EXCEPT !.at = at, !.seq = seq] \in Captor
         /\ [c EXCEPT !.at = at, !.id = id, !.seq = seq] \in Captor
BY DEF Captor

\* An incident is stamped.
LEMMA IncidentStamped ==
  ASSUME NEW b \in Bundle, NEW t \in 1 .. MaxClock, NEW seq \in Nat
  PROVE  LET c == [b EXCEPT !.time = t, !.seq = seq, !.written = TRUE]
         IN  /\ c \in Bundle /\ c.made = b.made /\ c.time = t /\ c.seq = seq /\ c.written = TRUE
             /\ c.removed = b.removed
<1> DEFINE d == [b EXCEPT !.time = t]
           e == [d EXCEPT !.seq = seq]
           f == [e EXCEPT !.written = TRUE]
<1>1. /\ d \in Bundle /\ d.made = b.made /\ d.time = t /\ d.removed = b.removed BY DEF Bundle
<1> HIDE DEF d
<1>2. /\ e \in Bundle /\ e.made = b.made /\ e.time = t /\ e.seq = seq /\ e.removed = b.removed
  BY <1>1 DEF Bundle
<1> HIDE DEF e
<1>3. f \in Bundle BY <1>2 DEF Bundle
<1>4. /\ f.made = b.made /\ f.time = t /\ f.seq = seq /\ f.removed = b.removed BY <1>2 DEF Bundle
<1>5. f.written = TRUE BY <1>2 DEF Bundle
<1> HIDE DEF f
<1> QED BY <1>3, <1>4, <1>5 DEF d, e, f

\* The directory starts empty.
LEMMA DiagnosticsStarts == Diag!DiagnosticsInit => DiagnosticsInv /\ DiagnosticsKept
<1> SUFFICES ASSUME Diag!DiagnosticsInit PROVE DiagnosticsInv /\ DiagnosticsKept OBVIOUS
<1> USE DEF Diag!DiagnosticsInit
<1>1. MaxClock \in Nat \ {0} BY ComponentsAssumption
<1>2. bundles \in Seq(Bundle) /\ Diag!Ids = {} BY DEF Diag!Ids
<1>3. app \in [Apps -> Captor] /\ \A a \in Apps : app[a].at = "idle" BY DEF Captor, Diag!Idle
<1>4. DiagnosticsTyped
  <2>1. 1 \in 1 .. MaxClock BY <1>1
  <2>2. local \in Copies /\ pulled \in BOOLEAN
    BY DEF Copies
  <2> QED BY <1>2, <1>3, <2>1, <2>2 DEF DiagnosticsTyped
<1>5. Unwritten BY <1>2, <1>3 DEF Unwritten
<1>6. DiagnosticsKept BY <1>2 DEF DiagnosticsKept, NothingAhead, Diag!NewestKept
<1> QED BY <1>4, <1>5, <1>6 DEF DiagnosticsInv, Diag!PullReported

\* Capturing, writing, removing and pulling keep their types, and one writer of a bundle.
LEMMA DiagnosticsStep ==
  ASSUME DiagnosticsInv, [Diag!DiagnosticsNext]_diagnosticsVars
  PROVE  DiagnosticsInv'
<1>1. DiagnosticsTyped /\ Unwritten /\ (local.there => local.whole \/ local.broken) /\ Diag!PullReported
  BY DEF DiagnosticsInv
<1>2. /\ Len(bundles) \in Nat /\ Diag!Ids = 1 .. Len(bundles) /\ Diag!Present \subseteq Diag!Ids
      /\ \A i \in Diag!Ids : bundles[i] \in Bundle
  BY <1>1, Begun
<1>3. /\ clock \in 1 .. MaxClock /\ bundles \in Seq(Bundle) /\ app \in [Apps -> Captor]
      /\ local \in Copies /\ pulled \in BOOLEAN
  BY <1>1 DEF DiagnosticsTyped
<1>4. ASSUME UNCHANGED <<local, pulled>>, DiagnosticsTyped', Unwritten' PROVE DiagnosticsInv'
  BY <1>1, <1>4 DEF DiagnosticsInv, Diag!PullReported
<1>5. CASE UNCHANGED diagnosticsVars
  BY <1>5 DEF diagnosticsVars, DiagnosticsInv, DiagnosticsTyped, Unwritten, Diag!Ids, Diag!PullReported
<1>6. CASE Diag!Clock
  <2>1. clock' \in 1 .. MaxClock /\ UNCHANGED <<bundles, app, local, pulled>> BY <1>6 DEF Diag!Clock
  <2> QED BY <1>1, <1>4, <2>1 DEF DiagnosticsTyped, Unwritten, Diag!Ids
<1>7. ASSUME NEW a \in Apps, Diag!Capture(a) PROVE DiagnosticsInv'
  <2> DEFINE b == [made |-> clock, time |-> clock, seq |-> 0, written |-> FALSE, removed |-> "no"]
             n == Len(bundles)
             e == [app[a] EXCEPT !.at = "incident", !.id = n + 1]
  <2>1. /\ bundles' = Append(bundles, b) /\ app' = [app EXCEPT ![a] = e]
        /\ UNCHANGED <<clock, local, pulled>>
    BY <1>7 DEF Diag!Capture
  <2>2. b \in Bundle /\ b.written = FALSE /\ b.time = b.made /\ b.seq = 0 BY <1>3 DEF Bundle
  <2>3. e \in Captor /\ e.id = n + 1
    <3> DEFINE k == n + 1
    <3>1. k \in Nat /\ app[a] \in Captor BY <1>2, <1>3
    <3> HIDE DEF k
    <3>2. [app[a] EXCEPT !.at = "incident", !.id = k] \in Captor BY <3>1, Doing
    <3>3. [app[a] EXCEPT !.at = "incident", !.id = k].id = k BY <3>1 DEF Captor
    <3> QED BY <3>2, <3>3 DEF k
  <2>4. n \in Nat BY <1>2
  <2> HIDE DEF b, n, e
  <2>5. /\ bundles' \in Seq(Bundle) /\ Len(bundles') = n + 1 /\ bundles'[n + 1] = b
        /\ \A i \in 1 .. n : bundles'[i] = bundles[i]
    BY <1>3, <2>1, <2>2, AppendProperties DEF n
  <2>6. app' \in [Apps -> Captor] /\ app'[a] = e /\ \A c \in Apps : c # a => app'[c] = app[c]
    BY <1>3, <2>1, <2>3
  <2>7. DiagnosticsTyped' BY <1>1, <2>1, <2>5, <2>6 DEF DiagnosticsTyped
  <2>8. Diag!Ids = 1 .. n /\ Diag!Ids' = 1 .. n + 1 BY <2>5 DEF Diag!Ids, n
  <2>9. Unwritten'
    <3>1. ASSUME NEW c \in Apps, app'[c].at = "incident"
          PROVE  app'[c].id \in Diag!Ids' /\ ~bundles'[app'[c].id].written
      <4>1. CASE c = a BY <2>2, <2>3, <2>4, <2>5, <2>6, <2>8, <4>1
      <4>2. CASE c # a
        <5>1. app'[c] = app[c] BY <2>6, <4>2
        <5>2. app[c].id \in 1 .. n /\ ~bundles[app[c].id].written
          BY <1>1, <2>8, <3>1, <5>1 DEF Unwritten
        <5> QED BY <2>4, <2>5, <2>8, <5>1, <5>2
      <4> QED BY <4>1, <4>2
    <3>2. ASSUME NEW c \in Apps, NEW d \in Apps, app'[c].at = "incident", app'[d].at = "incident",
                 app'[c].id = app'[d].id
          PROVE  c = d
      <4>1. \A f \in Apps : f # a /\ app[f].at = "incident" => app[f].id \in 1 .. n
        BY <1>1, <2>8 DEF Unwritten
      <4>2. n + 1 \notin 1 .. n BY <2>4
      <4>3. CASE c # a /\ d # a BY <1>1, <2>6, <3>2, <4>3 DEF Unwritten
      <4>4. CASE c = a /\ d # a BY <2>3, <2>6, <3>2, <4>1, <4>2, <4>4
      <4>5. CASE c # a /\ d = a BY <2>3, <2>6, <3>2, <4>1, <4>2, <4>5
      <4> QED BY <4>3, <4>4, <4>5
    <3>3. ASSUME NEW i \in Diag!Ids', ~bundles'[i].written
          PROVE  bundles'[i].time = bundles'[i].made /\ bundles'[i].seq = 0
      <4>1. CASE i = n + 1 BY <2>2, <2>5, <4>1
      <4>2. CASE i \in 1 .. n BY <1>1, <2>5, <2>8, <3>3, <4>2 DEF Unwritten
      <4> QED BY <2>4, <2>8, <4>1, <4>2
    <3> QED BY <3>1, <3>2, <3>3 DEF Unwritten
  <2> QED BY <1>4, <2>1, <2>7, <2>9
<1>8. ASSUME NEW a \in Apps, NEW e, app' = [app EXCEPT ![a] = e], e \in Captor, e.at # "incident",
             UNCHANGED <<clock, local, pulled>>, bundles' \in Seq(Bundle), Len(bundles') = Len(bundles),
             \A i \in Diag!Ids : /\ ~bundles'[i].written =>
                                     ~bundles[i].written /\ bundles'[i].time = bundles[i].time
                                     /\ bundles'[i].made = bundles[i].made /\ bundles'[i].seq = bundles[i].seq
                                 /\ bundles'[i].written =>
                                      bundles[i].written \/ (app[a].at = "incident" /\ app[a].id = i)
      PROVE  DiagnosticsInv'
  <2>1. app' \in [Apps -> Captor] /\ app'[a] = e /\ \A c \in Apps : c # a => app'[c] = app[c]
    BY <1>3, <1>8
  <2>2. DiagnosticsTyped' BY <1>1, <1>8, <2>1 DEF DiagnosticsTyped
  <2>3. Diag!Ids' = Diag!Ids BY <1>8 DEF Diag!Ids
  <2>4. Unwritten'
    <3>1. ASSUME NEW c \in Apps, app'[c].at = "incident"
          PROVE  c # a /\ app'[c] = app[c] /\ app'[c].id \in Diag!Ids' /\ ~bundles'[app'[c].id].written
      <4>1. c # a /\ app'[c] = app[c] BY <1>8, <2>1, <3>1
      <4>2. app[c].id \in Diag!Ids /\ ~bundles[app[c].id].written BY <1>1, <3>1, <4>1 DEF Unwritten
      <4>3. ~(app[a].at = "incident" /\ app[a].id = app[c].id) BY <1>1, <3>1, <4>1 DEF Unwritten
      <4>4. ~bundles'[app[c].id].written BY <1>8, <4>2, <4>3
      <4> QED BY <2>3, <4>1, <4>2, <4>4
    <3>2. \A c, d \in Apps : app'[c].at = "incident" /\ app'[d].at = "incident" /\ app'[c].id = app'[d].id
                             => c = d
      BY <1>1, <3>1 DEF Unwritten
    <3>3. \A i \in Diag!Ids' : ~bundles'[i].written => bundles'[i].time = bundles'[i].made /\ bundles'[i].seq = 0
      BY <1>1, <1>8, <2>3 DEF Unwritten
    <3> QED BY <3>1, <3>2, <3>3 DEF Unwritten
  <2> QED BY <1>4, <1>8, <2>2, <2>4
<1>9. ASSUME NEW a \in Apps, NEW e, app' = [app EXCEPT ![a] = e], e \in Captor, e.at # "incident",
             UNCHANGED <<clock, local, pulled, bundles>>
      PROVE  DiagnosticsInv'
  BY <1>3, <1>8, <1>9
<1>10. ASSUME NEW a \in Apps, NEW e, app' = [app EXCEPT ![a] = e], e \in Captor, e.at # "incident",
             UNCHANGED <<clock, local, pulled>>,
             NEW ids, NEW why \in {"aged", "excess"}, bundles' = Diag!Remove(ids, why)
      PROVE  DiagnosticsInv'
  <2>1. /\ bundles' \in Seq(Bundle) /\ Len(bundles') = Len(bundles)
        /\ \A i \in Diag!Ids : bundles'[i] = IF i \in ids THEN [bundles[i] EXCEPT !.removed = why]
                                             ELSE bundles[i]
    BY <1>1, <1>10, Removing
  <2>2. ASSUME NEW i \in Diag!Ids
        PROVE  /\ bundles'[i].written = bundles[i].written /\ bundles'[i].time = bundles[i].time
               /\ bundles'[i].made = bundles[i].made /\ bundles'[i].seq = bundles[i].seq
    <3>1. bundles[i] \in [made : 1 .. MaxClock, time : 1 .. MaxClock, seq : Nat, written : BOOLEAN,
                          removed : {"no", "aged", "excess"}]
      BY <1>2 DEF Bundle
    <3> QED BY <2>1, <3>1
  <2> QED BY <1>8, <1>10, <2>1, <2>2
<1>11. ASSUME NEW a \in Apps, Diag!WriteIncident(a) PROVE DiagnosticsInv'
  <2>1. app[a] \in Captor /\ app[a].seq \in Nat BY <1>3 DEF Captor
  <2>2. CASE /\ app[a].id \in Diag!Present
             /\ bundles' = [bundles EXCEPT ![app[a].id].time = clock, ![app[a].id].seq = app[a].seq,
                                          ![app[a].id].written = TRUE]
             /\ app' = [app EXCEPT ![a].at = "rest", ![a].seq = @ + 1]
    <3> DEFINE i == app[a].id
               b == [bundles[i] EXCEPT !.time = clock, !.seq = app[a].seq, !.written = TRUE]
               e == [app[a] EXCEPT !.at = "rest", !.seq = app[a].seq + 1]
    <3>1. i \in 1 .. Len(bundles) BY <1>2, <2>2
    <3>2. bundles' = [bundles EXCEPT ![i] = b]
      <4>1. DOMAIN bundles = 1 .. Len(bundles) BY <1>1, <1>2, Begun
      <4> QED BY <2>2, <3>1, <4>1
    <3>3. app' = [app EXCEPT ![a] = e] BY <1>3, <2>2
    <3>4. e \in Captor /\ e.at # "incident"
      <4> DEFINE q == app[a].seq + 1
      <4>1. q \in Nat BY <2>1
      <4> HIDE DEF q
      <4>2. [app[a] EXCEPT !.at = "rest", !.seq = q] \in Captor BY <2>1, <4>1, Doing
      <4>3. [app[a] EXCEPT !.at = "rest", !.seq = q].at = "rest" BY <2>1 DEF Captor
      <4> QED BY <4>2, <4>3 DEF q
    <3>5. b \in Bundle /\ b.written = TRUE
      <4>1. bundles[i] \in Bundle BY <1>2, <3>1
      <4> QED BY <1>3, <2>1, <4>1, IncidentStamped
    <3>6. app[a].at = "incident" /\ UNCHANGED <<clock, local, pulled>> BY <1>11 DEF Diag!WriteIncident
    <3> HIDE DEF b, e
    <3>7. /\ bundles' \in Seq(Bundle) /\ Len(bundles') = Len(bundles)
          /\ \A j \in Diag!Ids : bundles'[j] = IF j = i THEN b ELSE bundles[j]
      BY <1>2, <1>3, <3>1, <3>2, <3>5, ExceptSeq
    <3> HIDE DEF i
    <3>8. app[a].id = i BY DEF i
    <3> QED BY <1>8, <3>3, <3>4, <3>5, <3>6, <3>7, <3>8
  <2>3. CASE bundles' = bundles /\ app' = [app EXCEPT ![a].at = Diag!Idle, ![a].id = 0, ![a].seq = @ + 1]
    <3> DEFINE e == [app[a] EXCEPT !.at = "idle", !.id = 0, !.seq = app[a].seq + 1]
    <3>1. app' = [app EXCEPT ![a] = e] BY <1>3, <2>3 DEF Diag!Idle
    <3>2. e \in Captor /\ e.at # "incident"
      <4> DEFINE q == app[a].seq + 1
      <4>1. q \in Nat BY <2>1
      <4> HIDE DEF q
      <4>2. [app[a] EXCEPT !.at = "idle", !.id = 0, !.seq = q] \in Captor BY <2>1, <4>1, Doing
      <4>3. [app[a] EXCEPT !.at = "idle", !.id = 0, !.seq = q].at = "idle" BY <2>1 DEF Captor
      <4> QED BY <4>2, <4>3 DEF q
    <3>3. UNCHANGED <<clock, local, pulled, bundles>> BY <1>11, <2>3 DEF Diag!WriteIncident
    <3> HIDE DEF e
    <3> QED BY <1>9, <3>1, <3>2, <3>3
  <2> QED BY <1>11, <2>2, <2>3 DEF Diag!WriteIncident
<1>12. ASSUME NEW a \in Apps, Diag!Ends(a)
       PROVE  \E e \in Captor : app' = [app EXCEPT ![a] = e] /\ e.at # "incident"
  <2> DEFINE e == [app[a] EXCEPT !.at = "idle", !.id = 0, !.list = {}]
  <2>1. app[a] \in Captor BY <1>3
  <2>2. app' = [app EXCEPT ![a] = e] BY <1>3, <1>12 DEF Diag!Ends, Diag!Idle
  <2>3. e \in Captor /\ e.at # "incident" BY <2>1 DEF Captor
  <2> HIDE DEF e
  <2> QED BY <2>2, <2>3
<1>13. ASSUME NEW a \in Apps, Diag!WriteRest(a) PROVE DiagnosticsInv'
  <2>1. UNCHANGED <<clock, bundles, local, pulled>> BY <1>13 DEF Diag!WriteRest
  <2>2. CASE app' = [app EXCEPT ![a].at = "pruning"]
    <3> DEFINE e == [app[a] EXCEPT !.at = "pruning"]
    <3>1. app' = [app EXCEPT ![a] = e] BY <1>3, <2>2
    <3>2. e \in Captor /\ e.at # "incident" BY <1>3 DEF Captor
    <3> HIDE DEF e
    <3> QED BY <1>9, <2>1, <3>1, <3>2
  <2>3. CASE Diag!Ends(a) BY <1>9, <1>12, <2>1, <2>3
  <2> QED BY <1>13, <2>2, <2>3 DEF Diag!WriteRest
<1>14. ASSUME NEW a \in Apps, Diag!PruneAged(a) PROVE DiagnosticsInv'
  <2> DEFINE aged == {i \in Diag!Present : Diag!Key(i)[1] < clock - MaxAge}
             e == [app[a] EXCEPT !.at = "sorting", !.list = Diag!Present \ aged]
  <2>1. PICK r \in SUBSET aged : bundles' = Diag!Remove(r, "aged")
    BY <1>14 DEF Diag!PruneAged
  <2>2. app' = [app EXCEPT ![a] = e] /\ UNCHANGED <<clock, local, pulled>>
    BY <1>3, <1>14 DEF Diag!PruneAged
  <2>3. e \in Captor /\ e.at # "incident"
    <3> HIDE DEF aged
    <3>1. Diag!Present \ aged \in SUBSET Nat
      <4>1. 1 .. Len(bundles) \subseteq Nat BY <1>2
      <4> QED BY <1>2, <4>1
    <3> QED BY <1>3, <3>1 DEF Captor
  <2> HIDE DEF e
  <2> QED BY <1>10, <2>1, <2>2, <2>3
<1>15. ASSUME NEW a \in Apps, Diag!PruneExcess(a) PROVE DiagnosticsInv'
  <2>1. Diag!Ends(a) /\ UNCHANGED <<clock, local, pulled>> BY <1>15 DEF Diag!PruneExcess
  <2>2. PICK e \in Captor : app' = [app EXCEPT ![a] = e] /\ e.at # "incident" BY <1>12, <2>1
  <2>3. CASE bundles' = bundles BY <1>9, <2>1, <2>2, <2>3
  <2>4. CASE \E r : bundles' = Diag!Remove(r, "excess") BY <1>10, <2>1, <2>2, <2>4
  <2> QED BY <1>15, <2>3, <2>4 DEF Diag!PruneExcess
<1>16. ASSUME NEW force \in BOOLEAN, Diag!Pull(force) PROVE DiagnosticsInv'
  <2>1. UNCHANGED <<clock, bundles, app>> BY <1>16 DEF Diag!Pull
  <2>2. Unwritten' BY <1>1, <2>1 DEF Unwritten, Diag!Ids
  <2>3. /\ local' \in Copies /\ pulled' \in BOOLEAN
        /\ local'.there => local'.whole \/ local'.broken
        /\ pulled' => local'.whole \/ local'.broken
    <3>1. CASE local.there /\ ~force /\ pulled' = TRUE /\ local' = local BY <1>1, <1>3, <3>1
    <3>2. CASE pulled' = FALSE /\ local' = local BY <1>1, <1>3, <3>2
    <3>3. ASSUME 1 \in Diag!Present, NEW ok \in BOOLEAN, NEW copy \in Diag!Transferred(ok),
                 pulled' = Diag!Complete(copy, ok),
                 local' = [copy EXCEPT !.whole = ok /\ copy.incident, !.broken = ~pulled']
          PROVE  /\ local' \in Copies /\ pulled' \in BOOLEAN
                 /\ local'.there => local'.whole \/ local'.broken
                 /\ pulled' => local'.whole \/ local'.broken
      <4>1. bundles[1].written \in BOOLEAN BY <1>2, <3>3 DEF Bundle
      <4>2. copy \in Copies
        <5> DEFINE all == [local EXCEPT !.there = TRUE, !.incident = @ \/ bundles[1].written]
        <5>1. all \in Copies /\ [local EXCEPT !.there = TRUE] \in Copies BY <1>3, <4>1 DEF Copies
        <5>2. copy \in {local, [local EXCEPT !.there = TRUE], all} BY <3>3 DEF Diag!Transferred
        <5> QED BY <1>3, <5>1, <5>2
      <4>3. copy.incident \in BOOLEAN BY <4>2 DEF Copies
      <4>4. pulled' = (ok /\ copy.incident) BY <3>3 DEF Diag!Complete
      <4>5. pulled' \in BOOLEAN BY <4>3, <4>4
      <4>6. local'.whole = (ok /\ copy.incident) /\ local'.broken = ~pulled'
        BY <3>3, <4>2 DEF Copies
      <4>7. local' \in Copies BY <3>3, <4>2, <4>3, <4>5 DEF Copies
      <4> QED BY <4>4, <4>5, <4>6, <4>7
    <3> QED BY <1>16, <3>1, <3>2, <3>3 DEF Diag!Pull
  <2>4. DiagnosticsTyped' BY <1>1, <2>1, <2>3 DEF DiagnosticsTyped
  <2> QED BY <2>2, <2>3, <2>4 DEF DiagnosticsInv, Diag!PullReported
<1> QED
  BY <1>5, <1>6, <1>7, <1>11, <1>13, <1>14, <1>15, <1>16 DEF Diag!DiagnosticsNext

\* What the i-th of some bundles is ordered by, and those ordered after it.
KeyIn(b, i) == IF b[i].written THEN <<b[i].time, b[i].seq>> ELSE <<b[i].made, 0>>

LaterIn(b, i) ==
  {j \in (1 .. Len(b)) \ {i} : Diag!AtMost(KeyIn(b, i), <<b[j].time, b[j].seq>>)}

\* Why it was removed, now being t.
KeptIn(b, t, i) ==
  /\ b[i].removed = "excess" => Cardinality(LaterIn(b, i)) >= MaxBundles
  /\ b[i].removed = "aged" => t - KeyIn(b, i)[1] > MaxAge

\* Diagnostics counts as everyone does.
LEMMA CountsAlike == \A S : Diag!Cardinality(S) = Cardinality(S)
BY DEF Diag!Cardinality, Cardinality

\* What is promised of the bundles is promised of each.
LEMMA KeptEach == Diag!NewestKept <=> \A i \in 1 .. Len(bundles) : KeptIn(bundles, clock, i)
BY CountsAlike DEF Diag!NewestKept, KeptIn, LaterIn, KeyIn, Diag!Ids

\* What bundles are ordered by are pairs of numbers.
LEMMA KeyTyped ==
  ASSUME NEW b \in Seq(Bundle), NEW i \in 1 .. Len(b)
  PROVE  /\ KeyIn(b, i) \in Nat \X Nat /\ <<b[i].time, b[i].seq>> \in Nat \X Nat
         /\ b[i].made \in Nat /\ b[i].time \in Nat /\ b[i].seq \in Nat
<1>1. b[i] \in Bundle BY ElementOfSeq
<1>2. b[i].made \in 1 .. MaxClock /\ b[i].time \in 1 .. MaxClock /\ b[i].seq \in Nat
  BY <1>1 DEF Bundle
<1>3. b[i].made \in Nat /\ b[i].time \in Nat BY <1>2
<1> QED BY <1>2, <1>3 DEF KeyIn

\* Their order is transitive.
LEMMA AtMostTransitive ==
  ASSUME NEW k \in Nat \X Nat, NEW l \in Nat \X Nat, NEW m \in Nat \X Nat,
         Diag!AtMost(k, l), Diag!AtMost(l, m)
  PROVE  Diag!AtMost(k, m)
<1>1. /\ k[1] \in Nat /\ k[2] \in Nat /\ l[1] \in Nat /\ l[2] \in Nat /\ m[1] \in Nat /\ m[2] \in Nat
  OBVIOUS
<1> QED BY <1>1 DEF Diag!AtMost

\* The later bundles are counted.
LEMMA LaterFinite ==
  ASSUME NEW b \in Seq(Bundle), NEW i
  PROVE  /\ IsFiniteSet(LaterIn(b, i)) /\ Cardinality(LaterIn(b, i)) \in Nat
         /\ IsFiniteSet(1 .. Len(b)) /\ Len(b) \in Nat
<1>1. IsFiniteSet(1 .. Len(b)) /\ Len(b) \in Nat
  <2>1. Len(b) \in Nat /\ 1 \in Int /\ Len(b) \in Int BY LenProperties
  <2> QED BY <2>1, FS_Interval
<1>2. LaterIn(b, i) \in SUBSET (1 .. Len(b)) BY DEF LaterIn
<1> QED BY <1>1, <1>2, FS_Subset, FS_CardinalityType

\* A removed bundle stays accounted for: others only become later, and the clock goes on.
LEMMA StaysKept ==
  ASSUME NEW b \in Seq(Bundle), NEW c \in Seq(Bundle), NEW t \in Nat, NEW u \in Nat, t <= u,
         NEW i \in 1 .. Len(b), KeptIn(b, t, i), c[i] = b[i], Len(b) <= Len(c),
         \A j \in 1 .. Len(b) : Diag!AtMost(<<b[j].time, b[j].seq>>, <<c[j].time, c[j].seq>>)
  PROVE  KeptIn(c, u, i)
<1>1. KeyIn(c, i) = KeyIn(b, i) BY DEF KeyIn
<1>2. Len(b) \in Nat /\ Len(c) \in Nat /\ 1 .. Len(b) \subseteq 1 .. Len(c)
  <2>1. Len(b) \in Nat /\ Len(c) \in Nat BY LenProperties
  <2> QED BY <2>1
<1>3. LaterIn(b, i) \in SUBSET LaterIn(c, i)
  <2> SUFFICES ASSUME NEW j \in LaterIn(b, i) PROVE j \in LaterIn(c, i) OBVIOUS
  <2>1. j \in 1 .. Len(b) /\ j # i /\ Diag!AtMost(KeyIn(b, i), <<b[j].time, b[j].seq>>)
    BY DEF LaterIn
  <2>2. KeyIn(b, i) \in Nat \X Nat /\ <<b[j].time, b[j].seq>> \in Nat \X Nat
    BY <2>1, KeyTyped
  <2>3. j \in 1 .. Len(c) /\ <<c[j].time, c[j].seq>> \in Nat \X Nat BY <1>2, <2>1, KeyTyped
  <2>4. Diag!AtMost(KeyIn(b, i), <<c[j].time, c[j].seq>>)
    BY <2>1, <2>2, <2>3, AtMostTransitive
  <2> QED BY <1>1, <2>1, <2>3, <2>4 DEF LaterIn
<1>4. Cardinality(LaterIn(b, i)) <= Cardinality(LaterIn(c, i)) /\ Cardinality(LaterIn(c, i)) \in Nat
      /\ Cardinality(LaterIn(b, i)) \in Nat
  BY <1>3, LaterFinite, FS_Subset
<1>5. KeyIn(b, i)[1] \in Nat
  <2>1. KeyIn(b, i) \in Nat \X Nat BY KeyTyped
  <2> QED BY <2>1
<1>6. MaxAge \in Nat /\ MaxBundles \in Nat BY ComponentsAssumption
<1>7. c[i].removed = "excess" => Cardinality(LaterIn(c, i)) >= MaxBundles
  BY <1>4, <1>6 DEF KeptIn
<1>8. c[i].removed = "aged" => u - KeyIn(c, i)[1] > MaxAge
  BY <1>1, <1>5, <1>6 DEF KeptIn
<1> QED BY <1>7, <1>8 DEF KeptIn

\* With the clock going on, whatever is begun, written or removed.
LEMMA KeptAgain ==
  ASSUME DiagnosticsInv, DiagnosticsKept, DiagnosticsTyped', clock <= clock',
         Len(bundles) <= Len(bundles'),
         \A i \in 1 .. Len(bundles) :
           /\ bundles'[i].made = bundles[i].made
           /\ Diag!AtMost(<<bundles[i].time, bundles[i].seq>>, <<bundles'[i].time, bundles'[i].seq>>)
           /\ bundles[i].removed # "no" => bundles'[i] = bundles[i]
           /\ bundles[i].removed = "no" /\ bundles'[i].removed # "no" => KeptIn(bundles', clock', i),
         \A i \in (1 .. Len(bundles')) \ (1 .. Len(bundles)) :
           bundles'[i].made = clock' /\ bundles'[i].removed = "no"
  PROVE  DiagnosticsKept'
<1>1. /\ bundles \in Seq(Bundle) /\ bundles' \in Seq(Bundle) /\ clock \in Nat /\ clock' \in Nat
  BY DEF DiagnosticsInv, DiagnosticsTyped
<1>2. NothingAhead'
  <2> SUFFICES ASSUME NEW i \in 1 .. Len(bundles') PROVE bundles'[i].made <= clock'
    BY DEF NothingAhead, Diag!Ids
  <2>1. CASE i \in 1 .. Len(bundles)
    <3>1. bundles[i].made <= clock BY <2>1 DEF DiagnosticsKept, NothingAhead, Diag!Ids
    <3>2. bundles[i].made \in Nat BY <1>1, <2>1, KeyTyped
    <3>3. bundles'[i].made = bundles[i].made BY <2>1
    <3> QED BY <1>1, <3>1, <3>2, <3>3
  <2>2. CASE i \notin 1 .. Len(bundles) BY <1>1, <2>2
  <2> QED BY <2>1, <2>2
<1>3. ASSUME NEW i \in 1 .. Len(bundles') PROVE KeptIn(bundles', clock', i)
  <2>1. CASE i \notin 1 .. Len(bundles) BY <2>1 DEF KeptIn
  <2>2. CASE i \in 1 .. Len(bundles) /\ bundles[i].removed # "no"
    <3>1. KeptIn(bundles, clock, i) /\ bundles'[i] = bundles[i]
      BY <2>2, KeptEach DEF DiagnosticsKept
    <3>2. \A j \in 1 .. Len(bundles) : Diag!AtMost(<<bundles[j].time, bundles[j].seq>>,
                                                   <<bundles'[j].time, bundles'[j].seq>>)
      OBVIOUS
    <3> QED BY <1>1, <2>2, <3>1, <3>2, StaysKept
  <2>3. CASE i \in 1 .. Len(bundles) /\ bundles[i].removed = "no"
    <3>1. CASE bundles'[i].removed = "no" BY <3>1 DEF KeptIn
    <3>2. CASE bundles'[i].removed # "no" BY <2>3, <3>2
    <3> QED BY <3>1, <3>2
  <2> QED BY <2>1, <2>2, <2>3
<1>4. Diag!NewestKept'
  BY <1>3, CountsAlike DEF Diag!NewestKept, KeptIn, LaterIn, KeyIn, Diag!Ids
<1> QED BY <1>2, <1>4 DEF DiagnosticsKept

\* Removing keeps what bundles are ordered by.
LEMMA RemovedKeys ==
  ASSUME DiagnosticsTyped, NEW ids, NEW why \in {"aged", "excess"}, bundles' = Diag!Remove(ids, why)
  PROVE  /\ bundles' \in Seq(Bundle) /\ Len(bundles') = Len(bundles)
         /\ \A i \in 1 .. Len(bundles) :
              /\ bundles'[i].made = bundles[i].made /\ bundles'[i].time = bundles[i].time
              /\ bundles'[i].seq = bundles[i].seq /\ KeyIn(bundles', i) = Diag!Key(i)
              /\ bundles'[i].removed = IF i \in ids THEN why ELSE bundles[i].removed
              /\ i \notin ids => bundles'[i] = bundles[i]
<1>1. /\ bundles' \in Seq(Bundle) /\ Len(bundles') = Len(bundles)
      /\ \A i \in Diag!Ids : bundles'[i] = IF i \in ids THEN [bundles[i] EXCEPT !.removed = why]
                                           ELSE bundles[i]
  BY Removing
<1>2. ASSUME NEW i \in 1 .. Len(bundles)
      PROVE  /\ bundles'[i].made = bundles[i].made /\ bundles'[i].time = bundles[i].time
             /\ bundles'[i].seq = bundles[i].seq /\ bundles'[i].written = bundles[i].written
             /\ bundles'[i].removed = IF i \in ids THEN why ELSE bundles[i].removed
             /\ i \notin ids => bundles'[i] = bundles[i]
  <2>1. bundles[i] \in [made : 1 .. MaxClock, time : 1 .. MaxClock, seq : Nat, written : BOOLEAN,
                        removed : {"no", "aged", "excess"}]
    BY Begun DEF Bundle, Diag!Ids
  <2> QED BY <1>1, <2>1 DEF Diag!Ids
<1> QED BY <1>1, <1>2 DEF KeyIn, Diag!Key

\* Nothing is in its own way.
LEMMA AtMostItself == \A k \in Nat \X Nat : Diag!AtMost(k, k)
BY DEF Diag!AtMost

\* The newest bundles are kept, whoever removes and writes side by side.
LEMMA DiagnosticsKeeps ==
  ASSUME DiagnosticsInv, DiagnosticsKept, ~ClockSteps, [Diag!DiagnosticsNext]_diagnosticsVars
  PROVE  DiagnosticsKept'
<1>1. /\ DiagnosticsTyped /\ Unwritten /\ bundles \in Seq(Bundle) /\ clock \in Nat
      /\ app \in [Apps -> Captor] /\ Len(bundles) \in Nat
  BY LenProperties DEF DiagnosticsInv, DiagnosticsTyped
<1>2. DiagnosticsTyped' BY DiagnosticsStep DEF DiagnosticsInv
<1>3. \A i \in 1 .. Len(bundles) : Diag!AtMost(<<bundles[i].time, bundles[i].seq>>,
                                               <<bundles[i].time, bundles[i].seq>>)
  BY <1>1, KeyTyped, AtMostItself
<1>4. ASSUME UNCHANGED bundles, clock <= clock' PROVE DiagnosticsKept'
  BY <1>1, <1>2, <1>3, <1>4, KeptAgain
<1>5. CASE UNCHANGED diagnosticsVars BY <1>1, <1>4, <1>5 DEF diagnosticsVars
<1>6. CASE Diag!Clock
  <2>1. UNCHANGED bundles /\ clock' = clock + 1 BY <1>6 DEF Diag!Clock
  <2> QED BY <1>1, <1>4, <2>1
<1>7. ASSUME NEW a \in Apps, Diag!Capture(a) PROVE DiagnosticsKept'
  <2> DEFINE b == [made |-> clock, time |-> clock, seq |-> 0, written |-> FALSE, removed |-> "no"]
             n == Len(bundles)
  <2>1. bundles' = Append(bundles, b) /\ UNCHANGED clock BY <1>7 DEF Diag!Capture
  <2>2. b \in Bundle /\ b.made = clock /\ b.removed = "no"
    <3>1. clock \in 1 .. MaxClock BY <1>1 DEF DiagnosticsTyped
    <3> QED BY <3>1 DEF Bundle
  <2> HIDE DEF b
  <2>3. /\ Len(bundles') = n + 1 /\ bundles'[n + 1] = b
        /\ \A i \in 1 .. n : bundles'[i] = bundles[i]
    BY <1>1, <2>1, <2>2, AppendProperties
  <2>4. n <= Len(bundles') /\ (1 .. Len(bundles')) \ (1 .. n) = {n + 1} /\ clock <= clock'
    BY <1>1, <2>1, <2>3
  <2>5. \A i \in (1 .. Len(bundles')) \ (1 .. n) : bundles'[i].made = clock' /\ bundles'[i].removed = "no"
    BY <2>1, <2>2, <2>3, <2>4
  <2>6. \A i \in 1 .. n :
          /\ bundles'[i].made = bundles[i].made
          /\ Diag!AtMost(<<bundles[i].time, bundles[i].seq>>, <<bundles'[i].time, bundles'[i].seq>>)
          /\ bundles[i].removed # "no" => bundles'[i] = bundles[i]
          /\ bundles[i].removed = "no" /\ bundles'[i].removed # "no" => KeptIn(bundles', clock', i)
    BY <1>3, <2>3
  <2> HIDE DEF n
  <2> QED BY <1>2, <2>4, <2>5, <2>6, KeptAgain DEF n
<1>8. ASSUME NEW a \in Apps, Diag!WriteIncident(a) PROVE DiagnosticsKept'
  <2> DEFINE i == app[a].id
             b == [bundles[i] EXCEPT !.time = clock, !.seq = app[a].seq, !.written = TRUE]
  <2>1. UNCHANGED clock /\ app[a].at = "incident" BY <1>8 DEF Diag!WriteIncident
  <2>2. CASE bundles' = bundles BY <1>1, <1>4, <2>1, <2>2
  <2>3. CASE /\ i \in Diag!Present
             /\ bundles' = [bundles EXCEPT ![i].time = clock, ![i].seq = app[a].seq, ![i].written = TRUE]
    <3>1. i \in 1 .. Len(bundles) /\ bundles[i] \in Bundle /\ bundles[i].removed = "no"
      BY <1>1, <2>3, Begun DEF Diag!Present, Diag!Ids
    <3>2. bundles' = [bundles EXCEPT ![i] = b]
      <4>1. DOMAIN bundles = 1 .. Len(bundles) BY <1>1, LenProperties
      <4> QED BY <2>3, <3>1, <4>1
    <3>3. app[a] \in Captor /\ app[a].seq \in Nat /\ clock \in 1 .. MaxClock
      BY <1>1 DEF Captor, DiagnosticsTyped
    <3>4. b \in Bundle /\ b.made = bundles[i].made /\ b.time = clock /\ b.seq = app[a].seq
          /\ b.removed = "no"
      <4>1. bundles[i] \in [made : 1 .. MaxClock, time : 1 .. MaxClock, seq : Nat, written : BOOLEAN,
                            removed : {"no", "aged", "excess"}]
        BY <3>1 DEF Bundle
      <4> DEFINE o == bundles[i]
                 q == app[a].seq
      <4>2. b = [o EXCEPT !.time = clock, !.seq = q, !.written = TRUE] OBVIOUS
      <4> HIDE DEF i, b, o, q
      <4>3. b.made = o.made /\ b.time = clock /\ b.seq = q BY <4>1, <4>2 DEF o
      <4>5. b \in Bundle
        <5>1. o \in Bundle /\ q \in Nat BY <3>1, <3>3 DEF o, q
        <5> DEFINE d == [o EXCEPT !.time = clock]
                   e == [d EXCEPT !.seq = q]
        <5>2. d \in Bundle BY <3>3, <5>1 DEF Bundle
        <5>3. b = [e EXCEPT !.written = TRUE] BY <4>2
        <5> HIDE DEF d
        <5>4. e \in Bundle BY <5>1, <5>2 DEF Bundle
        <5> HIDE DEF e
        <5> QED BY <5>3, <5>4 DEF Bundle
      <4>4. b.removed = o.removed BY <4>1, <4>2 DEF o
      <4> QED BY <3>1, <4>3, <4>4, <4>5 DEF o, q
    <3>5. /\ bundles[i].time = bundles[i].made /\ bundles[i].seq = 0 /\ bundles[i].made <= clock
      BY <1>1, <2>1, <3>1 DEF Unwritten, DiagnosticsKept, NothingAhead, Diag!Ids
    <3> HIDE DEF b
    <3>6. /\ Len(bundles') = Len(bundles)
          /\ \A j \in 1 .. Len(bundles) : bundles'[j] = IF j = i THEN b ELSE bundles[j]
      BY <1>1, <3>1, <3>2, <3>4, ExceptSeq
    <3> HIDE DEF i
    <3>7. Diag!AtMost(<<bundles[i].time, bundles[i].seq>>, <<b.time, b.seq>>)
      <4>1. bundles[i].time \in Nat /\ bundles[i].time <= clock BY <1>1, <3>1, <3>5, KeyTyped
      <4>2. b.time = clock /\ b.seq \in Nat BY <3>3, <3>4
      <4> QED BY <1>1, <3>5, <4>1, <4>2 DEF Diag!AtMost
    <3>8. \A j \in 1 .. Len(bundles) :
            /\ bundles'[j].made = bundles[j].made
            /\ Diag!AtMost(<<bundles[j].time, bundles[j].seq>>, <<bundles'[j].time, bundles'[j].seq>>)
            /\ bundles[j].removed # "no" => bundles'[j] = bundles[j]
            /\ bundles[j].removed = "no" /\ bundles'[j].removed # "no" => KeptIn(bundles', clock', j)
      BY <1>3, <3>1, <3>4, <3>6, <3>7
    <3>9. /\ Len(bundles) <= Len(bundles') /\ clock <= clock'
          /\ (1 .. Len(bundles')) \ (1 .. Len(bundles)) = {}
      BY <1>1, <2>1, <3>6
    <3> QED BY <1>2, <3>8, <3>9, KeptAgain
  <2> QED BY <1>8, <2>2, <2>3 DEF Diag!WriteIncident
<1>9. ASSUME NEW ids, ids \subseteq Diag!Present, NEW why \in {"aged", "excess"},
             bundles' = Diag!Remove(ids, why), UNCHANGED clock,
             why = "aged" => \A i \in ids : clock - Diag!Key(i)[1] > MaxAge,
             why = "excess" => \A i \in ids : Cardinality(LaterIn(bundles', i)) >= MaxBundles
      PROVE  DiagnosticsKept'
  <2>1. /\ Len(bundles') = Len(bundles)
        /\ \A i \in 1 .. Len(bundles) :
             /\ bundles'[i].made = bundles[i].made /\ bundles'[i].time = bundles[i].time
             /\ bundles'[i].seq = bundles[i].seq /\ KeyIn(bundles', i) = Diag!Key(i)
             /\ bundles'[i].removed = IF i \in ids THEN why ELSE bundles[i].removed
             /\ i \notin ids => bundles'[i] = bundles[i]
    BY <1>1, <1>9, RemovedKeys
  <2>2. ASSUME NEW i \in 1 .. Len(bundles)
        PROVE  /\ bundles[i].removed # "no" => bundles'[i] = bundles[i]
               /\ bundles[i].removed = "no" /\ bundles'[i].removed # "no" => KeptIn(bundles', clock', i)
    <3>1. i \in ids => bundles[i].removed = "no" BY <1>9 DEF Diag!Present
    <3>2. CASE i \notin ids BY <2>1, <3>2
    <3>3. CASE i \in ids
      <4>1. bundles'[i].removed = why BY <2>1, <3>3
      <4>2. KeptIn(bundles', clock', i) BY <1>9, <2>1, <3>3, <4>1 DEF KeptIn
      <4> QED BY <3>1, <3>3, <4>2
    <3> QED BY <3>2, <3>3
  <2>3. \A i \in 1 .. Len(bundles) : Diag!AtMost(<<bundles[i].time, bundles[i].seq>>,
                                                 <<bundles'[i].time, bundles'[i].seq>>)
    BY <1>3, <2>1
  <2>4. /\ Len(bundles) <= Len(bundles') /\ clock <= clock'
        /\ (1 .. Len(bundles')) \ (1 .. Len(bundles)) = {}
    BY <1>1, <1>9, <2>1
  <2> QED BY <1>2, <2>1, <2>2, <2>3, <2>4, KeptAgain
<1>10. ASSUME NEW a \in Apps, Diag!PruneAged(a) PROVE DiagnosticsKept'
  <2> DEFINE aged == {i \in Diag!Present : Diag!Key(i)[1] < clock - MaxAge}
  <2>1. PICK r \in SUBSET aged : bundles' = Diag!Remove(r, "aged")
    BY <1>10 DEF Diag!PruneAged
  <2>2. UNCHANGED clock /\ r \subseteq Diag!Present BY <1>10, <2>1 DEF Diag!PruneAged
  <2>3. ASSUME NEW i \in r PROVE clock - Diag!Key(i)[1] > MaxAge
    <3>1. Diag!Key(i)[1] < clock - MaxAge BY <2>3
    <3>2. Diag!Key(i)[1] \in Nat
      <4>1. i \in 1 .. Len(bundles) BY <2>2, <2>3 DEF Diag!Present, Diag!Ids
      <4>2. KeyIn(bundles, i) \in Nat \X Nat BY <1>1, <4>1, KeyTyped
      <4>3. Diag!Key(i) = KeyIn(bundles, i) BY DEF Diag!Key, KeyIn
      <4> QED BY <4>2, <4>3
    <3>3. MaxAge \in Nat BY ComponentsAssumption
    <3> QED BY <1>1, <3>1, <3>2, <3>3
  <2> HIDE DEF aged
  <2> QED BY <1>9, <2>1, <2>2, <2>3
<1>11. ASSUME NEW a \in Apps, Diag!PruneExcess(a) PROVE DiagnosticsKept'
  <2> DEFINE list == app[a].list
             N == Cardinality(list)
  <2>1. UNCHANGED clock BY <1>11 DEF Diag!PruneExcess
  <2>2. CASE bundles' = bundles BY <1>1, <1>4, <2>1, <2>2
  <2>3. ASSUME list \subseteq Diag!Present, NEW old \in SUBSET list,
               Cardinality(old) = IF N > MaxBundles THEN N - MaxBundles ELSE 0,
               \A i \in old, j \in list \ old : Diag!AtMost(Diag!Key(i), Diag!Key(j)),
               NEW r \in SUBSET old, bundles' = Diag!Remove(r, "excess")
        PROVE  DiagnosticsKept'
    <3> HIDE DEF list
    <3>1. list \in SUBSET (1 .. Len(bundles)) BY <2>3 DEF Diag!Present, Diag!Ids
    <3>2. IsFiniteSet(list) /\ IsFiniteSet(old) /\ IsFiniteSet(list \ old) /\ N \in Nat
          /\ Cardinality(old) \in Nat /\ Cardinality(list \ old) \in Nat
      <4>1. IsFiniteSet(list) BY <1>1, <3>1, LaterFinite, FS_Subset
      <4>2. IsFiniteSet(old) /\ IsFiniteSet(list \ old) BY <2>3, <4>1, FS_Subset
      <4> QED BY <4>1, <4>2, FS_CardinalityType
    <3>3. Cardinality(list \ old) = N - Cardinality(old)
      <4>1. list \cap old = old BY <2>3
      <4> QED BY <3>2, <4>1, FS_Difference
    <3>4. MaxBundles \in Nat BY ComponentsAssumption
    <3>5. ASSUME NEW i \in r PROVE Cardinality(LaterIn(bundles', i)) >= MaxBundles
      <4>1. old # {} BY <2>3, <3>5
      <4>2. Cardinality(old) # 0 BY <3>2, <4>1, FS_EmptySet
      <4> HIDE DEF N
      <4>3. Cardinality(list \ old) = MaxBundles BY <2>3, <3>2, <3>3, <3>4, <4>2
      <4>4. list \ old \in SUBSET LaterIn(bundles', i)
        <5> SUFFICES ASSUME NEW j \in list \ old PROVE j \in LaterIn(bundles', i) OBVIOUS
        <5>1. /\ bundles' \in Seq(Bundle) /\ Len(bundles') = Len(bundles)
              /\ \A k \in 1 .. Len(bundles) :
                   /\ bundles'[k].time = bundles[k].time /\ bundles'[k].seq = bundles[k].seq
                   /\ KeyIn(bundles', k) = Diag!Key(k)
          BY <1>1, <2>3, RemovedKeys
        <5>2. i \in 1 .. Len(bundles) /\ j \in 1 .. Len(bundles) /\ i # j BY <2>3, <3>1, <3>5
        <5>3. Diag!AtMost(Diag!Key(i), Diag!Key(j)) BY <2>3, <3>5
        <5>4. Diag!Key(j) = <<bundles[j].time, bundles[j].seq>>
          BY <1>1, <5>2 DEF Diag!Key, Unwritten, Diag!Ids
        <5>5. Diag!AtMost(KeyIn(bundles', i), <<bundles'[j].time, bundles'[j].seq>>)
          BY <5>1, <5>2, <5>3, <5>4
        <5> QED BY <5>1, <5>2, <5>5 DEF LaterIn
      <4>5. bundles' \in Seq(Bundle) BY <1>1, <2>3, RemovedKeys
      <4>6. Cardinality(list \ old) <= Cardinality(LaterIn(bundles', i))
            /\ Cardinality(LaterIn(bundles', i)) \in Nat
        BY <4>4, <4>5, LaterFinite, FS_Subset
      <4> QED BY <3>4, <4>3, <4>6
    <3>6. r \subseteq Diag!Present BY <2>3
    <3> QED BY <1>9, <2>1, <2>3, <3>5, <3>6
  <2> HIDE DEF list, N
  <2>4. bundles' = bundles
        \/ /\ list \subseteq Diag!Present
           /\ \E old \in SUBSET list :
                /\ Cardinality(old) = IF N > MaxBundles THEN N - MaxBundles ELSE 0
                /\ \A i \in old, j \in list \ old : Diag!AtMost(Diag!Key(i), Diag!Key(j))
                /\ \E r \in SUBSET old : bundles' = Diag!Remove(r, "excess")
    BY <1>11, CountsAlike DEF Diag!PruneExcess, list, N
  <2> QED BY <2>2, <2>3, <2>4
<1>12. CASE (\E a \in Apps : Diag!WriteRest(a)) \/ (\E force \in BOOLEAN : Diag!Pull(force))
  <2>1. UNCHANGED <<clock, bundles>> BY <1>12 DEF Diag!WriteRest, Diag!Pull
  <2> QED BY <1>1, <1>4, <2>1
<1> QED
  BY <1>5, <1>6, <1>7, <1>8, <1>10, <1>11, <1>12 DEF Diag!DiagnosticsNext

-------------------------------------------------------------------------------
(* The saved settings. *)

\* The box changes the gain, and never the camera.
LEMMA Toggled ==
  ASSUME NEW s \in Entry, NEW on \in BOOLEAN
  PROVE  Sets!Toggle(s, on) \in Entry /\ Sets!Toggle(s, on).id = s.id /\ Sets!Toggle(s, on).auto = on
<1>1. DefaultGain \in Gains BY ComponentsAssumption
<1> DEFINE b == [s EXCEPT !.auto = on]
<1>2. b \in Entry /\ b.id = s.id /\ b.auto = on BY DEF Entry
<1>3. Sets!Toggle(s, on) = b \/ Sets!Toggle(s, on) = [b EXCEPT !.gain = DefaultGain]
  BY DEF Sets!Toggle
<1> HIDE DEF b
<1>4. LET c == [b EXCEPT !.gain = DefaultGain] IN c \in Entry /\ c.id = s.id /\ c.auto = on
  BY <1>1, <1>2 DEF Entry
<1> QED BY <1>2, <1>3, <1>4

\* No saved entry is the absent one.
LEMMA SavedIsSome == \A s \in Entry : s # Sets!None
<1>1. "none" \notin SavedCameras BY ComponentsAssumption
<1> QED BY <1>1 DEF Entry, Sets!None

\* A panel is restored with its camera, or with the demo camera where it is not ready, and with
\* the saved controls in either case.
LEMMA RestoredEntry ==
  ASSUME NEW saved \in Entry \cup {Sets!None}, NEW ready \in SUBSET SavedCameras
  PROVE  LET r == Sets!Restored(saved, ready)
         IN  /\ r \in Entry /\ r.id \in ready \cup {"demo"}
             /\ saved = Sets!None => r = Sets!Connected("demo")
             /\ saved # Sets!None => r.id \in {saved.id, "demo"} /\ r = [saved EXCEPT !.id = r.id]
<1>1. CASE saved = Sets!None
  <2>1. Sets!Restored(saved, ready) = Sets!Connected("demo")
    BY <1>1 DEF Sets!Restored, Sets!Demo
  <2>2. DefaultGain \in Gains BY ComponentsAssumption
  <2> QED BY <1>1, <2>1, <2>2 DEF Sets!Connected, Entry
<1>2. CASE saved \in Entry
  <2> DEFINE d == IF saved.id \in ready THEN saved.id ELSE "demo"
             b == Sets!Toggle(Sets!Connected(d), saved.auto)
             r == [b EXCEPT !.gain = saved.gain]
  <2>1. Sets!Restored(saved, ready) = r
    BY <1>2, SavedIsSome DEF Sets!Restored, Sets!Controls, Sets!Demo
  <2>2. d \in ready \cup {"demo"} /\ d \in {saved.id, "demo"} OBVIOUS
  <2>3. saved.auto \in BOOLEAN /\ saved.gain \in Gains BY <1>2 DEF Entry
  <2> HIDE DEF d
  <2>4. d \in SavedCameras \cup {"demo"} BY <2>2
  <2>5. Sets!Connected(d) \in Entry /\ Sets!Connected(d).id = d
    <3>1. DefaultGain \in Gains BY ComponentsAssumption
    <3> QED BY <2>4, <3>1 DEF Sets!Connected, Entry
  <2>6. b \in Entry /\ b.id = d /\ b.auto = saved.auto BY <2>3, <2>5, Toggled
  <2> HIDE DEF b
  <2>7. r \in Entry /\ r.id = d /\ r.auto = saved.auto /\ r.gain = saved.gain
    BY <2>3, <2>6 DEF Entry
  <2> HIDE DEF r
  <2>8. [saved EXCEPT !.id = d] = r BY <1>2, <2>7 DEF Entry
  <2>9. saved # Sets!None BY <1>2, SavedIsSome
  <2> QED BY <2>1, <2>2, <2>7, <2>8, <2>9
<1> QED BY <1>1, <1>2

\* There are two panels.
LEMMA BothPanels ==
  /\ Sets!Panels = {"main", "guide"}
  /\ Sets!Other("main") = "guide" /\ Sets!Other("guide") = "main"
BY DEF Sets!Panels, Sets!Other

\* Outside a session the panels are fresh and nothing is known.
LEMMA NoSessionOpen ==
  ASSUME file \in Files, file.align = written, open = FALSE,
         Sets!NoSession(shownPanel, found, refused, align)
  PROVE  SettingsInv /\ SettingsKept
<1>1. Sets!Connected("demo") \in Entry
  <2>1. DefaultGain \in Gains BY ComponentsAssumption
  <2> QED BY <2>1 DEF Sets!Connected, Entry
<1> QED BY <1>1 DEF Sets!NoSession, SettingsInv, SettingsKept, Sets!Remembered, Sets!Demo

\* Before the first start nothing has been saved.
LEMMA SettingsStarts == Sets!SettingsInit => SettingsInv /\ SettingsKept
<1> SUFFICES ASSUME Sets!SettingsInit PROVE SettingsInv /\ SettingsKept OBVIOUS
<1>1. file \in Files /\ file.align = written BY DEF Sets!SettingsInit, Files
<1> QED BY <1>1, NoSessionOpen DEF Sets!SettingsInit

\* The settings keep their types, and two panels never restore one camera.
LEMMA SettingsFacts == SettingsInv => Sets!SettingsTypeOK
<1> SUFFICES ASSUME SettingsInv, NEW p \in Sets!Panels
    PROVE  /\ shownPanel[p] \in [id : SavedCameras \cup {Sets!Demo}, gain : Gains, auto : BOOLEAN]
           /\ file.cams[p] = Sets!None \/ file.cams[p].id \in SavedCameras \cup {Sets!Demo}
  BY DEF SettingsInv, Files, Sets!SettingsTypeOK
<1> QED BY DEF SettingsInv, Files, Entry, Sets!Demo

\* A change shows what it shows, and saves both panels, or loses them.
LEMMA SettingsChanged ==
  ASSUME SettingsInv, NEW p \in Sets!Panels, NEW s \in Entry,
         s.id # "demo" => s.id # shownPanel[Sets!Other(p)].id,
         Sets!Changed(p, s)
  PROVE  /\ SettingsInv'
         /\ SettingsKept /\ ~TornWrites => SettingsKept'
<1>1. /\ open /\ shownPanel' = [shownPanel EXCEPT ![p] = s] /\ Sets!Save(shownPanel')
      /\ found' = [q \in Sets!Panels |-> "all"] /\ refused' = {}
      /\ UNCHANGED <<written, align, sessions, open>>
  BY DEF Sets!Changed
<1>2. shownPanel' \in [Sets!Panels -> Entry] BY <1>1 DEF SettingsInv
<1>3. open' /\ shownPanel'["main"].id = shownPanel'["guide"].id => shownPanel'["main"].id = "demo"
  <2>1. CASE p = "main"
    <3>1. shownPanel'["main"] = s /\ shownPanel'["guide"] = shownPanel["guide"]
      BY <1>1, <2>1, BothPanels DEF SettingsInv
    <3>2. Sets!Other(p) = "guide" BY <2>1, BothPanels
    <3> QED BY <3>1, <3>2
  <2>2. CASE p = "guide"
    <3>1. shownPanel'["guide"] = s /\ shownPanel'["main"] = shownPanel["main"]
      BY <1>1, <2>2, BothPanels DEF SettingsInv
    <3>2. Sets!Other(p) = "main" BY <2>2, BothPanels
    <3> QED BY <3>1, <3>2
  <2> QED BY <2>1, <2>2, BothPanels
<1>4. CASE file' = [file EXCEPT !.cams = shownPanel']
  <2>1. file'.cams = shownPanel' /\ file'.align = file.align BY <1>4 DEF SettingsInv, Files
  <2>2. file' \in Files
    <3>1. shownPanel' \in [Sets!Panels -> Entry \cup {Sets!None}] BY <1>2
    <3> QED BY <1>4, <3>1 DEF SettingsInv, Files
  <2>3. SettingsInv' BY <1>1, <1>2, <1>3, <2>2 DEF SettingsInv
  <2>4. SettingsKept => SettingsKept'
    BY <1>1, <1>3, <2>1 DEF SettingsKept, Sets!Remembered, Sets!Known, Sets!Demo
  <2> QED BY <2>3, <2>4
<1>5. CASE TornWrites /\ file' = [cams |-> [q \in Sets!Panels |-> Sets!None], align |-> "missing"]
  <2>1. file' \in Files BY <1>5 DEF Files
  <2> QED BY <1>1, <1>2, <1>3, <1>5, <2>1 DEF SettingsInv
<1> QED BY <1>1, <1>4, <1>5 DEF Sets!Save

\* The window opens with what the file holds, as far as the cameras are there.
LEMMA WindowOpened ==
  ASSUME SettingsInv, Sets!OpenWindow
  PROVE  /\ SettingsInv'
         /\ SettingsKept => SettingsKept'
<1> DEFINE known == Sets!LoadCameras
<1>1. PICK ready \in SUBSET SavedCameras :
        shownPanel' = LET main == Sets!Restored(known["main"], ready)
                      IN  [p \in Sets!Panels |-> IF p = "main" THEN main
                                                 ELSE Sets!Restored(known["guide"], ready \ {main.id})]
  BY DEF Sets!OpenWindow
<1> DEFINE main == Sets!Restored(known["main"], ready)
           guide == Sets!Restored(known["guide"], ready \ {main.id})
<1>2. shownPanel' = [p \in Sets!Panels |-> IF p = "main" THEN main ELSE guide] BY <1>1
<1>3. /\ open' = TRUE /\ align' = Sets!LoadAlign
      /\ refused' = {} /\ UNCHANGED <<file, written>>
      /\ found' = [p \in Sets!Panels |-> IF known[p] = Sets!None THEN "nothing"
                                         ELSE IF known[p].id = shownPanel'[p].id THEN "all" ELSE "controls"]
  BY DEF Sets!OpenWindow
<1>4. /\ known["main"] \in Entry \cup {Sets!None} /\ known["guide"] \in Entry \cup {Sets!None}
      /\ \A p \in Sets!Panels : known[p] # Sets!None => known[p] = file.cams[p]
  <2>1. known = file.cams \/ known = [p \in Sets!Panels |-> Sets!None] BY DEF Sets!LoadCameras
  <2> QED BY <2>1, BothPanels DEF SettingsInv, Files
<1>5. ready \in SUBSET SavedCameras BY <1>1
<1> HIDE DEF known
<1>6. /\ main \in Entry /\ main.id \in ready \cup {"demo"}
      /\ known["main"] = Sets!None => main = Sets!Connected("demo")
      /\ known["main"] # Sets!None => /\ main.id \in {known["main"].id, "demo"}
                                     /\ main = [known["main"] EXCEPT !.id = main.id]
  BY <1>4, <1>5, RestoredEntry
<1> HIDE DEF main
<1>7. /\ guide \in Entry /\ guide.id \in (ready \ {main.id}) \cup {"demo"}
      /\ known["guide"] = Sets!None => guide = Sets!Connected("demo")
      /\ known["guide"] # Sets!None => /\ guide.id \in {known["guide"].id, "demo"}
                                      /\ guide = [known["guide"] EXCEPT !.id = guide.id]
  <2>1. ready \ {main.id} \in SUBSET SavedCameras BY <1>5
  <2> QED BY <1>4, <2>1, RestoredEntry
<1> HIDE DEF guide
<1>8. /\ shownPanel' \in [Sets!Panels -> Entry]
      /\ shownPanel'["main"] = main /\ shownPanel'["guide"] = guide
  BY <1>2, <1>6, <1>7, BothPanels
<1>9. main.id = guide.id => main.id = "demo" BY <1>7
<1>10. align' \in {"custom", "default"} BY <1>3 DEF Sets!LoadAlign
<1>11. SettingsInv' BY <1>3, <1>8, <1>9, <1>10 DEF SettingsInv
<1>12. ASSUME NEW p \in Sets!Panels
       PROVE  shownPanel'[p] = Sets!Known(p)'
  <2> DEFINE saved == known[p]
             new == shownPanel'[p]
  <2>1. saved \in Entry \cup {Sets!None} /\ new \in Entry BY <1>4, <1>8, <1>12, BothPanels
  <2>2. /\ saved = Sets!None => new = Sets!Connected("demo")
        /\ saved # Sets!None => new.id \in {saved.id, "demo"} /\ new = [saved EXCEPT !.id = new.id]
    BY <1>6, <1>7, <1>8, <1>12, BothPanels
  <2>3. found'[p] = IF saved = Sets!None THEN "nothing" ELSE IF saved.id = new.id THEN "all" ELSE "controls"
    BY <1>3, <1>12
  <2>4. saved # Sets!None => saved = file'.cams[p] BY <1>3, <1>4, <1>12
  <2>5. Sets!Known(p)' = IF found'[p] = "nothing" THEN Sets!Connected("demo")
                         ELSE IF found'[p] = "controls" THEN [file'.cams[p] EXCEPT !.id = "demo"]
                         ELSE file'.cams[p]
    BY DEF Sets!Known, Sets!Demo, Sets!Connected
  <2> HIDE DEF saved, new
  <2>6. CASE saved = Sets!None BY <2>2, <2>3, <2>5, <2>6 DEF new
  <2>7. CASE saved # Sets!None /\ new.id = saved.id
    <3>1. saved \in Entry BY <2>1, <2>7
    <3>2. [saved EXCEPT !.id = saved.id] = saved BY <3>1 DEF Entry
    <3>3. found'[p] = "all" BY <2>3, <2>7
    <3> QED BY <2>2, <2>4, <2>5, <2>7, <3>2, <3>3 DEF new
  <2>8. CASE saved # Sets!None /\ new.id # saved.id
    <3>1. new.id = "demo" BY <2>2, <2>8
    <3>2. found'[p] = "controls" BY <2>3, <2>8
    <3> QED BY <2>2, <2>4, <2>5, <2>8, <3>1, <3>2 DEF new
  <2> QED BY <2>6, <2>7, <2>8
<1>13. SettingsKept => SettingsKept'
  <2> SUFFICES ASSUME SettingsKept PROVE Sets!Remembered' BY DEF SettingsKept
  <2>1. file'.align = written' BY <1>3 DEF SettingsKept, Sets!Remembered
  <2> QED BY <1>8, <1>9, <1>12, <2>1 DEF Sets!Remembered, Sets!Demo
<1> QED BY <1>11, <1>13

\* A camera is connected that the other panel does not show; a gain is set, the box checked.
LEMMA PanelChanged ==
  ASSUME SettingsInv, NEW p \in Sets!Panels, Sets!ConnectCamera(p) \/ Sets!SetGain(p) \/ Sets!ToggleAuto(p)
  PROVE  \E s \in Entry : Sets!Changed(p, s) /\ (s.id # "demo" => s.id # shownPanel[Sets!Other(p)].id)
<1>1. shownPanel[p] \in Entry /\ open
      /\ shownPanel[p].auto \in BOOLEAN
  BY DEF SettingsInv, Sets!ConnectCamera, Sets!SetGain, Sets!ToggleAuto, Sets!Changed, Entry
<1>2. shownPanel[p].id # "demo" => shownPanel[p].id # shownPanel[Sets!Other(p)].id
  BY <1>1, BothPanels DEF SettingsInv
<1>3. CASE Sets!ConnectCamera(p)
  <2>1. PICK d \in (SavedCameras \ {shownPanel[Sets!Other(p)].id}) \cup {"demo"} :
          Sets!Changed(p, [Sets!Connected(d) EXCEPT !.auto = shownPanel[p].auto])
    BY <1>3 DEF Sets!ConnectCamera, Sets!Demo
  <2>2. DefaultGain \in Gains BY ComponentsAssumption
  <2>3. Sets!Connected(d) \in Entry /\ Sets!Connected(d).id = d
    BY <1>1, <2>2 DEF Sets!Connected, Entry
  <2> DEFINE s == [Sets!Connected(d) EXCEPT !.auto = shownPanel[p].auto]
  <2>4. s \in Entry /\ s.id = d BY <1>1, <2>3 DEF Entry
  <2> HIDE DEF s
  <2>5. s.id # "demo" => s.id # shownPanel[Sets!Other(p)].id BY <2>4
  <2> QED BY <2>1, <2>4, <2>5 DEF s
<1>4. CASE Sets!SetGain(p)
  <2>1. PICK g \in Gains : Sets!Changed(p, [shownPanel[p] EXCEPT !.gain = g])
    BY <1>4 DEF Sets!SetGain
  <2> DEFINE s == [shownPanel[p] EXCEPT !.gain = g]
  <2>2. s \in Entry /\ s.id = shownPanel[p].id BY <1>1 DEF Entry
  <2> HIDE DEF s
  <2>3. s.id # "demo" => s.id # shownPanel[Sets!Other(p)].id BY <1>2, <2>2
  <2> QED BY <2>1, <2>2, <2>3 DEF s
<1>5. CASE Sets!ToggleAuto(p)
  <2> DEFINE s == Sets!Toggle(shownPanel[p], ~shownPanel[p].auto)
  <2>1. Sets!Changed(p, s) BY <1>5 DEF Sets!ToggleAuto
  <2>2. s \in Entry /\ s.id = shownPanel[p].id BY <1>1, Toggled
  <2> HIDE DEF s
  <2>3. s.id # "demo" => s.id # shownPanel[Sets!Other(p)].id BY <1>2, <2>2
  <2> QED BY <2>1, <2>2, <2>3
<1> QED BY <1>3, <1>4, <1>5

\* An exposure refused is shown, and known to be shown only.
LEMMA StillShown ==
  ASSUME SettingsInv, NEW p \in Sets!Panels, Sets!ExposureRefused(p)
  PROVE  SettingsInv' /\ (SettingsKept => SettingsKept')
<1>1. PICK g \in Gains : shownPanel' = [shownPanel EXCEPT ![p].gain = g]
  BY DEF Sets!ExposureRefused
<1>2. refused' = refused \cup {p} /\ UNCHANGED <<file, written, found, align, sessions, open>>
  BY DEF Sets!ExposureRefused
<1> DEFINE s == [shownPanel[p] EXCEPT !.gain = g]
<1>3. shownPanel[p] \in Entry BY DEF SettingsInv
<1>4. s \in Entry /\ s.id = shownPanel[p].id /\ s.gain = g BY <1>3 DEF Entry
<1>5. shownPanel' = [shownPanel EXCEPT ![p] = s] BY <1>1 DEF SettingsInv
<1>6. \A k : [shownPanel[p] EXCEPT !.gain = k].id = shownPanel[p].id BY <1>3 DEF Entry
<1>7. \A k : shownPanel[p] = [k EXCEPT !.gain = shownPanel[p].gain] => s = [k EXCEPT !.gain = g]
  OBVIOUS
<1> HIDE DEF s
<1>8. /\ shownPanel' \in [Sets!Panels -> Entry] /\ shownPanel'[p] = s
      /\ \A q \in Sets!Panels : shownPanel'[q].id = shownPanel[q].id
      /\ \A q \in Sets!Panels \ {p} : shownPanel'[q] = shownPanel[q]
  BY <1>4, <1>5 DEF SettingsInv
<1>9. SettingsInv' BY <1>2, <1>8, BothPanels DEF SettingsInv
<1>10. ASSUME SettingsKept PROVE SettingsKept'
  <2>1. /\ open => \A q \in Sets!Panels :
             \/ shownPanel[q] = Sets!Known(q)
             \/ q \in refused /\ shownPanel[q] = [Sets!Known(q) EXCEPT !.gain = shownPanel[q].gain]
        /\ file.align = written
        /\ open /\ shownPanel["main"].id = shownPanel["guide"].id => shownPanel["main"].id = "demo"
    BY <1>10 DEF SettingsKept, Sets!Remembered, Sets!Demo
  <2>2. \A q \in Sets!Panels : Sets!Known(q)' = Sets!Known(q) BY <1>2 DEF Sets!Known
  <2>3. ASSUME open, NEW q \in Sets!Panels
        PROVE  \/ shownPanel'[q] = Sets!Known(q)
               \/ q \in refused' /\ shownPanel'[q] = [Sets!Known(q) EXCEPT !.gain = shownPanel'[q].gain]
    <3>1. CASE q # p BY <1>2, <1>8, <2>1, <2>3, <3>1
    <3>2. CASE q = p
      <4>1. s = [Sets!Known(p) EXCEPT !.gain = g] BY <1>7, <2>1, <2>3, <3>2 DEF s
      <4> QED BY <1>2, <1>4, <1>8, <3>2, <4>1
    <3> QED BY <3>1, <3>2
  <2> QED BY <1>2, <1>8, <2>1, <2>2, <2>3, BothPanels DEF SettingsKept, Sets!Remembered, Sets!Demo
<1> QED BY <1>9, <1>10

\* The settings keep their types.
LEMMA SettingsStep ==
  ASSUME SettingsInv, [Sets!SettingsNext]_settingsVars
  PROVE  /\ SettingsInv'
         /\ SettingsKept /\ ~TornWrites => SettingsKept'
<1>1. CASE UNCHANGED settingsVars
  BY <1>1 DEF settingsVars, SettingsInv, SettingsKept, Sets!Remembered, Sets!Known
<1>2. CASE Sets!OpenWindow BY <1>2, WindowOpened
<1>3. CASE Sets!SessionEnds
  <2>1. /\ UNCHANGED <<file, written>> /\ open' = FALSE
        /\ Sets!NoSession(shownPanel', found', refused', align')
    BY <1>3 DEF Sets!SessionEnds
  <2>2. Sets!Connected("demo") \in Entry
    <3>1. DefaultGain \in Gains BY ComponentsAssumption
    <3> QED BY <3>1 DEF Sets!Connected, Entry
  <2> QED BY <2>1, <2>2 DEF Sets!NoSession, Sets!Demo, SettingsInv, SettingsKept, Sets!Remembered
<1>4. CASE Sets!Edit
  <2>1. PICK a \in {"custom", "malformed", "missing", "broken"} :
          file' = [file EXCEPT !.align = a] /\ written' = a
    BY <1>4 DEF Sets!Edit
  <2>2. UNCHANGED <<shownPanel, found, refused, align, sessions, open>> BY <1>4 DEF Sets!Edit
  <2>3. file' \in Files /\ file'.cams = file.cams /\ file'.align = a
    BY <2>1 DEF SettingsInv, Files
  <2>4. SettingsInv' BY <2>2, <2>3 DEF SettingsInv
  <2>5. SettingsKept => SettingsKept'
    BY <2>1, <2>2, <2>3 DEF SettingsKept, Sets!Remembered, Sets!Known
  <2> QED BY <2>4, <2>5
<1>5. ASSUME NEW p \in Sets!Panels, Sets!ExposureRefused(p)
      PROVE  SettingsInv' /\ (SettingsKept => SettingsKept')
  BY <1>5, StillShown
<1>6. ASSUME NEW p \in Sets!Panels, Sets!ConnectCamera(p) \/ Sets!SetGain(p) \/ Sets!ToggleAuto(p)
      PROVE  /\ SettingsInv'
             /\ SettingsKept /\ ~TornWrites => SettingsKept'
  BY <1>6, PanelChanged, SettingsChanged
<1> QED BY <1>1, <1>2, <1>3, <1>4, <1>5, <1>6 DEF Sets!SettingsNext

-------------------------------------------------------------------------------
(* The collimation session and its assistant. *)

\* The workflow's stages, in their order.
LEMMA StagesInOrder ==
  /\ \A i \in 1 .. 11 : Asst!Workflow[i] \in Stages \ {"failed"}
  /\ Len(Asst!Workflow) = 11 /\ DOMAIN Asst!Workflow = 1 .. 11
  /\ \A a \in Stages \ {"failed"} : \E i \in 1 .. 11 : Asst!Workflow[i] = a
<1> DEFINE W == Asst!Workflow
<1>1. /\ W[1] = "idle" /\ W[2] = "precheck" /\ W[3] = "acquire_star" /\ W[4] = "center_star"
      /\ W[5] = "auto_exposure" /\ W[6] = "rough_defocus" /\ W[7] = "map_screws_by_obstruction"
      /\ W[8] = "measure_donut" /\ W[9] = "guide_rough_collimation" /\ W[10] = "focus"
      /\ W[11] = "complete"
  BY DEF Asst!Workflow
<1>2. Len(W) = 11 /\ DOMAIN W = 1 .. 11 BY DEF Asst!Workflow
<1> HIDE DEF W
<1>3. ASSUME NEW i \in 1 .. 11 PROVE W[i] \in Stages \ {"failed"}
  <2>1. i = 1 \/ i = 2 \/ i = 3 \/ i = 4 \/ i = 5 \/ i = 6 \/ i = 7 \/ i = 8 \/ i = 9 \/ i = 10 \/ i = 11
    OBVIOUS
  <2> QED BY <1>1, <2>1 DEF Stages
<1>4. ASSUME NEW a \in Stages \ {"failed"} PROVE \E i \in 1 .. 11 : W[i] = a
  BY <1>1 DEF Stages
<1> QED BY <1>2, <1>3, <1>4 DEF W

\* A transition leads from a stage of the workflow to one of its stages or to its failure.
LEMMA TransitionTyped ==
  ASSUME NEW t \in Asst!ValidTransitions
  PROVE  t[1] \in Stages \ {"failed"} /\ t[2] \in Stages
<1>1. CASE \E i \in 1 .. 10 : t = <<Asst!Workflow[i], Asst!Workflow[i + 1]>>
  <2>1. PICK i \in 1 .. 10 : t = <<Asst!Workflow[i], Asst!Workflow[i + 1]>> BY <1>1
  <2>2. i \in 1 .. 11 /\ i + 1 \in 1 .. 11 OBVIOUS
  <2> QED BY <2>1, <2>2, StagesInOrder
<1>2. CASE \E i \in 2 .. 10 : t = <<Asst!Workflow[i], "failed">>
  <2>1. PICK i \in 2 .. 10 : t = <<Asst!Workflow[i], "failed">> BY <1>2
  <2>2. i \in 1 .. 11 /\ "failed" \in Stages BY DEF Stages
  <2> QED BY <2>1, <2>2, StagesInOrder
<1>3. CASE t = <<"guide_rough_collimation", "measure_donut">> BY <1>3 DEF Stages
<1> QED BY <1>1, <1>2, <1>3, StagesInOrder DEF Asst!ValidTransitions

\* No session is begun, nothing is learned or shown.
LEMMA CollimationStarts == Asst!CollimationInit => SessionInv /\ AssistantInv
<1> SUFFICES ASSUME Asst!CollimationInit PROVE SessionInv /\ AssistantInv OBVIOUS
<1> USE DEF Asst!CollimationInit
<1>1. SessionInv BY DEF SessionInv, Stages, Asst!PausedKnowsWhere
<1>2. truth \in Truths /\ error \in Vector /\ truth \in [Screws -> Vector] /\ MaxTurns \in Nat
      /\ MaxFrames \in Nat
  BY ComponentsAssumption DEF Vector
<1>3. learned \in [Screws -> [sum : Vector, n : Nat]]
      /\ \A s \in Screws : learned[s].n = 0 /\ learned[s].sum = <<0, 0>>
  BY DEF Vector
<1>4. Asst!None.seq = 0 BY DEF Asst!None
<1>5. AssistantTyped
  <2>1. turns \in 0 .. MaxTurns /\ frame \in 0 .. MaxFrames
    <3>1. turns = 0 /\ frame = 0 OBVIOUS
    <3> QED BY ONLY <1>2, <3>1
  <2>2. \A r \in {analysis, analysed, advice} : r.seq <= frame BY <1>4
  <2>3. \A s \in Screws : learned[s].n <= turns BY <1>3
  <2>4. analysis = Asst!None /\ analysed = Asst!None /\ advice = Asst!None /\ streaming \in BOOLEAN
    OBVIOUS
  <2> QED BY <1>2, <1>3, <2>1, <2>2, <2>3, <2>4 DEF AssistantTyped
<1>6. LearnedTrue
  <2> SUFFICES ASSUME NEW s \in Screws PROVE learned[s].sum = Asst!Times(learned[s].n, truth[s])
    BY DEF LearnedTrue
  <2>1. truth[s][1] \in Int /\ truth[s][2] \in Int BY <1>2 DEF Vector
  <2> QED BY <1>3, <2>1 DEF Asst!Times
<1>7. Asst!AdviceReduces /\ Asst!AnalysedInOrder BY DEF Asst!AdviceReduces, Asst!AnalysedInOrder
<1> QED BY <1>1, <1>5, <1>6, <1>7 DEF AssistantInv

\* The session and the assistant keep their types and the session knows where to go on.
LEMMA CollimationFacts == SessionInv /\ AssistantInv => Asst!CollimationTypeOK
<1> SUFFICES ASSUME SessionInv, AssistantInv PROVE Asst!CollimationTypeOK OBVIOUS
<1>1. session.prePause \in {"none", "failed"} \cup {Asst!Workflow[i] : i \in DOMAIN Asst!Workflow}
  <2>1. session.prePause \in Stages \cup {"none"} BY DEF SessionInv
  <2>2. session.prePause \in Stages \ {"failed"}
          => session.prePause \in {Asst!Workflow[i] : i \in DOMAIN Asst!Workflow}
    BY StagesInOrder
  <2> QED BY <2>1, <2>2
<1>2. ASSUME NEW r \in {analysis, analysed, advice} PROVE r.seq \in 0 .. frame
  <2>1. r.seq \in Nat BY <1>2 DEF AssistantInv, AssistantTyped, Asst!None, Shown
  <2>2. r.seq <= frame /\ frame \in Nat BY <1>2 DEF AssistantInv, AssistantTyped
  <2> QED BY <2>1, <2>2
<1>3. ASSUME NEW s \in Screws PROVE learned[s].n \in 0 .. MaxTurns
  <2>1. learned[s].n \in Nat /\ learned[s].n <= turns /\ turns \in 0 .. MaxTurns
    BY DEF AssistantInv, AssistantTyped
  <2>2. MaxTurns \in Nat BY ComponentsAssumption
  <2> QED BY <2>1, <2>2
<1> QED BY <1>1, <1>2, <1>3 DEF Asst!CollimationTypeOK, AssistantInv, AssistantTyped

\* The session moves along its workflow.
LEMMA SessionStep ==
  ASSUME SessionInv, AssistantInv, [Asst!SessionNext]_collimationVars
  PROVE  SessionInv' /\ AssistantInv'
<1>1. UNCHANGED <<truth, error, learned, frame, analysis, analysed, advice, streaming, turns>>
  BY DEF Asst!SessionNext, collimationVars
<1>2. AssistantInv'
  BY <1>1 DEF AssistantInv, AssistantTyped, LearnedTrue, Asst!AdviceReduces, Asst!AnalysedInOrder
<1>3. session.at \in Stages \cup {"paused"} /\ session.prePause \in Stages \cup {"none"}
      /\ (session.at = "paused" <=> session.prePause # "none")
      /\ "paused" \notin Stages /\ "none" \notin Stages /\ "idle" \in Stages
  BY DEF SessionInv, Asst!PausedKnowsWhere, Stages
<1>4. ASSUME NEW a \in Stages \cup {"paused"}, NEW b \in Stages \cup {"none"}, Asst!Session(a, b),
             a = "paused" <=> b # "none"
      PROVE  SessionInv'
  BY <1>4 DEF Asst!Session, SessionInv, Asst!PausedKnowsWhere
<1>5. CASE session' = session BY <1>2, <1>5 DEF SessionInv, Asst!PausedKnowsWhere
<1>6. CASE Asst!Transition
  <2>1. PICK t \in Asst!ValidTransitions : t[1] = session.at /\ Asst!Session(t[2], session.prePause)
    BY <1>6 DEF Asst!Transition
  <2> DEFINE a == t[2]
             b == session.prePause
  <2>2. a \in Stages /\ b = "none" /\ Asst!Session(a, b) BY <1>3, <2>1, TransitionTyped
  <2> HIDE DEF a, b
  <2> QED BY <1>2, <1>3, <1>4, <2>2
<1>7. CASE Asst!Pause
  <2> DEFINE a == session.at
  <2>1. a \in Stages /\ Asst!Session("paused", a) BY <1>3, <1>7 DEF Asst!Pause
  <2> HIDE DEF a
  <2> QED BY <1>2, <1>3, <1>4, <2>1
<1>8. CASE Asst!Resume
  <2> DEFINE a == session.prePause
  <2>1. a \in Stages /\ Asst!Session(a, "none") BY <1>3, <1>8 DEF Asst!Resume
  <2> HIDE DEF a
  <2> QED BY <1>2, <1>3, <1>4, <2>1
<1>9. CASE Asst!Reset BY <1>2, <1>3, <1>4, <1>9 DEF Asst!Reset
<1>10. SessionInv'
  BY <1>5, <1>6, <1>7, <1>8, <1>9 DEF Asst!SessionNext, collimationVars
<1> QED BY <1>2, <1>10

\* A vector's arithmetic, in its coordinates.
LEMMA VectorMade ==
  ASSUME NEW u \in Vector, NEW v \in Vector, NEW k \in Int
  PROVE  /\ Asst!Plus(u, v) \in Vector /\ Asst!Times(k, v) \in Vector /\ Asst!Dot(u, v) \in Int
         /\ u[1] \in Int /\ u[2] \in Int
<1>1. u[1] \in Int /\ u[2] \in Int /\ v[1] \in Int /\ v[2] \in Int BY DEF Vector
<1> QED BY <1>1 DEF Asst!Plus, Asst!Times, Asst!Dot, Vector

\* A turn is what the screw does, one way or the other.
LEMMA TurnTyped ==
  ASSUME AssistantInv, NEW s \in Screws, NEW cw \in BOOLEAN
  PROVE  /\ Asst!Turned(s, cw) \in Vector /\ truth[s] \in Vector /\ error \in Vector
         /\ Asst!Turned(s, cw)
              = <<error[1] + (IF cw THEN 1 ELSE -1) * truth[s][1],
                  error[2] + (IF cw THEN 1 ELSE -1) * truth[s][2]>>
<1>1. truth[s] \in Vector /\ error \in Vector
  <2>1. truth \in Truths /\ error \in Vector BY DEF AssistantInv, AssistantTyped
  <2>2. truth \in [Screws -> Vector] BY <2>1, ComponentsAssumption DEF Vector
  <2> QED BY <2>1, <2>2
<1> DEFINE k == IF cw THEN 1 ELSE -1
<1>2. k \in Int OBVIOUS
<1> HIDE DEF k
<1>3. Asst!Times(k, truth[s]) = <<k * truth[s][1], k * truth[s][2]>> BY DEF Asst!Times
<1>4. Asst!Turned(s, cw) = Asst!Plus(error, Asst!Times(k, truth[s])) BY DEF Asst!Turned, k
<1>5. Asst!Turned(s, cw) \in Vector BY <1>1, <1>2, <1>4, VectorMade
<1>6. Asst!Turned(s, cw) = <<error[1] + k * truth[s][1], error[2] + k * truth[s][2]>>
  BY <1>3, <1>4 DEF Asst!Plus
<1> QED BY <1>1, <1>5, <1>6 DEF k

\* One observation more of the same.
LEMMA OnceMore ==
  ASSUME NEW n \in Nat, NEW x \in Int
  PROVE  n * x \in Int /\ n * x + x = (n + 1) * x
OBVIOUS

\* A turn observed either way adds what the screw does clockwise.
LEMMA Observed ==
  ASSUME AssistantInv, NEW s \in Screws, NEW cw \in BOOLEAN
  PROVE  LET l == Asst!Observe(s, error, Asst!Turned(s, cw), cw)
         IN  /\ l \in [Screws -> [sum : Vector, n : Nat]]
             /\ \A o \in Screws \ {s} : l[o] = learned[o]
             /\ l[s].n = learned[s].n + 1
             /\ l[s].sum = Asst!Times(learned[s].n + 1, truth[s])
<1> DEFINE e == Asst!Turned(s, cw)
           x == truth[s][1]
           y == truth[s][2]
           n == learned[s].n
           shift == Asst!Plus(e, Asst!Times(-1, error))
           seen_ == IF cw THEN shift ELSE Asst!Times(-1, shift)
           new == [sum |-> Asst!Plus(learned[s].sum, seen_), n |-> n + 1]
<1>1. /\ e = <<error[1] + (IF cw THEN 1 ELSE -1) * x, error[2] + (IF cw THEN 1 ELSE -1) * y>>
      /\ x \in Int /\ y \in Int /\ error[1] \in Int /\ error[2] \in Int
  <2>1. truth[s] \in Vector /\ error \in Vector BY TurnTyped
  <2>2. x \in Int /\ y \in Int /\ error[1] \in Int /\ error[2] \in Int BY <2>1 DEF Vector
  <2> QED BY <2>2, TurnTyped
<1>2. /\ learned \in [Screws -> [sum : Vector, n : Nat]] /\ n \in Nat
      /\ learned[s].sum = <<n * x, n * y>>
  BY DEF AssistantInv, AssistantTyped, LearnedTrue, Asst!Times
<1> HIDE DEF e, x, y, n
<1>3. seen_ = <<x, y>>
  <2>1. shift = <<e[1] + (-1) * error[1], e[2] + (-1) * error[2]>> BY DEF Asst!Plus, Asst!Times
  <2>2. CASE cw
    <3>1. e = <<error[1] + x, error[2] + y>> BY <1>1, <2>2
    <3>2. shift = <<x, y>> BY <1>1, <2>1, <3>1
    <3> QED BY <2>2, <3>2
  <2>3. CASE ~cw
    <3>1. e = <<error[1] - x, error[2] - y>> BY <1>1, <2>3
    <3>2. shift = <<-x, -y>> BY <1>1, <2>1, <3>1
    <3>3. Asst!Times(-1, <<-x, -y>>) = <<x, y>> BY <1>1 DEF Asst!Times
    <3> QED BY <2>3, <3>2, <3>3
  <2> QED BY <2>2, <2>3
<1>4. Asst!Observe(s, error, e, cw) = [learned EXCEPT ![s] = new]
  BY <1>2 DEF Asst!Observe, n
<1> HIDE DEF shift, seen_
<1>5. new.sum = <<(n + 1) * x, (n + 1) * y>> /\ new.n = n + 1 /\ new \in [sum : Vector, n : Nat]
  <2>1. Asst!Plus(learned[s].sum, seen_) = <<n * x + x, n * y + y>>
    BY <1>2, <1>3 DEF Asst!Plus
  <2>2. /\ n * x \in Int /\ n * y \in Int /\ n * x + x = (n + 1) * x /\ n * y + y = (n + 1) * y
    BY <1>1, <1>2, OnceMore
  <2> DEFINE p == (n + 1) * x
             q == (n + 1) * y
             m == n + 1
  <2>3. Asst!Plus(learned[s].sum, seen_) = <<p, q>> /\ p \in Int /\ q \in Int /\ m \in Nat
    BY <1>1, <1>2, <2>1, <2>2
  <2>4. new = [sum |-> <<p, q>>, n |-> m] BY <2>3
  <2> HIDE DEF p, q, m, new
  <2>5. new.sum = <<p, q>> /\ new.n = m /\ new \in [sum : Vector, n : Nat]
    BY <2>3, <2>4 DEF Vector
  <2> QED BY <2>5 DEF p, q, m
<1> HIDE DEF new
<1>6. Asst!Times(n + 1, truth[s]) = <<(n + 1) * x, (n + 1) * y>> BY DEF Asst!Times, x, y
<1> QED BY <1>2, <1>4, <1>5, <1>6 DEF e, n

\* Dividing undoes multiplying.
LEMMA DividedBack ==
  ASSUME NEW n \in Nat \ {0}, NEW x \in Int
  PROVE  (n * x) \div n = x
<1> DEFINE p == n * x
           q == p \div n
<1>1. p \in Int OBVIOUS
<1> HIDE DEF p
<1>2. q \in Int /\ n * q <= p /\ p < n * q + n BY <1>1
<1> HIDE DEF q
<1>3. n * q <= n * x /\ n * x < n * q + n /\ n * (q + 1) = n * q + n BY <1>2 DEF p
<1>4. q <= x BY <1>2, <1>3, Unscaled
<1>5. x <= q
  <2> SUFFICES ASSUME q + 1 <= x PROVE FALSE BY <1>2
  <2>1. n * (x - (q + 1)) >= 0 BY <1>2
  <2>2. n * (x - (q + 1)) = n * x - n * (q + 1) BY <1>2
  <2>3. n * (q + 1) \in Int /\ n * x \in Int /\ n * q \in Int BY <1>2
  <2> QED BY <1>3, <2>1, <2>2, <2>3
<1>6. q = x BY <1>2, <1>4, <1>5
<1> QED BY <1>6 DEF q, p

\* The response of a screw that was observed is what it does.
LEMMA ResponseTrue ==
  ASSUME AssistantInv, NEW s \in Screws, learned[s].n > 0
  PROVE  Asst!Response(s) = truth[s] /\ truth[s] \in Vector
<1>1. truth[s] \in Vector BY TurnTyped
<1> DEFINE x == truth[s][1]
           y == truth[s][2]
           n == learned[s].n
<1>2. n \in Nat \ {0} /\ learned[s].sum = <<n * x, n * y>>
  BY DEF AssistantInv, AssistantTyped, LearnedTrue, Asst!Times
<1>3. x \in Int /\ y \in Int /\ truth[s] = <<x, y>> BY <1>1 DEF Vector
<1>4. Asst!Response(s) = <<(n * x) \div n, (n * y) \div n>>
  <2> DEFINE a == n * x
             b == n * y
  <2>1. learned[s].sum = <<a, b>> BY <1>2
  <2> HIDE DEF a, b
  <2>2. Asst!Response(s) = <<a \div n, b \div n>> BY <2>1 DEF Asst!Response
  <2> QED BY <2>2 DEF a, b
<1> HIDE DEF n, x, y
<1> QED BY <1>1, <1>2, <1>3, <1>4, DividedBack

\* The product of a vector turned round.
LEMMA TurnedRound ==
  ASSUME NEW u \in Vector, NEW v \in Vector
  PROVE  /\ Asst!Dot(Asst!Times(-1, u), v) = -Asst!Dot(u, v)
         /\ Asst!Dot(u, Asst!Times(-1, v)) = -Asst!Dot(u, v)
         /\ Asst!Dot(u, Asst!Times(1, v)) = Asst!Dot(u, v)
<1>1. u[1] \in Int /\ u[2] \in Int /\ v[1] \in Int /\ v[2] \in Int BY DEF Vector
<1>2. ASSUME NEW a \in Int, NEW b \in Int
      PROVE  (-1 * a) * b = -(a * b) /\ a * (-1 * b) = -(a * b) /\ a * (1 * b) = a * b /\ a * b \in Int
  OBVIOUS
<1> QED BY <1>1, <1>2 DEF Asst!Dot, Asst!Times

\* No command goes out for a screw across the correction.
LEMMA CommandedAlong ==
  ASSUME AssistantInv, NEW s \in Screws, NEW e \in Vector, learned[s].n > 0,
         Asst!Size(e) >= Collimated, Asst!Size(truth[s]) >= Faint, Asst!Actionable(s, e)
  PROVE  Asst!Dot(e, truth[s]) # 0
<1> SUFFICES ASSUME Asst!Dot(e, truth[s]) = 0 PROVE FALSE OBVIOUS
<1> DEFINE n == IF learned[s].n > Saturation THEN Saturation ELSE learned[s].n
           k == IF 10 * n < 3 * Saturation THEN 1 ELSE 2
           p == Asst!Size(e)
           q == Asst!Size(truth[s])
<1>1. Asst!Response(s) = truth[s] /\ truth[s] \in Vector BY ResponseTrue
<1>2. /\ Saturation \in Nat \ {0} /\ Collimated \in Nat \ {0} /\ Faint \in Nat \ {0}
  BY ComponentsAssumption
<1>3. p \in Nat \ {0} /\ q \in Nat \ {0}
  <2>1. p \in Int /\ q \in Int BY <1>1, VectorMade DEF Asst!Size
  <2> QED BY <1>2, <2>1
<1>4. n \in Int
  <2>1. learned[s].n \in Nat BY DEF AssistantInv, AssistantTyped
  <2> QED BY <1>2, <2>1
<1>5. (k * n * 0) * (k * n * 0) >= Saturation * Saturation * p * q
  BY <1>1 DEF Asst!Actionable
<1> HIDE DEF n, p, q
<1>6. k \in Int OBVIOUS
<1> HIDE DEF k
<1>7. (k * n * 0) * (k * n * 0) = 0
  <2>1. k * n \in Int BY <1>4, <1>6
  <2> QED BY <2>1
<1>8. Saturation * Saturation * p * q \in Nat \ {0}
  <2>1. Saturation * Saturation \in Nat \ {0} BY <1>2, Grown
  <2>2. (Saturation * Saturation) * p \in Nat \ {0} BY <1>3, <2>1, Grown
  <2> QED BY <1>3, <2>2, Grown
<1> QED BY <1>5, <1>7, <1>8

\* What is recommended for an error shrinks it.
LEMMA RecommendedReduces ==
  ASSUME AssistantInv, NEW seq \in Nat \ {0}, NEW e \in Vector, NEW r \in Asst!Recommend(e)
  PROVE  r \in AdviceSet /\ Reduces(Asst!Advice(seq, e, r))
<1>1. CASE r = [screw |-> "none"]
  BY <1>1 DEF AdviceSet, Reduces, Asst!Advice
<1>2. CASE /\ ~(Asst!Size(e) < Collimated)
           /\ \E s \in Asst!Calibrated :
                r = [screw |-> s, cw |-> Asst!Dot(Asst!Times(-1, e), Asst!Response(s)) > 0,
                     command |-> Asst!Actionable(s, e)]
  <2>1. PICK s \in Asst!Calibrated :
               r = [screw |-> s, cw |-> Asst!Dot(Asst!Times(-1, e), Asst!Response(s)) > 0,
                    command |-> Asst!Actionable(s, e)]
    BY <1>2
  <2>2. s \in Screws /\ learned[s].n > 0 /\ Asst!Size(Asst!Response(s)) >= Faint
    BY DEF Asst!Calibrated
  <2>3. Asst!Response(s) = truth[s] /\ truth[s] \in Vector BY <2>2, ResponseTrue
  <2> DEFINE cw == Asst!Dot(Asst!Times(-1, e), truth[s]) > 0
             command == Asst!Actionable(s, e)
             d == Asst!Dot(e, truth[s])
  <2>4. r = [screw |-> s, cw |-> cw, command |-> command] /\ cw \in BOOLEAN /\ command \in BOOLEAN
    BY <2>1, <2>3 DEF Asst!Actionable
  <2>5. d \in Int /\ (cw <=> -d > 0)
    <3>1. d \in Int BY <2>3, VectorMade
    <3>2. Asst!Dot(Asst!Times(-1, e), truth[s]) = -d BY <2>3, TurnedRound
    <3> QED BY <3>1, <3>2
  <2>6. command => d # 0
    <3>1. Asst!Size(e) \in Int /\ Collimated \in Nat
      BY VectorMade, ComponentsAssumption DEF Asst!Size
    <3>2. Asst!Size(e) >= Collimated BY <1>2, <3>1
    <3> QED BY <2>2, <2>3, <3>2, CommandedAlong
  <2>7. Asst!Dot(e, Asst!Times(IF cw THEN 1 ELSE -1, truth[s])) = IF cw THEN d ELSE -d
    BY <2>3, TurnedRound
  <2> HIDE DEF cw, command, d
  <2>8. r \in AdviceSet BY <2>2, <2>4 DEF AdviceSet
  <2>9. r.screw = s /\ r.cw = cw /\ r.command = command BY <2>4
  <2>10. command => Asst!Dot(e, Asst!Times(IF cw THEN 1 ELSE -1, truth[s])) < 0
    BY <2>4, <2>5, <2>6, <2>7
  <2> DEFINE a == Asst!Advice(seq, e, r)
  <2>11. a.on = e /\ a.advice = r BY DEF Asst!Advice
  <2> HIDE DEF a
  <2>12. Reduces(a) BY <2>9, <2>10, <2>11 DEF Reduces
  <2> QED BY <2>8, <2>12 DEF a
<1> QED BY <1>1, <1>2 DEF Asst!Recommend

\* What is advised reduces exactly when each part of it does.
LEMMA ReducesEach == Asst!AdviceReduces <=> Reduces(analysed) /\ Reduces(advice)
BY DEF Asst!AdviceReduces, Reduces

\* What is no result is of no frame, and of none that was polled.
LEMMA NoneFirst ==
  Asst!None.seq = 0 /\ (\A r \in Shown : r # Asst!None)
  /\ \A r \in [seq : Nat \ {0}, on : Vector] : r # Asst!None
<1>1. Asst!None.seq = 0 BY DEF Asst!None
<1>2. \A r \in Shown : r.seq # 0 BY DEF Shown
<1>3. \A r \in [seq : Nat \ {0}, on : Vector] : r.seq # 0 OBVIOUS
<1> QED BY <1>1, <1>2, <1>3

\* A frame is polled: it is analysed when none is, and the latest outcome is shown.
LEMMA PollKeeps == ASSUME AssistantInv, Asst!PollFrame PROVE AssistantInv'
<1>1. /\ frame \in Nat /\ frame < MaxFrames /\ MaxFrames \in Nat /\ error \in Vector
      /\ UNCHANGED <<session, truth, error, learned, streaming, turns>>
      /\ analysed' = Asst!None /\ advice' = IF analysed # Asst!None THEN analysed ELSE advice
  BY ComponentsAssumption DEF Asst!PollFrame, AssistantInv, AssistantTyped
<1>2. PICK new \in BOOLEAN :
        /\ frame' = IF new THEN frame + 1 ELSE frame
        /\ analysis' = IF new /\ analysis = Asst!None THEN [seq |-> frame + 1, on |-> error] ELSE analysis
  BY DEF Asst!PollFrame
<1> DEFINE taken == [seq |-> frame + 1, on |-> error]
<1>3. taken \in [seq : Nat \ {0}, on : Vector] /\ taken.seq = frame + 1
  <2> DEFINE n == frame + 1
  <2>1. n \in Nat \ {0} BY <1>1
  <2> HIDE DEF n
  <2> QED BY <1>1, <2>1
<1> HIDE DEF taken
<1>4. frame' \in 0 .. MaxFrames /\ frame <= frame' /\ frame' \in Nat /\ (new => frame' = frame + 1)
  BY <1>1, <1>2
<1>5. /\ analysis.seq <= frame /\ analysed.seq <= frame /\ advice.seq <= frame
      /\ analysis.seq \in Nat /\ analysed.seq \in Nat /\ advice.seq \in Nat
      /\ analysis = Asst!None \/ analysis \in [seq : Nat \ {0}, on : Vector]
      /\ analysed = Asst!None \/ analysed \in Shown
      /\ advice = Asst!None \/ advice \in Shown
      /\ analysed # Asst!None => analysed.seq > advice.seq
      /\ analysis # Asst!None => analysis.seq > analysed.seq /\ analysis.seq > advice.seq
  <2>1. /\ analysis.seq <= frame /\ analysed.seq <= frame /\ advice.seq <= frame
        /\ analysis = Asst!None \/ analysis \in [seq : Nat \ {0}, on : Vector]
        /\ analysed = Asst!None \/ analysed \in Shown
        /\ advice = Asst!None \/ advice \in Shown
        /\ analysed # Asst!None => analysed.seq > advice.seq
        /\ analysis # Asst!None => analysis.seq > analysed.seq /\ analysis.seq > advice.seq
    BY DEF AssistantInv, AssistantTyped, Asst!AnalysedInOrder
  <2>2. analysis.seq \in Nat /\ analysed.seq \in Nat /\ advice.seq \in Nat
    BY <2>1, NoneFirst DEF Shown
  <2> QED BY <2>1, <2>2
<1>6. (analysis' = taken /\ new /\ analysis = Asst!None) \/ analysis' = analysis
  BY <1>2 DEF taken
<1>7. /\ analysis' = Asst!None \/ analysis' \in [seq : Nat \ {0}, on : Vector]
      /\ analysed' = Asst!None /\ (advice' = Asst!None \/ advice' \in Shown)
      /\ \A r \in {analysis', analysed', advice'} : r.seq <= frame'
  BY <1>1, <1>3, <1>4, <1>5, <1>6, NoneFirst
<1>8. AssistantTyped' BY <1>1, <1>4, <1>7 DEF AssistantInv, AssistantTyped
<1>9. Asst!AnalysedInOrder'
  <2>1. analysis' # Asst!None => analysis'.seq > analysed'.seq /\ analysis'.seq > advice'.seq
    BY <1>1, <1>3, <1>5, <1>6, NoneFirst
  <2> QED BY <1>1, <2>1 DEF Asst!AnalysedInOrder
<1>10. Asst!AdviceReduces'
  BY <1>1 DEF AssistantInv, Asst!AdviceReduces
<1>11. LearnedTrue' BY <1>1 DEF AssistantInv, LearnedTrue
<1> QED BY <1>8, <1>9, <1>10, <1>11 DEF AssistantInv

\* A frame has been analysed, with a recommendation, without one, or in vain.
LEMMA AnalyseKeeps == ASSUME AssistantInv, Asst!Analyse PROVE AssistantInv'
<1>1. /\ analysis # Asst!None /\ analysis' = Asst!None
      /\ UNCHANGED <<session, truth, error, learned, frame, advice, streaming, turns>>
  BY DEF Asst!Analyse
<1>2. /\ analysis \in [seq : Nat \ {0}, on : Vector] /\ analysis.seq <= frame /\ frame \in Nat
      /\ analysis.seq > advice.seq /\ analysed.seq <= frame /\ advice.seq <= frame
      /\ Reduces(analysed) /\ Reduces(advice)
  BY <1>1, ReducesEach DEF AssistantInv, AssistantTyped, Asst!AnalysedInOrder
<1>3. ASSUME analysed' = analysed \/
             \E r \in AdviceSet : /\ analysed' = Asst!Advice(analysis.seq, analysis.on, r)
                                  /\ Reduces(Asst!Advice(analysis.seq, analysis.on, r))
      PROVE  AssistantInv'
  <2>1. CASE analysed' = analysed
    <3>1. AssistantTyped' BY <1>1, <1>2, <2>1, NoneFirst DEF AssistantInv, AssistantTyped
    <3>2. Asst!AnalysedInOrder' /\ Asst!AdviceReduces' /\ LearnedTrue'
      BY <1>1, <2>1 DEF AssistantInv, Asst!AnalysedInOrder, Asst!AdviceReduces, LearnedTrue
    <3> QED BY <3>1, <3>2 DEF AssistantInv
  <2>2. CASE \E r \in AdviceSet : /\ analysed' = Asst!Advice(analysis.seq, analysis.on, r)
                                  /\ Reduces(Asst!Advice(analysis.seq, analysis.on, r))
    <3>1. PICK r \in AdviceSet : /\ analysed' = Asst!Advice(analysis.seq, analysis.on, r)
                                 /\ Reduces(Asst!Advice(analysis.seq, analysis.on, r))
      BY <2>2
    <3> DEFINE a == Asst!Advice(analysis.seq, analysis.on, r)
    <3>2. a \in Shown /\ a.seq = analysis.seq BY <1>2 DEF Asst!Advice, Shown
    <3> HIDE DEF a
    <3>3. analysed' = a /\ Reduces(a) BY <3>1 DEF a
    <3>4. AssistantTyped' BY <1>1, <1>2, <3>2, <3>3, NoneFirst DEF AssistantInv, AssistantTyped
    <3>5. Asst!AnalysedInOrder' BY <1>1, <1>2, <3>2, <3>3 DEF Asst!AnalysedInOrder
    <3>6. Asst!AdviceReduces'
      BY <1>1, <1>2, <3>3 DEF Asst!AdviceReduces, Reduces
    <3>7. LearnedTrue' BY <1>1 DEF AssistantInv, LearnedTrue
    <3> QED BY <3>4, <3>5, <3>6, <3>7 DEF AssistantInv
  <2> QED BY <1>3, <2>1, <2>2
<1>4. analysis.seq \in Nat \ {0} /\ analysis.on \in Vector BY <1>2
<1>5. ASSUME NEW r \in Asst!Recommend(analysis.on)
      PROVE  r \in AdviceSet /\ Reduces(Asst!Advice(analysis.seq, analysis.on, r))
  BY <1>4, RecommendedReduces
<1>6. LET r == [screw |-> "none"]
      IN  r \in AdviceSet /\ Reduces(Asst!Advice(analysis.seq, analysis.on, r))
  BY DEF AdviceSet, Reduces, Asst!Advice
<1> QED BY <1>3, <1>5, <1>6 DEF Asst!Analyse

\* A screw is turned: as advised, or to learn what it does.
LEMMA TurnKeeps ==
  ASSUME AssistantInv, Asst!FollowAdvice \/ Asst!RecordScrewAdjustment
  PROVE  AssistantInv'
<1>1. /\ turns \in Nat /\ MaxTurns \in Nat /\ turns < MaxTurns /\ turns' = turns + 1
      /\ UNCHANGED <<session, truth, frame, analysis, analysed, advice, streaming>>
  BY ComponentsAssumption
  DEF Asst!FollowAdvice, Asst!RecordScrewAdjustment, AssistantInv, AssistantTyped
<1>2. turns' \in 0 .. MaxTurns /\ turns <= turns' BY <1>1
<1>3. ASSUME error' \in Vector, learned' \in [Screws -> [sum : Vector, n : Nat]],
             \A s \in Screws : learned'[s].n <= turns', LearnedTrue'
      PROVE  AssistantInv'
  <2>1. AssistantTyped' BY <1>1, <1>2, <1>3 DEF AssistantInv, AssistantTyped
  <2>2. Asst!AdviceReduces' /\ Asst!AnalysedInOrder'
    BY <1>1 DEF AssistantInv, Asst!AdviceReduces, Asst!AnalysedInOrder
  <2> QED BY <1>3, <2>1, <2>2 DEF AssistantInv
<1>4. /\ learned \in [Screws -> [sum : Vector, n : Nat]] /\ LearnedTrue
      /\ \A s \in Screws : learned[s].n <= turns
  BY DEF AssistantInv, AssistantTyped
<1>5. \A s \in Screws : learned[s].n \in Nat /\ learned[s].n <= turns' /\ learned[s].n + 1 <= turns'
  BY <1>1, <1>4
<1>6. CASE Asst!FollowAdvice
  <2>1. learned' = learned /\ error' = Asst!Turned(advice.advice.screw, advice.advice.cw)
        /\ advice # Asst!None /\ advice.advice.screw # "none"
    BY <1>6 DEF Asst!FollowAdvice
  <2>2. advice \in Shown BY <2>1 DEF AssistantInv, AssistantTyped
  <2>3. advice.advice \in AdviceSet BY <2>2 DEF Shown
  <2>4. advice.advice.screw \in Screws /\ advice.advice.cw \in BOOLEAN BY <2>1, <2>3 DEF AdviceSet
  <2>5. error' \in Vector BY <2>1, <2>4, TurnTyped
  <2>6. LearnedTrue' BY <1>1, <1>4, <2>1 DEF LearnedTrue
  <2> QED BY <1>3, <1>4, <1>5, <2>1, <2>5, <2>6
<1>7. CASE Asst!RecordScrewAdjustment
  <2>1. PICK s \in Screws, cw \in BOOLEAN :
          /\ error' = Asst!Turned(s, cw) /\ learned' = Asst!Observe(s, error, error', cw)
    BY <1>7 DEF Asst!RecordScrewAdjustment
  <2>2. learned' = Asst!Observe(s, error, Asst!Turned(s, cw), cw) BY <2>1
  <2>3. /\ learned' \in [Screws -> [sum : Vector, n : Nat]]
        /\ \A o \in Screws \ {s} : learned'[o] = learned[o]
        /\ learned'[s].n = learned[s].n + 1
        /\ learned'[s].sum = Asst!Times(learned[s].n + 1, truth[s])
    BY <2>2, Observed
  <2>4. error' \in Vector BY <2>1, TurnTyped
  <2>5. ASSUME NEW o \in Screws
        PROVE  learned'[o].n <= turns' /\ learned'[o].sum = Asst!Times(learned'[o].n, truth'[o])
    BY <1>1, <1>4, <1>5, <2>3 DEF LearnedTrue
  <2>6. LearnedTrue' BY <2>5 DEF LearnedTrue
  <2> QED BY <1>3, <2>3, <2>4, <2>5, <2>6
<1> QED BY <1>6, <1>7

\* The assistant's advice shrinks the error it was measured on, frame after frame.
LEMMA AssistantStep ==
  ASSUME SessionInv, AssistantInv, [Asst!AssistantNext]_collimationVars
  PROVE  SessionInv' /\ AssistantInv'
<1>1. UNCHANGED session
  BY DEF Asst!AssistantNext, Asst!StartStream, Asst!PollFrame, Asst!Analyse, Asst!SwitchCamera,
         Asst!FollowAdvice, Asst!RecordScrewAdjustment, collimationVars
<1>2. SessionInv' BY <1>1 DEF SessionInv, Asst!PausedKnowsWhere
<1>3. CASE UNCHANGED collimationVars
  BY <1>2, <1>3 DEF collimationVars, AssistantInv, AssistantTyped, LearnedTrue,
                    Asst!AdviceReduces, Asst!AnalysedInOrder
<1>4. CASE Asst!StartStream
  BY <1>2, <1>4 DEF Asst!StartStream, AssistantInv, AssistantTyped, LearnedTrue,
                    Asst!AdviceReduces, Asst!AnalysedInOrder
<1>5. CASE Asst!SwitchCamera
  <2>1. /\ streaming' = FALSE /\ analysed' = Asst!None /\ advice' = Asst!None /\ error' \in Vector
        /\ UNCHANGED <<session, truth, learned, frame, analysis, turns>>
    BY <1>5, ComponentsAssumption DEF Asst!SwitchCamera, Vector
  <2>2. frame \in Nat /\ (analysis # Asst!None => analysis.seq \in Nat \ {0})
    BY DEF AssistantInv, AssistantTyped
  <2>3. AssistantTyped'
    <3>1. streaming' \in BOOLEAN BY <2>1
    <3>2. /\ analysed' = Asst!None /\ advice' = Asst!None /\ error' \in Vector
          /\ UNCHANGED <<truth, learned, frame, analysis, turns>>
      BY <2>1
    <3>3. \A r \in {analysis', analysed', advice'} : r.seq <= frame'
      BY <2>2, <3>2, NoneFirst DEF AssistantInv, AssistantTyped
    <3> QED BY <3>1, <3>2, <3>3 DEF AssistantInv, AssistantTyped
  <2>4. Asst!AdviceReduces' BY <2>1 DEF Asst!AdviceReduces
  <2>5. Asst!AnalysedInOrder' BY <2>1, <2>2, NoneFirst DEF Asst!AnalysedInOrder
  <2>6. LearnedTrue' BY <2>1 DEF AssistantInv, LearnedTrue
  <2> QED BY <1>2, <2>3, <2>4, <2>5, <2>6 DEF AssistantInv
<1> QED
  BY <1>2, <1>3, <1>4, <1>5, PollKeeps, AnalyseKeeps, TurnKeeps DEF Asst!AssistantNext

-------------------------------------------------------------------------------
(* The components side by side. *)

\* One part acts, and keeps being the one; the others rest.
LEMMA PartActs ==
  ASSUME [Next]_vars
  PROVE  /\ part' = part /\ [EquipmentNext]_equipmentVars
         /\ part = "wheel" => [Whl!WheelNext]_wheelVars
         /\ part = "window" => [Win!WindowNext]_windowVars
         /\ part = "exposure" => [Exp!ExposureNext]_exposureVars
         /\ part = "positioning" => [Pos!PositionNext]_positionVars
         /\ part = "diagnostics" => [Diag!DiagnosticsNext]_diagnosticsVars
         /\ part = "settings" => [Sets!SettingsNext]_settingsVars
         /\ part = "session" => [Asst!SessionNext]_collimationVars
         /\ part = "assistant" => [Asst!AssistantNext]_collimationVars
<1>1. CASE UNCHANGED vars
  BY <1>1 DEF vars, equipmentVars, deviceVars, officeVars
<1>2. CASE EquipmentNext /\ UNCHANGED officeVars
  <2>1. part' = part BY <1>2 DEF EquipmentNext, Only
  <2> QED BY <1>2, <2>1 DEF officeVars
<1>3. ASSUME NEW p, OnlyOffice(p)
      PROVE  /\ part = p /\ part' = part /\ UNCHANGED equipmentVars
             /\ p # "wheel" => UNCHANGED wheelVars
             /\ p # "window" => UNCHANGED windowVars
             /\ p # "exposure" => UNCHANGED exposureVars
             /\ p # "positioning" => UNCHANGED positionVars
             /\ p # "diagnostics" => UNCHANGED diagnosticsVars
             /\ p # "settings" => UNCHANGED settingsVars
             /\ p \notin {"session", "assistant"} => UNCHANGED collimationVars
  BY <1>3 DEF OnlyOffice, Acts, equipmentVars, deviceVars
<1>4. CASE OnlyOffice("wheel") /\ Whl!WheelNext BY <1>3, <1>4
<1>5. CASE OnlyOffice("window") /\ Win!WindowNext BY <1>3, <1>5
<1>6. CASE OnlyOffice("exposure") /\ Exp!ExposureNext BY <1>3, <1>6
<1>7. CASE OnlyOffice("positioning") /\ Pos!PositionNext BY <1>3, <1>7
<1>8. CASE OnlyOffice("diagnostics") /\ Diag!DiagnosticsNext BY <1>3, <1>8
<1>9. CASE OnlyOffice("settings") /\ Sets!SettingsNext BY <1>3, <1>9
<1>10. CASE OnlyOffice("parser") /\ Parse!ParserNext BY <1>3, <1>10
<1>11. CASE OnlyOffice("session") /\ Asst!SessionNext BY <1>3, <1>11
<1>12. CASE OnlyOffice("assistant") /\ Asst!AssistantNext BY <1>3, <1>12
<1> QED
  BY <1>1, <1>2, <1>4, <1>5, <1>6, <1>7, <1>8, <1>9, <1>10, <1>11, <1>12 DEF Next

\* Every component starts in its invariants.
LEMMA ComponentsStart == Init => EquipmentInv /\ AnswerInv /\ OfficeInv /\ KeptInv
<1> SUFFICES ASSUME Init PROVE EquipmentInv /\ AnswerInv /\ OfficeInv /\ KeptInv OBVIOUS
<1>1. /\ EquipmentStart /\ Whl!WheelInit /\ Win!WindowInit /\ Exp!ExposureInit /\ Pos!PositionInit
      /\ Diag!DiagnosticsInit /\ Sets!SettingsInit /\ Asst!CollimationInit
  BY DEF Init
<1>2. "demo" \notin Devices BY EquipmentAssumption
<1>3. EquipmentInv /\ AnswerInv BY <1>1, EquipmentStarts
<1>4. /\ WheelTyped /\ WheelSteady /\ WindowInv /\ BrightnessInv /\ PositionInv
      /\ DiagnosticsInv /\ DiagnosticsKept /\ SettingsInv /\ SettingsKept
      /\ SessionInv /\ AssistantInv
  BY <1>1, <1>2, WheelStarts, WindowStarts, ExposureStarts, PositionStarts, DiagnosticsStarts,
     SettingsStarts, CollimationStarts DEF PositionInv
<1> QED BY <1>3, <1>4 DEF OfficeInv, KeptInv

\* Whichever component acts, every one of them keeps its invariant.
LEMMA OfficeStep == OfficeInv /\ [Next]_vars => OfficeInv'
<1> SUFFICES ASSUME OfficeInv, [Next]_vars PROVE OfficeInv' OBVIOUS
<1>1. part' = part BY PartActs
<1>2. part = "wheel" => WheelTyped'
  BY PartActs, WheelTypes DEF OfficeInv, Acts
<1>3. part = "window" => WindowInv'
  <2>1. "demo" \notin Devices BY EquipmentAssumption
  <2> QED BY <2>1, PartActs, WindowStep DEF OfficeInv, Acts
<1>4. part = "exposure" => BrightnessInv'
  BY PartActs, ExposureStep DEF OfficeInv, Acts
<1>5. part = "positioning" => PositionInv'
  BY PartActs, PositionStep DEF OfficeInv, Acts, PositionInv
<1>6. part = "diagnostics" => DiagnosticsInv'
  BY PartActs, DiagnosticsStep DEF OfficeInv, Acts
<1>7. part = "settings" => SettingsInv'
  BY PartActs, SettingsStep DEF OfficeInv, Acts
<1>8. part \in {"session", "assistant"} => SessionInv' /\ AssistantInv'
  BY PartActs, SessionStep, AssistantStep DEF OfficeInv, Acts
<1> QED BY <1>1, <1>2, <1>3, <1>4, <1>5, <1>6, <1>7, <1>8 DEF OfficeInv, Acts

\* Undisturbed, what is kept stays kept.
LEMMA KeptStep == ASSUME Undisturbed, OfficeInv, KeptInv, [Next]_vars PROVE KeptInv'
<1>1. part' = part BY PartActs
<1>2. Prompt /\ ~Reconnects /\ ~ClockSteps /\ ~TornWrites BY DEF Undisturbed
<1>3. part = "wheel" => WheelSteady'
  BY <1>2, PartActs, WheelKeeps DEF OfficeInv, KeptInv, Acts
<1>4. part = "diagnostics" => DiagnosticsKept'
  BY <1>2, PartActs, DiagnosticsKeeps DEF OfficeInv, KeptInv, Acts
<1>5. part = "settings" => SettingsKept'
  BY <1>2, PartActs, SettingsStep DEF OfficeInv, KeptInv, Acts
<1> QED BY <1>1, <1>3, <1>4, <1>5 DEF KeptInv, Acts

\* Hence they are always in them.
LEMMA ComponentsInvariant == Spec => [](EquipmentInv /\ OfficeInv)
<1>1. Init => EquipmentInv /\ OfficeInv BY ComponentsStart
<1>2. EquipmentInv /\ OfficeInv /\ [Next]_vars => EquipmentInv' /\ OfficeInv'
  BY PartActs, EquipmentStep, OfficeStep
<1> QED BY <1>1, <1>2, PTL DEF Spec

\* Types and limits of every component: a camera's exposure and gain however
\* bright the scene, the steps a panel may send, what the applications write
\* and the panels show, the screws' observations.
THEOREM ComponentsTyped == Spec => []TypesOK
<1>1. EquipmentInv => EquipmentTypeOK
  BY CamFacts, AcqFacts, FocFacts, FineFacts, ParkFacts, GuideFacts
  DEF EquipmentInv, EquipmentTypeOK, PulseInv, VerdictInv, LinkInv
<1>2. WheelTyped => Whl!WheelTypeOK BY DEF WheelTyped, Whl!WheelTypeOK
<1>3. WindowInv => Win!WindowTypeOK BY DEF WindowInv
<1>4. BrightnessInv => Exp!ExposureTypeOK BY DEF BrightnessInv
<1>5. DiagnosticsInv => Diag!DiagnosticsTypeOK
  <2> SUFFICES ASSUME DiagnosticsTyped PROVE Diag!DiagnosticsTypeOK BY DEF DiagnosticsInv
  <2>1. \A i \in Diag!Ids : bundles[i] \in Bundle BY Begun DEF DiagnosticsTyped
  <2>2. \A i \in Diag!Ids : /\ {bundles[i].made, bundles[i].time} \subseteq 1 .. MaxClock
                            /\ bundles[i].removed \in {"no", "aged", "excess"}
    BY <2>1 DEF Bundle
  <2>3. \A a \in Apps : app[a].at \in {"idle", "incident", "rest", "pruning", "sorting"}
    BY DEF DiagnosticsTyped, Captor
  <2> QED BY <2>2, <2>3 DEF DiagnosticsTyped, Copies, Diag!DiagnosticsTypeOK, Diag!Idle
<1>6. EquipmentInv /\ OfficeInv => TypesOK
  BY <1>1, <1>2, <1>3, <1>4, <1>5, PositionFacts, SettingsFacts, CollimationFacts
  DEF OfficeInv, TypesOK, Acts
<1> QED BY <1>6, ComponentsInvariant, PTL

\* What the operator is offered agrees with what is selected, calibrated and
\* measured, whatever is selected, pressed, plugged, turned or analysed in
\* which order: the main window's choices, the arrows of the alignment panel
\* and what they send, the advice for a screw.
THEOREM OffersTrue == Spec => []OffersAgree
<1>1. OfficeInv => OffersAgree
  BY PositionFacts DEF OfficeInv, OffersAgree, Acts, WindowInv, SessionInv, AssistantInv
<1> QED BY <1>1, ComponentsInvariant, PTL

\* Undisturbed, what is reported as done or kept is so: a filter change that
\* has ended left the wheel at its slot; a bundle is removed only past its age
\* or where MaxBundles later ones have been begun; a pull returns a copy whose
\* last transfer ended well and left its incident, or was reported as failed;
\* and the file holds what every panel shows, but for an exposure its camera
\* refused and, until the first change, a camera that was not there or a file
\* that could not be read.
THEOREM SettledTrue == Undisturbed => (Spec => []SettledAsSaid)
<1> SUFFICES ASSUME Undisturbed PROVE Spec => []SettledAsSaid OBVIOUS
<1>1. Init => KeptInv BY ComponentsStart
<1>2. OfficeInv /\ KeptInv /\ [Next]_vars => KeptInv' BY KeptStep
<1>3. OfficeInv /\ KeptInv => SettledAsSaid
  BY WheelFacts
  DEF OfficeInv, KeptInv, SettledAsSaid, Acts, DiagnosticsInv, DiagnosticsKept, SettingsKept
<1> QED BY <1>1, <1>2, <1>3, ComponentsInvariant, PTL DEF Spec

\* The components with a device keep what is said of them beside the others:
\* no handle or client is left open for nobody and no path forgets to tell a
\* cooler to stop (whether it does is the SDK's), frames that prove a motion's
\* end are fresh, and one command moves a device at a time.
THEOREM DevicesBeside == Spec => [](DevicesReleased /\ FreshInTime /\ OneMover)
<1>1. EquipmentInv => DevicesReleased /\ FreshInTime /\ OneMover
  BY CamFacts, AcqFacts, FocFacts, FineFacts, ParkFacts, GuideFacts
  DEF EquipmentInv, DevicesReleased, FreshInTime, OneMover, LinkInv
<1> QED BY <1>1, ComponentsInvariant, PTL
===============================================================================
