--------------------------- MODULE AlignPositioning ---------------------------
(***************************************************************************)
(* What an arrow of Mount Align sends                                      *)
(* (application/mount_align_positioning.py, angular_move_plan.py,          *)
(* mount/axis_calibration.py), for one camera: the screen move solved from *)
(* its calibration, its components capped, skipped or refused; the RA/Dec  *)
(* nudge; and the buttons the panel disables because the mount's smallest  *)
(* move cannot make them. One unit of a move is one arcsec, or one         *)
(* guide-ms; a response is in pixels per unit.                             *)
(***************************************************************************)
EXTENDS Integers, FiniteSets

CONSTANTS
  Matrices,    \* calibrations: [1..2 -> [{1, -1} -> [x, y]]]
  Shapes,      \* frames: [w, h]
  Fractions,   \* the sizes of a screen move, in percent of the frame
  Floor, Cap,  \* the smallest angular move, and the largest a click may send
  GuideMin,    \* the shortest guide pulse
  Slack        \* the square of the pixels that rounding two lengths may leave

VARIABLES
  mode,      \* the operating mode
  matrix,    \* [unit, of]: the camera's calibration
  shape,     \* its frames now
  verified,  \* its last verified frame, as kept for the diagnostics
  seen,      \* the frame shape the buttons were last judged with
  fraction,  \* the size chosen
  refusals,  \* the directions whose button is disabled
  click      \* the last click: the shift it asked for, its plan and primitive

positionVars == <<mode, matrix, shape, verified, seen, fraction, refusals, click>>

Axes == 1 .. 2
Directions == {<<1, 0>>, <<-1, 0>>, <<0, 1>>, <<0, -1>>}
NoMatrix == [unit |-> "none", of |-> <<>>]
NoShape == [w |-> 0, h |-> 0]

\* Guide pulses, in astronomical mode while the mount tracks; axis moves otherwise.
Primitives == IF mode = "astronomical" THEN {"guide", "axis"} ELSE {"axis"}

NoClick == [target |-> [x |-> 0, y |-> 0], by |-> "none",
            plan |-> [why |-> "none", steps |-> {}, clamped |-> FALSE, dropped |-> {}]]
Refused(why) == [why |-> why, steps |-> {}, clamped |-> FALSE, dropped |-> {}]

\* To the nearest, like Python's round for what is compared here.
Round(a, b) == IF b < 0 THEN (-2 * a - b) \div (-2 * b) ELSE (2 * a + b) \div (2 * b)

-----------------------------------------------------------------------------
(* solve_screen_move.                                                        *)

Det(a, b) == a.x * b.y - b.x * a.y

\* How long each axis moves so that together they shift the image by t.
Lengths(a, b, t) ==
  <<Round(t.x * b.y - t.y * b.x, Det(a, b)), Round(a.x * t.y - a.y * t.x, Det(a, b))>>

\* First with the positive responses, for the directions; then with the responses of these
\* directions, for the lengths. A component that comes out at zero or flips its sign is left out.
Solve(m, t) ==
  LET once == Lengths(m[1][1], m[2][1], t)
      dir == [a \in Axes |-> IF once[a] < 0 THEN -1 ELSE 1]
      twice == Lengths(m[1][dir[1]], m[2][dir[2]], t)
  IN  {[axis |-> a, dir |-> dir[a], size |-> twice[a]] : a \in {b \in Axes : twice[b] > 0}}

\* The two passes disagree on a direction.
Flipped(m, t) ==
  LET once == Lengths(m[1][1], m[2][1], t)
      dir == [a \in Axes |-> IF once[a] < 0 THEN -1 ELSE 1]
      twice == Lengths(m[1][dir[1]], m[2][dir[2]], t)
  IN  \E a \in Axes : twice[a] < 0 \/ (once[a] = 0 /\ twice[a] # 0)

\* Two responses along one line cannot be inverted, in either pass.
Degenerate(m, t) ==
  \/ Det(m[1][1], m[2][1]) = 0
  \/ LET once == Lengths(m[1][1], m[2][1], t)
     IN  Det(m[1][IF once[1] < 0 THEN -1 ELSE 1], m[2][IF once[2] < 0 THEN -1 ELSE 1]) = 0

-----------------------------------------------------------------------------
(* The plans.                                                                *)

Capped(steps) == {[s EXCEPT !.size = IF @ > Cap THEN Cap ELSE @] : s \in steps}

Shift(m, s) == [x |-> m[s.axis][s.dir].x * s.size, y |-> m[s.axis][s.dir].y * s.size]
Total(m, steps, axis) ==
  IF \E s \in steps : s.axis = axis THEN Shift(m, CHOOSE s \in steps : s.axis = axis)
  ELSE [x |-> 0, y |-> 0]
Sum(m, steps) == [x |-> Total(m, steps, 1).x + Total(m, steps, 2).x,
                  y |-> Total(m, steps, 1).y + Total(m, steps, 2).y]
Square(v) == v.x * v.x + v.y * v.y

\* plan_angular_move: components below the mount's smallest move are skipped, if what they leave is
\* at most a quarter of the shift and something is left to send.
AngularPlan(m, steps, t) ==
  LET dropped == {s \in steps : s.size < Floor}
      kept == steps \ dropped
  IN  IF dropped # {} /\ (kept = {} \/ 16 * Square(Sum(m, dropped)) > Square(t))
      THEN Refused("floor")
      ELSE [why |-> "ok", steps |-> Capped(kept), clamped |-> Capped(kept) # kept,
            dropped |-> dropped]

\* Guide pulses below the shortest are skipped, whatever they leave.
GuidePlan(steps) ==
  LET kept == {s \in steps : s.size >= GuideMin}
  IN  IF kept = {} THEN Refused("nothing")
      ELSE [why |-> "ok", steps |-> Capped(kept), clamped |-> Capped(kept) # kept,
            dropped |-> steps \ kept]

Target(d, f, frame) == [x |-> (d[1] * f * frame.w) \div 100, y |-> (d[2] * f * frame.h) \div 100]

\* plan_screen_move, with primitive p: in the order of its refusals.
ScreenPlan(m, p, t) ==
  LET steps == Solve(m.of, t)
  IN  IF m.unit # p THEN Refused("unit")
      ELSE IF Degenerate(m.of, t) THEN Refused("parallel")
      ELSE IF steps = {} THEN Refused("nothing")
      ELSE IF p = "guide" THEN GuidePlan(steps)
      ELSE AngularPlan(m.of, steps, t)

\* plan_nudge: half of the frame by the calibration, else by the optics (here the cap); never above
\* the cap and, as an angle, never below the smallest move. Responses here lie along one axis.
NudgePlan(p, a, dir) ==
  LET rate == matrix.of[a][dir]
      speed == (IF rate.x < 0 THEN -rate.x ELSE rate.x) + (IF rate.y < 0 THEN -rate.y ELSE rate.y)
      size == IF matrix = NoMatrix THEN Cap ELSE Round(shape.w, 2 * speed)
  IN  IF matrix # NoMatrix /\ matrix.unit # p THEN Refused("unit")
      ELSE IF matrix # NoMatrix /\ Square(rate) = 0 THEN Refused("no_motion")
      ELSE IF size = 0 THEN Refused("nothing")
      ELSE IF p = "axis" /\ size < Floor THEN Refused("floor")
      ELSE [why |-> "ok", steps |-> Capped({[axis |-> a, dir |-> dir, size |-> size]}),
            clamped |-> size > Cap, dropped |-> {}]

-----------------------------------------------------------------------------
(* The panel.                                                                *)

\* screen_move_floor_refusals, by the planner the click uses, for axis moves in every mode; a
\* calibration in guide-ms has no floor.
Refusals(m, f, frame) ==
  IF m.unit # "axis" \/ frame = NoShape THEN {}
  ELSE {d \in Directions : ScreenPlan(m, "axis", Target(d, f, frame)).why = "floor"}

\* The shape of the frames is taken over from the verified ones where it is not known yet.
RefreshScreenMoveLimits(known) ==
  /\ seen' = IF matrix' # NoMatrix /\ known = NoShape THEN verified' ELSE known
  /\ refusals' = Refusals(matrix', fraction', seen')

\* A run has ended: with a calibration in the unit it moved in, or none. The shapes are read again.
FinishCalibration ==
  /\ matrix' \in {[unit |-> p, of |-> m] : p \in Primitives, m \in Matrices} \cup {NoMatrix}
  /\ verified' = shape
  /\ UNCHANGED <<mode, shape, fraction>>
  /\ click' = NoClick
  /\ RefreshScreenMoveLimits(NoShape)

MoveSizeChanged ==
  /\ fraction' \in Fractions
  /\ UNCHANGED <<mode, matrix, shape, verified>>
  /\ click' = NoClick
  /\ RefreshScreenMoveLimits(seen)

OperatingModeChanged ==
  /\ mode' = IF mode = "terrestrial" THEN "astronomical" ELSE "terrestrial"
  /\ UNCHANGED <<matrix, shape, verified, fraction>>
  /\ click' = NoClick
  /\ RefreshScreenMoveLimits(seen)

\* Another camera or readout: frames of another shape.
FramesChange ==
  /\ shape' \in Shapes /\ click' = NoClick
  /\ UNCHANGED <<mode, matrix, verified, seen, fraction, refusals>>

\* A screen move, where its button is enabled.
ScreenMoveClicked ==
  /\ matrix # NoMatrix
  /\ \E d \in Directions \ refusals, p \in Primitives :
       LET t == Target(d, fraction, shape)
       IN  click' = [target |-> t, plan |-> ScreenPlan(matrix, p, t), by |-> p]
  /\ UNCHANGED <<mode, matrix, shape, verified, seen, fraction, refusals>>

\* The arrows of the RA/Dec pad need no calibration.
NudgeClicked ==
  /\ \E a \in Axes, dir \in {1, -1}, p \in Primitives :
       click' = [target |-> [x |-> 0, y |-> 0], plan |-> NudgePlan(p, a, dir), by |-> p]
  /\ UNCHANGED <<mode, matrix, shape, verified, seen, fraction, refusals>>

-----------------------------------------------------------------------------
PositionInit ==
  /\ mode = "terrestrial" /\ matrix = NoMatrix /\ shape \in Shapes /\ verified = NoShape
  /\ seen = NoShape /\ fraction \in Fractions /\ refusals = {} /\ click = NoClick

PositionNext ==
  \/ FinishCalibration \/ MoveSizeChanged \/ OperatingModeChanged \/ FramesChange
  \/ ScreenMoveClicked \/ NudgeClicked

PositionSpec == PositionInit /\ [][PositionNext]_positionVars

-----------------------------------------------------------------------------
\* Types; no step a click plans is longer than the cap (nudge_cap_arcsec).
PositionTypeOK ==
  /\ mode \in {"terrestrial", "astronomical"} /\ matrix.unit \in {"none", "axis", "guide"}
  /\ shape \in Shapes /\ {verified, seen} \subseteq Shapes \cup {NoShape}
  /\ fraction \in Fractions /\ refusals \subseteq Directions
  /\ \A s \in click.plan.steps : s \in [axis : Axes, dir : {1, -1}, size : 1..Cap]

\* A screen move shifts the image as its arrow says: by the responses of the directions it really
\* moves in, what is sent and what is skipped add up to the target, to the rounding of the two
\* lengths, and what is skipped of an axis move is at most a quarter of it -- unless a component
\* was capped or changed its sign between the two passes. No step is above the cap or, as an angle,
\* below the smallest move.
MovesAsAsked ==
  LET p == click.plan
      all == p.steps \cup p.dropped
      got == Sum(matrix.of, all)
      off == [x |-> click.target.x - got.x, y |-> click.target.y - got.y]
      left == [x |-> click.target.x - Sum(matrix.of, p.steps).x,
               y |-> click.target.y - Sum(matrix.of, p.steps).y]
  IN  /\ \A s \in p.steps : s.size <= Cap /\ (click.by = "axis" => s.size >= Floor)
      /\ /\ p.why = "ok" /\ click.target # [x |-> 0, y |-> 0]
         /\ ~p.clamped /\ ~Flipped(matrix.of, click.target)
         => /\ Square(off) <= Slack
            /\ (click.by = "axis" /\ p.dropped # {})
                 => 16 * Square(left) <= 2 * (Square(click.target) + 16 * Slack)

\* A disabled screen-move button is one whose click as an axis move would be refused for the mount's
\* smallest move, and an enabled one is not -- whatever was calibrated, chosen or switched since --
\* while the frames have the shape they were verified with.
ButtonsTruthful ==
  (matrix.unit = "axis" /\ shape = seen) =>
    \A d \in Directions :
      d \in refusals <=> ScreenPlan(matrix, "axis", Target(d, fraction, shape)).why = "floor"
=============================================================================
