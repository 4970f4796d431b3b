----------------------------- MODULE CurveMargin -----------------------------
(***************************************************************************)
(* ObstacleStopModule::calc_margin_from_obstacle_on_curve                  *)
(* (obstacle_stop_module.cpp): the stop margin of an obstacle on a curve.  *)
(* A short trajectory is taken back from the obstacle's segment until it   *)
(* spans more than stop_margin + dist_to_bumper, resampled every 0.5 m,    *)
(* and searched for the first pose whose straight forward segment comes    *)
(* within half the vehicle width of the obstacle; the margin is the arc    *)
(* length from there to the collision point, clamped to                    *)
(* [min_stop_margin_on_curve, default_stop_margin].                        *)
(*                                                                         *)
(* The trajectory is the sequence of its points' arc lengths, in units of  *)
(* the 0.5 m resampling interval, so the resampled short trajectory is     *)
(* every integer between its ends.  The distance from a pose's straight    *)
(* segment to the obstacle polygon is an input: a function of the pose's   *)
(* arc length.  The interpolated margin is kept as an exact fraction.     *)
(***************************************************************************)
EXTENDS Integers, Sequences, SequencesExt

CONSTANTS
  Trajs,        \* reference trajectories (increasing arc lengths)
  Profiles,     \* distance from the straight ego segment at arc length s
  Defaults,     \* default_stop_margin values calc_desired_stop_margin passes
  StopMargin,   \* stop_margin
  DistToBumper, HalfWidth,
  MinCurveMargin,     \* min_stop_margin_on_curve
  AdditionalMargin,   \* additional_stop_margin_on_curve
  None

VARIABLES
  in,      \* the call's inputs
  margin   \* the margin it returned, as [num, den]

vars == <<in, margin>>

Frac(n, d) == [num |-> n, den |-> d]
Whole(n) == Frac(n, 1)
LessEq(a, b) == a.num * b.den <= b.num * a.den

\* The loop building short_traj_points backwards from traj[seg + 1]: each
\* point is pushed, then the loop stops once the length summed before it
\* exceeds stop_margin + dist_to_bumper.
RECURSIVE ShortBack(_, _, _, _)
ShortBack(t, i, sum, acc) ==
  IF i < 1 THEN acc
  ELSE IF Len(acc) + 1 > 1 /\ StopMargin + DistToBumper < sum
    THEN Append(acc, t[i])
  ELSE ShortBack(t, i - 1, sum + (t[i + 1] - t[i]), Append(acc, t[i]))

ShortTraj(t, seg) == Reverse(ShortBack(t, seg, 0, << t[seg + 1] >>))

\* resample_trajectory_points(short, 0.5)
Resampled(s) == [j \in 1..(s[Len(s)] - s[1] + 1) |-> s[1] + j - 1]

\* The index of the first resampled pose within half the vehicle width.
CollisionIdx(r, prof) == SelectInSeq(r, LAMBDA p : prof[p] < HalfWidth)

\* The margin once the collision index j > 1 is found: the interpolated
\* part of the crossing segment plus the arc length to the collision point.
InterpolatedMargin(r, prof, j, c, default) ==
  LET next == prof[r[j]]
      prev == prof[r[j - 1]]
      den  == prev - next
      short == Frac((HalfWidth - next) + (c - r[j] - DistToBumper + AdditionalMargin) * den, den)
      low  == IF LessEq(short, Whole(MinCurveMargin)) THEN Whole(MinCurveMargin) ELSE short
  IN  IF LessEq(Whole(default), low) THEN Whole(default) ELSE low

\* calc_margin_from_obstacle_on_curve
MarginOnCurve(x) ==
  IF ~x.enable \/ x.usePointcloud THEN Whole(x.default)
  ELSE LET s == ShortTraj(x.traj, x.seg)
           r == Resampled(s)
           j == CollisionIdx(r, x.prof)
       IN  IF Len(s) < 2 THEN Whole(x.default)
           ELSE IF j = 0 THEN Whole(MinCurveMargin)
           ELSE IF j = 1 THEN Whole(x.default)
           ELSE InterpolatedMargin(r, x.prof, j, x.collide, x.default)

\* A call's inputs: the obstacle's collision point lies on segment seg.
CurveInput ==
  UNION {UNION {[traj: {t}, seg: {k}, collide: t[k]..t[k + 1], prof: Profiles,
                  default: Defaults, enable: BOOLEAN, usePointcloud: BOOLEAN] :
                   k \in 1..Len(t) - 1} : t \in Trajs}

Init ==
  /\ in = None
  /\ margin = None

\* One call of calc_margin_from_obstacle_on_curve by calc_desired_stop_margin.
Compute ==
  \E x \in CurveInput :
    /\ in' = x
    /\ margin' = MarginOnCurve(x)

Next == Compute

Spec == Init /\ [][Next]_vars

-----------------------------------------------------------------------------

\* Spec 4.4: the margin on a curve shrinks the default margin toward, but
\* not below, min_stop_margin_on_curve; it never makes the margin larger
\* than the default one calc_desired_stop_margin passed in.
MarginOnCurveShrinks ==
  in # None => LessEq(margin, Whole(in.default))

=============================================================================
