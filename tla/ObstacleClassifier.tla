------------------------- MODULE ObstacleClassifier -------------------------
(***************************************************************************)
(* The geometric part of the filter of predicted objects                   *)
(* (obstacle_stop_module.cpp, utils.cpp): the rough lateral gate of        *)
(* filter_stop_obstacle_for_predicted_object, then                          *)
(* pick_stop_obstacle_from_predicted_object's label and precise lateral    *)
(* gates, the collision with the margin-expanded trajectory polygon, the   *)
(* cut-in check (check_outside_cut_in_obstacle) and the crossing-transient *)
(* check (is_crossing_transient_obstacle).  Its outcome is what            *)
(* ObstacleStop takes as the inputs geo and crossing.                      *)
(*                                                                         *)
(* Geometry is one-dimensional across the trajectory: the trajectory       *)
(* polygon is the band |y| <= HalfWidth (+ a lateral margin), an object    *)
(* is the interval of half width x.half around its lateral offset x.lat,   *)
(* measured on its own side, and it moves across at x.latVel (positive     *)
(* when approaching, as get_lat_vel_relative_to_traj signs it).  Its       *)
(* predicted path is this straight motion.  Lengths are integers in one    *)
(* unit, times in seconds; the time to reach the collision point is kept   *)
(* as an exact fraction.                                                   *)
(***************************************************************************)
EXTENDS Integers

CONSTANTS
  Labels, Ped, Bicycle, Unknown,
  InsideTypes, OutsideTypes,
  MaxLatMargin, MaxLatMarginUnknown,  \* max_lat_margin(_against_..._unknown)
  HalfWidth,        \* vehicle_width_m / 2
  EgoMaxDist,       \* hypot(max_longitudinal_offset_m, vehicle_width_m / 2)
  Horizon,          \* outside_estimation_time_horizon
  PedDecel, BicycleDecel,   \* outside_{pedestrian,bicycle}_deceleration
  OutsideMaxLatVel, \* outside_max_lateral_velocity
  MinBehaviorStopMargin, DistToBumper,
  MinVelToReach,    \* min_velocity_to_reach_collision_point
  CrossingTimeMargin,  \* crossing_obstacle_collision_time_margin
  PredHorizon,      \* end of the resampled predicted path, in seconds
  ObjInputs,        \* the objects a cycle may present
  None

ASSUME MinVelToReach > 0 /\ PredHorizon \in Nat

VARIABLES
  obj,      \* the object classified last
  ignoreX,  \* ignore_crossing_obstacle_ when it was classified
  outcome   \* what the filter made of it

vars == <<obj, ignoreX, outcome>>

MinOf(a, b) == IF a < b THEN a ELSE b
MaxOf(a, b) == IF a > b THEN a ELSE b
Abs(a) == IF a < 0 THEN -a ELSE a

Outcomes == {"behind", "rough", "label", "lateral", "miss", "transient",
             "inside", "cutin"}

\* calc_estimation_time; v/2a is infinite for a deceleration <= 0 and
\* clamped to the horizon.
EquivalentTime(speed, decel) ==
  IF decel <= 0 THEN Horizon ELSE MinOf(speed \div (2 * decel), Horizon)

EstimationTime(x) ==
  IF x.label \notin OutsideTypes THEN 0
  ELSE IF x.label = Ped THEN EquivalentTime(x.speed, PedDecel)
  ELSE IF x.label = Bicycle THEN EquivalentTime(x.speed, BicycleDecel)
  ELSE Horizon

\* get_max_lat_margin
MaxLat(l) == IF l = Unknown THEN MaxLatMarginUnknown ELSE MaxLatMargin

\* calc_possible_min_dist_from_obj_to_traj_poly, x.ext being
\* calc_object_possible_max_dist_from_center of its shape.
PossibleMinDist(x) == Abs(x.lat) - EgoMaxDist - x.ext

\* Step 1.2 of filter_stop_obstacle_for_predicted_object: the rough
\* lateral distance exceeds the margin even after the approach over the
\* whole horizon.
RoughRejects(x) ==
  MaxLat(x.label) < PossibleMinDist(x) - MaxOf(x.latVel * Horizon, 0)

\* get_dist_to_traj_poly against the polygons without lateral margin.
DistToTrajPoly(x) == MaxOf(0, Abs(x.lat) - HalfWidth - x.half)

\* Mutant: the approach term is not clamped at 0, so a receding object
\* counts as farther away.
LateralRejectsUnclamped(x, est) ==
  LET q == DistToTrajPoly(x) - x.latVel * est
  IN  IF MaxLat(x.label) > 0 THEN MaxLat(x.label) <= q ELSE 0 < q

\* Step 2 of pick_stop_obstacle_from_predicted_object:
\* max(max_lat_margin, 1e-3) <= dist - max(lat_vel * t_est, 0).  Every
\* quantity is an integer, so comparing with 1e-3 is comparing with 0 < .
LateralRejects(x, est) ==
  LET q == DistToTrajPoly(x) - MaxOf(x.latVel * est, 0)
  IN  IF MaxLat(x.label) > 0 THEN MaxLat(x.label) <= q ELSE 0 < q

\* The object's interval at lateral offset y meets the trajectory polygon
\* expanded by the label's margin (touching is a collision).
Band(x) == HalfWidth + MaxLat(x.label) + x.half

InBand(x, y) == Abs(y) <= Band(x)

\* check_outside_cut_in_obstacle: the convex hull of the current and the
\* t_est-ahead footprints; NoCut when it is rejected or misses.
CutInArc(x, est) ==
  LET y1 == x.lat - x.latVel * est
      arc == MinOf(x.lon, x.lon + x.lonVel * est)
  IN  IF Abs(x.latVel) > OutsideMaxLatVel THEN None
      ELSE IF MinOf(x.lat, y1) > Band(x) \/ MaxOf(x.lat, y1) < -Band(x) THEN None
      ELSE IF arc < 0 THEN None
      ELSE arc

\* calc_time_to_reach_collision_point as the fraction num / den, for a
\* collision point at arc length c ahead of the ego.
ReachNum(c) == c - (MinBehaviorStopMargin + DistToBumper)
ReachDen(x) == MaxOf(MinVelToReach, Abs(x.vEgo))

\* is_crossing_transient_obstacle: a crossing object whose pose predicted
\* at arrival minus the margin (or at the end of its path) misses the
\* margin-expanded polygon.
CrossingTransient(x, c) ==
  LET n == ReachNum(c)
      d == ReachDen(x)
      f == MinOf(n - CrossingTimeMargin * d, PredHorizon * d)
  IN  /\ x.heading = "across"
      /\ n > CrossingTimeMargin * d
      /\ x.hasPath
      /\ Abs(x.lat * d - x.latVel * f) > Band(x) * d

\* The collision of pick_stop_obstacle_from_predicted_object's steps 4.2
\* and 4.3 as [kind, arc], or None.
Collision(x, est) ==
  IF InBand(x, x.lat) THEN [kind |-> "inside", arc |-> x.lon]
  ELSE IF x.label \in OutsideTypes /\ CutInArc(x, est) # None
    THEN [kind |-> "cutin", arc |-> CutInArc(x, est)]
  ELSE None

\* Steps 1-5 of pick_stop_obstacle_from_predicted_object after the rough
\* gate, given the collision col.
PickWith(x, ignX, est, col) ==
  IF x.label \notin InsideTypes THEN "label"
  ELSE IF LateralRejects(x, est) THEN "lateral"
  ELSE IF col = None THEN "miss"
  ELSE IF ignX /\ CrossingTransient(x, col.arc) THEN "transient"
  ELSE col.kind

Pick(x, ignX) == PickWith(x, ignX, EstimationTime(x), Collision(x, EstimationTime(x)))

\* The filter's outcome for one object.
Classify(x, ignX) ==
  IF x.lon < 0 THEN "behind"
  ELSE IF RoughRejects(x) THEN "rough"
  ELSE Pick(x, ignX)

Init ==
  /\ obj = None
  /\ ignoreX = FALSE
  /\ outcome = "none"

\* One object through filter_stop_obstacle_for_predicted_object's loop
\* body, with the ignore_crossing_obstacle_ option then in force.
Filter ==
  \E x \in ObjInputs, ic \in BOOLEAN :
    /\ obj' = x
    /\ ignoreX' = ic
    /\ outcome' = Classify(x, ic)

Next == Filter

Spec == Init /\ [][Next]_vars

-----------------------------------------------------------------------------

\* The rough gate of filter_stop_obstacle_for_predicted_object and the
\* lateral gate of pick_stop_obstacle_from_predicted_object only save
\* work: an object they drop would not have overlapped the margin-expanded
\* polygon, now or as a cut-in within its estimation time.
GatesConservative ==
  obj # None /\ outcome \in {"rough", "lateral"} =>
    LET est == EstimationTime(obj)
        y1  == obj.lat - obj.latVel * est
    IN  /\ Abs(obj.lat) >= Band(obj)
        /\ obj.label \in OutsideTypes =>
             MinOf(obj.lat, y1) >= Band(obj) \/ MaxOf(obj.lat, y1) <= -Band(obj)

\* Spec 4.1 step 9 and 4.3: an object is dropped as crossing-transient
\* only if it clears the path before the ego arrives: at the time the ego
\* reaches the collision point it is outside the margin-expanded polygon.
TransientClearsBeforeArrival ==
  obj # None /\ outcome = "transient" =>
    LET c == IF InBand(obj, obj.lat) THEN obj.lon
             ELSE CutInArc(obj, EstimationTime(obj))
        n == ReachNum(c)
        d == ReachDen(obj)
    IN  n > PredHorizon * d \/ Abs(obj.lat * d - obj.latVel * n) > Band(obj) * d

=============================================================================
