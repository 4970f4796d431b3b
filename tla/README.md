# TLA+ models of the obstacle-stop module

This directory models the obstacle-stop module of the motion velocity planner
(`src/planning/motion_velocity_planner/autoware_motion_velocity_obstacle_stop_module/src/obstacle_stop_module.cpp`).
It also inventories the other code in the repository. Each model is checked with
TLC. `PROJECT.json` has the machine-readable version of this document: the
components, the runs, the mutants, the map from every definition to the code
lines it models, the findings, and the hazards.

## 1. The system

The module runs once per planning cycle, on one thread. A call is
`ObstacleStopModule::plan`, and its cycles never overlap. The steps are:

1. **Filter predicted objects** (`filter_stop_obstacle_for_predicted_object`).
   Objects behind the ego or laterally far from the trajectory are dropped.
   For the others, `pick_stop_obstacle_from_predicted_object` checks:
   - the label (the inside types);
   - a collision with the margin-expanded trajectory polygons;
   - for outside types, the cut-in hull (`check_outside_cut_in_obstacle`);
   - crossing-transient objects (`is_crossing_transient_obstacle`), dropped when
     `ignore_crossing_obstacle` is set.

   A surviving object becomes a `StopObstacle` of one of two kinds:
   - a **fixed stop**, with no braking distance;
   - an **RSS stop**, with a braking distance (`calc_braking_dist`).

   The choice has hysteresis by uuid (`is_obstacle_velocity_requiring_fixed_stop`).
   An object that was a fixed stop last cycle stays one until its velocity
   exceeds the exit threshold. Any other object becomes one when its velocity
   drops below the enter threshold.
2. **Consistency** (`check_consistency`). An object that was last cycle's
   closest obstacle for its label may have vanished from this cycle's list while
   still being perceived. It is re-added, with its old stamp and distance, if its
   `twist.linear.x` is below the enter threshold and it is younger than the hold
   time. The list is then stored as `prev_stop_obstacles_`, and its
   closest-per-label reduction as `prev_closest_stop_obstacles_`.
3. **Point cloud** (`filter_stop_obstacle_for_point_cloud`), when enabled.
   - This cycle's clustered collision points become stop obstacles.
   - The history `stop_pointcloud_obstacle_history_` is walked: expired entries
     are erased, and live entries beside the trajectory are returned again.
   - This cycle's obstacles are appended to the history.
4. **Plan stop** (`plan_stop`).
   - Reduce to the closest obstacle per label (`get_closest_stop_obstacles`).
   - For each one, compute:
     - the desired margin (`calc_desired_stop_margin`). This is the
       opposing-traffic margin for oncoming obstacles, the terminal margin past
       the trajectory end, or otherwise `stop_margin`. It may then be shrunk for a
       behaviour stop just ahead.
     - the candidate stop distance (`calc_candidate_zero_vel_dist`), with the
       sudden-stop suppression.
   - Pick one candidate, then apply the hold (`hold_previous_stop_if_necessary`)
     and insert the stop point (`calc_stop_point`).
   - The stop of a fast oncoming obstacle goes through the path-length buffer
     (`PathLengthBuffer`, whose code is not in this repository). Any other stop is
     returned directly.

State kept between cycles:
- `prev_stop_obstacles_` and `prev_closest_stop_obstacles_`;
- `prev_stop_distance_info_`;
- the point-cloud history;
- the path-length buffer;
- the two runtime options set by `update_parameters`.

The other source files:
- `autoware_motion_velocity_planner_common/src/utils.cpp`: trajectory extension
  and decimation, and distance helpers.
- `src/unnamed/part_002` and `part_001`: the path generator's utilities (route
  lanelet walks, waypoint groups, arc-length projections between the centerline
  and the bounds, cropping, goal connection, turn signals).
- The remaining files are changelogs, CMake files, CI workflows, a parameter
  schema and a node header. They contain no logic.

## 2. Modules

| module | models | state | actions |
|---|---|---|---|
| `ObstacleStop` | `plan` with predicted objects, `update_parameters` | `prevStop`, `prevClosest`, `prevStopDist`, `buffer`, `ignoreCrossing`, `suppressSudden`, `out`, `sincePick` (history) | `Plan`, `UpdateParameters` |
| `PointCloudFilter` | `filter_stop_obstacle_for_point_cloud`: `convert_point_cloud_to_stop_points`, `create_stop_obstacle_for_point_cloud` and the history loop | `history`, `itr`, `loc`, `cur`, `past`, `rough`, `precise`, `out`, `phase` | `Begin`, `EraseExpired`, `CheckLateral`, `SkipRough`, `PassRough`, `SkipPrecise`, `KeepPast`, `Finish` |
| `FixedStopHysteresis` | what the fixed/RSS stop policy promises (spec 4.2), abstract | `mode`, `vel` | `Next` (one cycle's change per object) |
| `ObstacleClassifier` | the geometric gates of `filter_stop_obstacle_for_predicted_object` and `pick_stop_obstacle_from_predicted_object` | `obj`, `ignoreX`, `outcome` | `Filter` |
| `TrajectoryExtension` | `utils::get_extended_trajectory_points` | `pc`, `raw`, `out`, `dist`, `step`, `sum` | `Begin`, `Extend`, `Finish` |
| `CurveMargin` | `calc_margin_from_obstacle_on_curve` | `in`, `margin` | `Compute` |
| `PathGeometry` | `utils::get_first_self_intersection_arc_length` of the path generator (`src/unnamed/part_002`) | `line`, `result` | `Call` |
| `MCObstacleStop`, `MCPointCloudFilter`, `MCObstacleClassifier`, `MCTrajectoryExtension`, `MCCurveMargin`, `MCPathGeometry` | model values and input sets for TLC | | |

**ObstacleStop.** One `Plan` step is one call of `plan`. The step is the pure
operator `Cycle(state, inputs)`, built from one operator per function of the
code:
- `FilterStopObstacles`, `Pick`, `RequiresFixedStop`, `Readmitted` and
  `GetClosest` for the filter and the consistency pass;
- `DesiredStopMargin`, `OpposingMargin`, `CandidateZeroVelDist`,
  `MinDistToStop` and `BrakingDist` for the margins;
- `Determine`, `HoldPrevious`, `Reprojected`, `Inserted` and `StoredStopDist`
  for plan_stop;
- `Tick`, `UpdateBuffer` and `NearestActive` for the buffer.

Because the cycle is one operator, a property can apply it twice, which is how
idempotence is checked.

Abstractions:
- Geometry becomes inputs. Each object has a `geo` outcome: `"far"` (behind
  the ego or outside the rough lateral margin), `"inside"` (collides with the
  margin-expanded polygon), `"cutin"` (only the cut-in hull collides) or
  `"miss"`. It also has a `crossing` flag.
- Distances are integer arc lengths in metres, velocities are integer m/s, and
  time is counted in cycles. A stop obstacle's stamp becomes an age, saturated at
  the hold threshold.
- The opposing-traffic margin is computed exactly over the rationals and rounded
  down once.
- `insertStopPoint` succeeds only for a distance inside `[0, RefTrajLen]`.
- `prev_stop_distance_info_` (the stored trajectory and distance) becomes
  `prevStopDist = [dist, lag]`: the stored distance, and how far the trajectory
  front has moved since that trajectory was stored. `calc_stop_point` stores
  the held distance with lag 0; a failed insertion returns early and keeps the
  old pair, whose lag then grows by this cycle's front shift. The hold
  reprojects against the stored trajectory (`Reprojected`: `dist - lag -
  shift`). A guard keeps the lag within `MaxLag`.
- `sincePick` is a history variable, not program state: for each object, the
  time since `pick_stop_obstacle_from_predicted_object` last picked it. It
  lets a property compare a re-admitted obstacle's stamp with when it was
  really seen.
- The buffer keeps items with their stop position, their age (saturated at
  `MinOnTicks`) and their idle time (saturated at `MinOffTicks`). An item is
  refreshed by a stop within `UpdateDistTh`, is active after `MinOnTicks`, and
  is dropped after `MinOffTicks` without update. The nearest active item wins.
  This is modelled from spec 4.5 step 9, because its code is not here.
- The debug publishing is left out.

**PointCloudFilter.** `Begin` is the part of the call before the history
loop:
- `convert_point_cloud_to_stop_points` becomes `StopPoints`. Each cluster
  reports its nearest candidate (`ClusterStop`). A candidate (`Candidate`)
  passes the rough check, then the precise check, and lies ahead of the ego.
  Ties go to the first point, because the code updates on a strict `<`.
- `create_stop_obstacle_for_point_cloud` is `NewObstacles`.
- The clusters (`Clusterings`), the points passing each lateral check, and
  each point's arc length from the ego (`Offsets`, negative when behind) are
  inputs. The same lateral checks apply to the clusters and to the history,
  because both use this cycle's trajectory.

The loop is modelled statement by statement, with `loc` as the position in
the loop body:
- A `continue` that skips `++itr` is a step back to the loop head with `itr`
  unchanged.
- Entry ages advance by the odometry time `dt`.

**FixedStopHysteresis.** The abstract specification of the stop policy. For
each uuid it keeps the kind of stop the object caused last cycle (`"fixed"`,
`"rss"` or `"none"`) and the velocity recorded with it. A step may change
every object at once, under these rules:
- an object enters a fixed stop only below `EnterFixedStop`;
- it leaves a fixed stop for an RSS stop only above `ExitFixedStop`;
- a fixed stop never carries a velocity above the exit threshold;
- an RSS stop never carries a velocity below the enter threshold.

`ObstacleStop` is shown to implement it.
`Hysteresis == INSTANCE FixedStopHysteresis WITH ...` maps `mode` and `vel`
from `prevStop`. `StopMode(o)` and `StopVel(o)` take the entry of uuid `o`:
its kind, or `"none"` when it is absent. The property `HysteresisRefined`
is `Hysteresis!Spec`.

**ObstacleClassifier.** The geometry that `ObstacleStop` takes as the input
`geo`. The model is one-dimensional, across the trajectory:
- The trajectory polygon is the band `|y| <= HalfWidth`. It is widened by the
  label's lateral margin (`get_max_lat_margin`).
- An object is an interval of half width `half` at lateral offset `lat`. It
  moves toward the path at `latVel`, signed as
  `get_lat_vel_relative_to_traj` signs it.
- Its predicted path is that straight motion.

`Classify` is the code's sequence of early returns, in order:
1. behind the ego;
2. the rough gate (step 1.2);
3. the label;
4. the precise lateral gate (step 2);
5. the collision: inside the band, or for outside types the cut-in hull of
   `check_outside_cut_in_obstacle`;
6. the crossing-transient test when `ignore_crossing_obstacle` is set.

The time to reach the collision point (`calc_time_to_reach_collision_point`)
is kept as an exact fraction.

**TrajectoryExtension.** The extension loop, step by step.
- A trajectory is the sequence of its points' arc lengths.
- An extension point is the goal offset by `extend_sum`.
- The loop test `extend_sum <= extend_distance - step_length` compares sums
  of rounded doubles. When the two sides are equal over the reals, either
  answer is one the build can produce (`LoopTest`).
- `MaxPush` bounds the points one call appends. It matters only to a mutant
  that never advances.

**CurveMargin.** The whole function:
- the two early returns;
- the backward loop that builds the short trajectory (`ShortBack`, RECURSIVE);
- resampling at 0.5 m, with lengths in units of 0.5 m;
- the first resampled pose whose straight forward segment comes within half
  the vehicle width of the obstacle (`CollisionIdx`);
- the interpolation and the final clamp (`InterpolatedMargin`, an exact
  fraction).

The distance from a straight segment to the object polygon is an input
profile over arc length.

**PathGeometry.** `get_first_intersection_arc_length` calls
`get_first_self_intersection_arc_length` on the cropped left and right
bounds, to cut the drivable area where a bound folds onto itself. The model
keeps the function's two loops as they are:
- the exclusions of adjacent segments (`Skipped`);
- the intersection test (`Meets`) and the distance of its first point along
  the later segment (`Along`);
- the inner loop (`FirstCrossing`);
- the outer loop with its recorded index and its return check (`Scan`,
  RECURSIVE).

A line string is a walk on the integer grid with unit steps. Two unit
segments then intersect only at a shared grid point, and every length is 1.
Walks that traverse an edge twice are left out, because boost returns the two
points of a collinear overlap in an order the model does not fix. The first
step is fixed to +x: the function depends only on which points coincide, so
rotating a walk does not change its result. The reference `FirstReturn` is the
arc length of the first point where the walk returns to a point it passed.

## 3. Runs

| run | cfg | expect | what it shows |
|---|---|---|---|
| consistency | `MCObstacleStop.cfg` | pass | `StaleObstacleExpires`: every obstacle in `prev_stop_obstacles_` was picked less than the hold time ago (`sincePick`), however often check_consistency re-added it; a re-admission that refreshed the stamp would keep it alive. `HysteresisRefined`: the per-object stop policy read from `prevStop` implements `FixedStopHysteresis`. This covers re-admission and objects that vanish and return. |
| hold | `MCObstacleStopHold.cfg` | pass | `Idempotent`: calling `plan` again with the same inputs, no elapsed time and an unmoved trajectory gives the same stop point. This covers the hold reprojected against the stored pair, failed insertions that keep an older pair, and the buffer. |
| nearest | `MCObstacleStopNearest.cfg` | violation | `NearestRequiredStopChosen` fails. The planned stop must be no further than the nearest stop any detected obstacle requires; the per-label reduction hides an oncoming car that needs a nearer stop. |
| opposing_margin | `MCObstacleStopOpposingMargin.cfg` | violation | `OpposingMarginBounded` (spec section 8) fails. With T_coast = 0 the margin is 8 m, more than `stop_margin`. |
| debounce | `MCObstacleStopDebounce.cfg` | violation | `StopDebounced` (spec 4.5 steps 8-9) fails. Every returned stop, except one for a fast oncoming obstacle (velocity below `max_negative_velocity`), must have been in the buffer for `MinOnTicks`; non-oncoming stops skip it. |
| pointcloud | `MCPointCloudFilter.cfg` | pass | `HistoryReturned`: when the filter returns, every entry kept from earlier calls is younger than the hold time and is returned. |
| pointcloud_returns | `MCPointCloudFilterReturns.cfg` | violation | `FilterReturns` fails. An entry failing a lateral check makes the loop spin forever. |
| classifier | `MCObstacleClassifier.cfg` | pass | `GatesConservative`: the rough and the precise lateral gates drop only objects that overlap the margin-expanded polygon neither now nor as a cut-in. |
| classifier_transient | `MCObstacleClassifierTransient.cfg` | violation | `TransientClearsBeforeArrival` (spec 4.1 step 9, 4.3) fails. A crossing pedestrian is tested `crossing_obstacle_collision_time_margin` before the ego arrives, when it has not yet reached the path, and is dropped although it is inside the path at arrival. |
| extension | `MCTrajectoryExtension.cfg` | pass | `ExtensionMatchesReference`: the output is the input followed by the reference extension (goal + 0, step, 2 step, ..., then goal + extend_distance), up to the one point the rounded loop test may drop. Correct calls never reach the `MaxPush` bound; a loop stuck at it would be a deadlock, which the run checks. |
| curve_shrinks | `MCCurveMarginShrinks.cfg` | violation | `MarginOnCurveShrinks` (spec 4.4) fails. With no collision index the result is `min_stop_margin_on_curve`, above a smaller default margin. |
| path_self_intersection | `MCPathGeometry.cfg` | violation | `SelfIntersectionIsFirst` fails. A bound that folds twice is cut at its second fold. |

Every property of a passing run has a mutant in `PROJECT.json`. A mutant is a
plausible bug in the definition the property is about, and TLC finds it:

| mutant | bug |
|---|---|
| `ReadmittedRefresh` | a re-admitted obstacle gets a fresh stamp |
| `RequiresFixedStopExitOnly` | the exit threshold is used for entering |
| `StoredStopDistUnheld` | the raw distance is stored instead of the held one |
| `InsertedNoEnd` | no end-of-trajectory check |
| `FinishDropsPast` | the re-used entries are not returned |
| `FinishRecordsPast` | the re-used entries are appended to the history again |
| `LateralRejectsUnclamped` | the approach term of the lateral gate is not clamped at 0 |
| `ExtendBackward` | the extension is offset backwards from the goal |
| `FinishAtSum` | the last point is placed at `extend_sum`, not at `extend_distance` |

### Bounds

**consistency.** Two objects. The first is a car that can be:
- standing, slow (at the enter threshold) or fast, at 12 m;
- near at 4 m;
- turned, with its twist differing from its velocity along the trajectory;
- crossing;
- only in the cut-in hull;
- behind the ego.

The second is a standing pedestrian (a label with its own sudden-stop
parameters) or an oncoming car 12 m ahead. Ego speed is 4 m/s. A behaviour stop may
be present or absent. The hold time is 2 cycles and each cycle advances time by
0 or 1. These bounds produce:
- re-admission across two consecutive cycles, and its expiry;
- each branch of the hysteresis;
- a failed insertion beyond the trajectory end;
- both the terminal margin and the behaviour-stop margin.

**hold.** Ego speed is 0 or 4 m/s, so the hold is both active and inactive. The
trajectory front moves by 0 or 1 m, so a reprojected previous stop lands within
the 2 m hold threshold. `MaxLag = 2` lets a failed insertion keep the stored
pair for two cycles of front movement, so a stale pair is reprojected. An oncoming pedestrian is included, so the buffer
gains, activates and drops items (`MinOnTicks = 1`, `MinOffTicks = 2`).
Behaviour stops are left out of this run to keep it small. The consistency run
covers them.

**pointcloud.** Two collision points, a hold of 2 cycles, and histories up to 4
entries. The clusterings are:
- none;
- one cluster holding both points, in either order;
- one cluster per point.

Each point lies behind the ego, level with it, or ahead of it, so ties and the
ahead check both occur. This covers:
- erasure;
- re-use;
- both kinds of skip;
- the hang.

`Begin` may not append points beyond the bound, but it can always run with no
points, so the model never deadlocks.

**classifier.** Objects are a pedestrian, a bicycle, a car or an unknown
object (negative lateral margin). Their parameters are:
- lateral offsets 0, 2, 4 and 6, against a band of half width 1 widened by a
  margin of 1;
- lateral velocities -1, 0 and 2;
- longitudinal positions -1, 5 and 9;
- speeds 0 and 4, for an estimation time of 0 or 2 s;
- heading along or across the path.

With these, each gate rejects some objects and passes others, and cut-ins
happen. The transient test flips between the pose checked at 0.5 s and the
pose at arrival, 1.5 s.

**extension.** The trajectories are `<<0>>`, `<<0,2,5>>` and `<<1,4>>`. The
extend distances are 0, 4, 6 and 7, the steps 1, 2 and 3, and `MaxPush` is 8.
The loop sum meets `extend_distance - step_length` exactly (6 - 3 and 4 - 2),
which is the rounding case. It also jumps over it (7 - 2), and starts above it
(4 - 3).

**curve_shrinks.** Lengths are in units of 0.5 m. The two trajectories have four and
two segments. Four profiles are checked:
- a straight road, which gives collision index 0;
- an object no straight segment reaches, which gives no index;
- two curves, reached from arc lengths 5 and 9, which give the interpolation.

The default margins are 0.5, 1.5 and 3 m, against a minimum of 1.5 m, so each
branch and each clamp is taken.

**path_self_intersection.** Every grid walk of 1 to 8 steps with no edge
traversed twice, starting with a step along +x. Eight steps are the fewest
that give two folds, which is the case the finding needs. Shorter walks cover
the size check, no intersection, and single folds.

### Fairness

`PointCloudFilter` assumes weak fairness of its loop's steps. The loop runs to
completion on one thread and never waits, so this is justified; it is what
lets the pointcloud_returns run report the hang. `TrajectoryExtension` checks
only safety; its steps are checked for deadlock instead. `ObstacleStop` has no
liveness property: a cycle is one step, and the planner node decides when
cycles happen.

## 4. Findings

1. **Hang in the point-cloud history loop (code bug).** Lines 567-569 and
   574-576 `continue` without `++itr`, and the `for` statement has no increment
   clause. An unexpired history entry whose point is no longer beside the
   trajectory is tested again forever, so `plan` never returns. This happens
   when the ego turns away from a recently seen point-cloud obstacle with
   `use_pointcloud` on. Spec 4.1 says such entries are aged out.
2. **Buffer bypass inverted (spec/code divergence).** Line 887 returns
   directly when `velocity >= max_negative_velocity`. The spec says only fast
   oncoming obstacles skip the buffer.
3. **Opposing margin above `stop_margin` when T_coast = 0 (spec/code
   divergence).** The code's margin is the bumper-to-bumper distance minus the
   braking distance. For a stopped ego and an oncoming car 8 m ahead this is
   8 m, which contradicts the bound stated in spec section 8.
4. **Per-label reduction before margins (spec gap).** A standing car 8 m ahead
   hides an oncoming car 12 m ahead. The oncoming car's margin would stop the
   ego where it stands, but the ego is planned to stop 3 m further on.

5. **Crossing objects tested before they arrive (spec/code divergence).**
   `is_crossing_transient_obstacle` predicts the object's pose at the time to
   reach the collision point minus `crossing_obstacle_collision_time_margin`
   (lines 785-790). The object is dropped if that pose misses the polygon. A
   pedestrian still approaching the path at that earlier time is dropped,
   although it is on the path when the ego arrives.
6. **Curve margin above the default (spec/code divergence).** Line 1320
   returns `min_stop_margin_on_curve` when no straight segment reaches the
   obstacle. This skips the final `std::min` with `default_stop_margin`. A
   terminal or opposing margin below the minimum is therefore raised, not
   shrunk as spec 4.4 says.
7. **Self-intersection found at a later fold (code bug).** In
   `get_first_self_intersection_arc_length` (`src/unnamed/part_002`, line
   425) every segment that meets a later one overwrites
   `first_self_intersection_index`. The function returns only when the outer
   loop reaches that index. Take the walk (0,0) (1,0) (1,-1) (2,-1) (2,0) (1,0)
   (1,1) (2,1) (2,0). It returns to (1,0) at arc length 5 and to (2,0) at arc
   length 8. Segment 4 meets segment 8 and is scanned before segment 5 is
   reached, so the function returns 8 and the drivable area is cut after the
   first fold.

The `nearest` and `opposing_margin` properties quantify over the inputs of the
next cycle, applying `Cycle` to the current state. TLC therefore reports them
violated in the initial state, that is, in the first call of `plan`. The inputs
that violate them are the ones given in the findings above.

## 5. Not modelled

Modelled:
- the decision core, the hysteresis and consistency across cycles, the hold,
  the buffer bypass, the point-cloud cluster conversion and history loop;
- the abstract hysteresis specification and its refinement;
- the geometric gates of the predicted-object filter;
- the trajectory extension;
- the curve margin;
- the self-intersection search of the path generator.

Each run asks one question, and the runs are kept few. The curve margin's
former pass run is gone, because its two properties only restated the final
clamp. `curve_shrinks` still checks that function.

Not modelled, and why:

- **Point-cloud obstacles in `plan_stop`.** `PointCloudFilter` ends at the list
  it returns. In `plan_stop` these obstacles all carry the label `UNKNOWN`,
  velocity 0 and the same empty uuid. They meet predicted objects only in the
  per-label reduction, which `ObstacleStop` already models for labels. A
  history entry the ego has passed is re-used without the ahead check that
  fresh points get (the hazard at line 578). Its distance becomes a stop at or
  behind the ego, the same stop a close obstacle ahead gives. No property
  tells the two apart without the point-cloud distances in `ObstacleStop`.
- **Path generator.** The route walks, `get_waypoint_groups`, the arc-length
  projections between centerline, path and bounds, cropping, goal connection
  and turn signals are not modelled. They convert between lanelet2 and boost
  geometry types, whose behaviour is in those libraries, not in this
  repository.
- **`decimate_trajectory_points_from_ego` and resampling.** These call
  `findFirstNearestSegmentIndexWithSoftConstraints` and `resampleTrajectory`
  of motion_utils, which is not in this repository. The extension they feed is
  modelled (`TrajectoryExtension`).
- **The curve margin inside `ObstacleStop`.** `enable_approaching_on_curve` is
  off in `ObstacleStop`. `CurveMargin` checks the function on its own, because
  its input is a polygon distance profile that the one-dimensional track of
  `ObstacleStop` does not carry.
- **`calc_collision_time_margin`.** Nothing in the repository calls it.
- **Reverse driving.** Reverse driving (`is_driving_forward` false, negative
  ego velocity) is not modelled. The relative-velocity guard at line 948 is
  reached only when the ego reverses.

Left out for good:
- two-dimensional polygon geometry. `ObstacleClassifier` keeps its decisions
  on a lateral band; the polygon caches are cleared every cycle.
- debug and marker publishing;
- the changelogs, CMake, CI and the schema.
