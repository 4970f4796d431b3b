---------------------------- MODULE ObstacleStop ----------------------------
(***************************************************************************)
(* The obstacle-stop module of the motion velocity planner                  *)
(* (obstacle_stop_module.cpp).  One Plan step is one call of               *)
(* ObstacleStopModule::plan for predicted objects: the per-object filter   *)
(* with the fixed-stop hysteresis, the cross-cycle consistency pass, the   *)
(* closest-per-label reduction, the stop margin, the sudden-stop           *)
(* suppression, the hold of the previous stop and the path-length buffer.  *)
(*                                                                         *)
(* Geometry is abstracted: a track is one-dimensional, an object's         *)
(* geometric outcome against the swept trajectory polygons is an input     *)
(* (geo, crossing), and every distance is an integer arc length in metres  *)
(* measured from the ego's nearest segment (dist) or from the front of the *)
(* reference trajectory (stop distances).  Time is counted in cycles and   *)
(* only its elapsed amount is kept (ages), saturated at the thresholds.    *)
(***************************************************************************)
EXTENDS Integers, Sequences, SequencesExt, FiniteSets

CONSTANTS
  Obj,            \* uuids of the predicted objects
  Inputs,         \* object -> the observations a cycle may present of it
  ObjOrder,       \* the order in which perception lists them
  Labels,         \* classification labels that occur
  InsideTypes,    \* obstacle_filtering.object_type.inside
  OutsideTypes,   \* obstacle_filtering.object_type.outside (cut-in check)
  Vels,           \* longitudinal velocities relative to the trajectory
  Dists,          \* dist_to_collide_on_decimated_traj values
  EgoVels,        \* ego velocities
  MaxShift,       \* how far the trajectory front moves in one cycle
  MaxLag,         \* bound on the front movement since the stored stop
  BehaviorStops,  \* arc lengths of zero-velocity points inserted upstream
  UseRssStop,     \* rss_params.use_rss_stop
  RssDecel,       \* label -> deceleration of calc_braking_dist (negative)
  RssVelOffset,   \* rss_params.velocity_offset
  EnterFixedStop, \* obstacle_velocity_threshold_enter_fixed_stop
  ExitFixedStop,  \* obstacle_velocity_threshold_exit_fixed_stop
  HoldTicks,      \* stop_obstacle_hold_time_threshold, in cycles
  StopMargin, TerminalStopMargin, MinBehaviorStopMargin,
  StopMarginOpposing,   \* stop_margin_opposing_traffic
  EffDecelOpposing,     \* effective_deceleration_opposing_traffic (> 0)
  MaxNegativeVelocity,  \* max_negative_velocity
  EgoArc,         \* arc length from the trajectory front to the ego
  RefTrajLen,     \* arc length of the reference trajectory
  LimitMaxAccel, LimitMinAccel,  \* common_param limits
  SuddenTypes,    \* labels whose stop parameter type is not "default"
  SuddenAccTh, SuddenDistTh, AbandonToStop, SuddenLimitMinAcc,
  HoldStopVelTh, HoldStopDistTh,
  UpdateDistTh, MinOnTicks, MinOffTicks,  \* path-length buffer
  Absent, NoStop, NoBraking

ASSUME EnterFixedStop < ExitFixedStop
ASSUME HoldTicks \in Nat \ {0} /\ EffDecelOpposing > 0
ASSUME ObjOrder \in Seq(Obj) /\ ToSet(ObjOrder) = Obj

VARIABLES
  prevStop,       \* prev_stop_obstacles_
  prevClosest,    \* prev_closest_stop_obstacles_
  prevStopDist,   \* prev_stop_distance_info_: the distance on the stored
                  \* trajectory, and how far the trajectory front has moved
                  \* since that trajectory was stored (lag)
  buffer,         \* path_length_buffer_ items
  ignoreCrossing, \* ignore_crossing_obstacle_
  suppressSudden, \* suppress_sudden_stop_
  out,            \* the stop point plan returned (NoStop or arc length)
  sincePick       \* history variable: object -> time since the filter last
                  \* picked it (saturated at the hold time)

vars == <<prevStop, prevClosest, prevStopDist, buffer, ignoreCrossing,
          suppressSudden, out, sincePick>>

MinOf(a, b) == IF a < b THEN a ELSE b
MaxOf(a, b) == IF a > b THEN a ELSE b
Abs(a) == IF a < 0 THEN -a ELSE a

\* Outcome of the geometric tests of one object: outside the lateral
\* margin or behind the ego ("far"), collision with the margin-expanded
\* polygon ("inside"), only the cut-in hull collides ("cutin"), none.
Geo == {"far", "inside", "cutin", "miss"}

InputType == [label: Labels, lonVel: Vels, twistX: Vels, dist: Dists,
          geo: Geo, crossing: BOOLEAN]

ASSUME DOMAIN Inputs = Obj /\ \A o \in Obj : Inputs[o] \subseteq InputType

StopObstacle == [uuid: Obj, label: Labels, vel: Vels, dist: Dists,
                 braking: Nat \cup {NoBraking}, age: 0..HoldTicks]

Brk(s) == IF s.braking = NoBraking THEN 0 ELSE s.braking

-----------------------------------------------------------------------------
(* Helpers of the anonymous namespace.                                     *)

\* calc_minimum_distance_to_stop
MinDistToStop(v, maxAcc, minAcc) ==
  IF v < 0 THEN -((v * v) \div (2 * maxAcc)) ELSE (v * v) \div (-2 * minAcc)

\* calc_braking_dist
BrakingDist(label, lonVel) ==
  LET e == MaxOf(lonVel + RssVelOffset, 0)
  IN  (e * e) \div (-2 * RssDecel[label])

-----------------------------------------------------------------------------
(* Filtering of predicted objects.                                         *)

\* Mutant: both branches compare against the exit threshold.
RequiresFixedStopExitOnly(o, lonVel, prev) ==
  LET i == SelectInSeq(prev, LAMBDA s : s.uuid = o)
  IN  IF i # 0 /\ prev[i].braking = NoBraking
        THEN ~(ExitFixedStop < lonVel)
        ELSE lonVel < ExitFixedStop

\* is_obstacle_velocity_requiring_fixed_stop
RequiresFixedStop(o, lonVel, prev) ==
  LET i == SelectInSeq(prev, LAMBDA s : s.uuid = o)
  IN  IF i # 0 /\ prev[i].braking = NoBraking
        THEN ~(ExitFixedStop < lonVel)
        ELSE lonVel < EnterFixedStop

\* filter_stop_obstacle_for_predicted_object's loop body together with
\* pick_stop_obstacle_from_predicted_object; <<>> or <<stop obstacle>>.
Pick(o, x, prev, ignX) ==
  LET hit == x.geo = "inside" \/ (x.geo = "cutin" /\ x.label \in OutsideTypes)
      so  == [uuid |-> o, label |-> x.label, vel |-> x.lonVel,
              dist |-> x.dist, braking |-> NoBraking, age |-> 0]
  IN  IF x = Absent \/ x.geo = "far" \/ x.label \notin InsideTypes
         \/ ~hit \/ (ignX /\ x.crossing)
        THEN << >>
      ELSE IF RequiresFixedStop(o, x.lonVel, prev) THEN << so >>
      ELSE IF UseRssStop
        THEN << [so EXCEPT !.braking = BrakingDist(x.label, x.lonVel)] >>
      ELSE << >>

\* get_closest_stop_obstacles: per label the one of least dist + braking.
GetClosest(list) ==
  LET Closer(cs, s) ==
        LET i == SelectInSeq(cs, LAMBDA c : c.label = s.label)
        IN  IF i = 0 THEN Append(cs, s)
            ELSE IF s.dist + Brk(s) < cs[i].dist + Brk(cs[i])
              THEN [cs EXCEPT ![i] = s] ELSE cs
  IN  FoldLeft(Closer, << >>, list)

\* Mutant: the re-added obstacle is stamped afresh.
ReadmittedRefresh(list, objs, closest) ==
  LET r == SelectSeq(closest, LAMBDA p :
             /\ objs[p.uuid] # Absent
             /\ \A i \in 1..Len(list) : list[i].uuid # p.uuid
             /\ objs[p.uuid].twistX < EnterFixedStop
             /\ p.age < HoldTicks)
  IN  [i \in DOMAIN r |-> [r[i] EXCEPT !.age = 0]]

\* check_consistency: re-add a previous closest obstacle that is still
\* perceived, missing from this cycle's list, slow and recent.
Readmitted(list, objs, closest) ==
  SelectSeq(closest, LAMBDA p :
      /\ objs[p.uuid] # Absent
      /\ \A i \in 1..Len(list) : list[i].uuid # p.uuid
      /\ objs[p.uuid].twistX < EnterFixedStop
      /\ p.age < HoldTicks)

\* filter_stop_obstacle_for_predicted_object: the picks in perception
\* order followed by the obstacles check_consistency re-adds.
Picked(objs, prev, ignX) ==
  FoldLeft(LAMBDA acc, o : acc \o Pick(o, objs[o], prev, ignX), << >>, ObjOrder)

FilterStopObstacles(objs, prev, closest, ignX) ==
  LET picked == Picked(objs, prev, ignX)
  IN  picked \o Readmitted(picked, objs, closest)

Aged(list, dt) == [i \in DOMAIN list |->
                     [list[i] EXCEPT !.age = MinOf(@ + dt, HoldTicks)]]

-----------------------------------------------------------------------------
(* Stop planning.                                                          *)

\* Numerator (times 2 a_ego) of T_coast in calc_desired_stop_margin.
CoastNum(vEgo, vObs, b2b) ==
  2 * EffDecelOpposing * (b2b - StopMarginOpposing) - vEgo * vEgo
    + 2 * Abs(vObs) * vEgo

\* The opposing-traffic default margin, evaluated over the rationals and
\* rounded down once at the end.
OpposingMargin(vEgo, vObs, b2b) ==
  LET rel == vEgo - vObs
      den == 2 * EffDecelOpposing * rel
  IN  IF Abs(rel) = 0 THEN StopMargin
      ELSE (den * b2b - vEgo * MaxOf(CoastNum(vEgo, vObs, b2b), 0)
              - vEgo * vEgo * rel) \div den

\* The default margin of calc_desired_stop_margin.
DefaultStopMargin(s, collide, vEgo) ==
  IF s.vel < MaxNegativeVelocity THEN OpposingMargin(vEgo, s.vel, s.dist)
  ELSE IF collide > RefTrajLen THEN TerminalStopMargin
  ELSE StopMargin

\* calc_desired_stop_margin's deference to a behaviour stop point just
\* ahead of the obstacle stop point.
BehaviorStopMargin(margin, collide, bs) ==
  IF bs # NoStop /\ 0 < bs - (collide - margin) /\ bs - (collide - margin) < margin
    THEN MinBehaviorStopMargin ELSE margin

\* calc_desired_stop_margin (enable_approaching_on_curve = false, so the
\* margin on curve is the default margin).
DesiredStopMargin(s, collide, vEgo, bs) ==
  BehaviorStopMargin(DefaultStopMargin(s, collide, vEgo), collide, bs)

\* The acceptable deceleration of calc_candidate_zero_vel_dist; NoStop
\* when the policy abandons the stop.
AcceptableStopAcc(l, c, vEgo) ==
  IF l \notin SuddenTypes THEN LimitMinAccel
  ELSE IF c > MinOf(MinDistToStop(vEgo, LimitMaxAccel, SuddenAccTh[l]), SuddenDistTh[l])
    THEN LimitMinAccel
  ELSE IF AbandonToStop[l] THEN NoStop
  ELSE SuddenLimitMinAcc[l]

\* The stop is moved no nearer than what acc allows.
AcceptableStopPos(c, vEgo, acc) ==
  IF acc = NoStop THEN NoStop
  ELSE MaxOf(c, EgoArc + MinDistToStop(vEgo, LimitMaxAccel, acc))

SuppressSuddenStop(l, c, vEgo, suppress) ==
  IF suppress THEN AcceptableStopPos(c, vEgo, AcceptableStopAcc(l, c, vEgo)) ELSE c

\* calc_candidate_zero_vel_dist
CandidateZeroVelDist(s, collide, margin, vEgo, suppress) ==
  SuppressSuddenStop(s.label, MaxOf(0, collide - margin), vEgo, suppress)

CandidateWith(s, collide, margin, vEgo, suppress) ==
  [zero |-> CandidateZeroVelDist(s, collide, margin, vEgo, suppress),
   obs |-> s, margin |-> margin]

CandidateAt(s, collide, vEgo, bs, suppress) ==
  CandidateWith(s, collide, DesiredStopMargin(s, collide, vEgo, bs), vEgo, suppress)

\* The body of plan_stop's loop for one obstacle: its desired margin and
\* candidate zero-velocity distance (NoStop when it is abandoned).
StopCandidate(s, vEgo, bs, suppress) ==
  CandidateAt(s, EgoArc + s.dist + Brk(s), vEgo, bs, suppress)

\* The comparison in plan_stop's loop: keep the determined stop acc or
\* take the candidate c.
SelectCandidate(acc, c) ==
  IF c.zero = NoStop THEN acc
  ELSE IF acc # NoStop
          /\ \/ c.obs.label = acc.obs.label
                /\ c.obs.dist + c.obs.dist > acc.obs.dist + Brk(acc.obs)
             \/ c.obs.label # acc.obs.label /\ c.zero > acc.zero
    THEN acc
  ELSE c

\* The loop of plan_stop over the closest obstacles; NoStop or the
\* determined [zero, obs, margin].
Determine(closest, vEgo, bs, suppress) ==
  FoldLeft(LAMBDA acc, s : SelectCandidate(acc, StopCandidate(s, vEgo, bs, suppress)),
           NoStop, closest)

\* prev_stop_distance_info_ reprojected on the current trajectory: the
\* stored distance less the arc length from the stored trajectory's front
\* to the current front.
Reprojected(prevDist, shift) == prevDist.dist - (prevDist.lag + shift)

\* hold_previous_stop_if_necessary
HoldPrevious(zero, vEgo, shift, prevDist) ==
  IF Abs(vEgo) < HoldStopVelTh /\ prevDist # NoStop
     /\ Abs(Reprojected(prevDist, shift) - zero) < HoldStopDistTh
    THEN Reprojected(prevDist, shift) ELSE zero

\* Mutant: no check against the end of the trajectory.
InsertedNoEnd(zero) == 0 <= zero

\* insertStopPoint succeeds inside the trajectory only.
Inserted(zero) == 0 <= zero /\ zero <= RefTrajLen

\* Mutant: the determined distance is stored before the hold is applied.
StoredStopDistUnheld(held, zero, prevDist, shift) ==
  IF Inserted(held) THEN [dist |-> zero, lag |-> 0]
  ELSE IF prevDist = NoStop THEN NoStop
  ELSE [prevDist EXCEPT !.lag = @ + shift]

\* calc_stop_point's update of prev_stop_distance_info_: the output
\* trajectory and the held distance when the stop point is inserted;
\* otherwise the older pair stays, its trajectory one cycle further behind.
StoredStopDist(held, zero, prevDist, shift) ==
  IF Inserted(held) THEN [dist |-> held, lag |-> 0]
  ELSE IF prevDist = NoStop THEN NoStop
  ELSE [prevDist EXCEPT !.lag = @ + shift]

-----------------------------------------------------------------------------
(* PathLengthBuffer (update_buffer / get_nearest_active_item), whose code   *)
(* is not in this repository: items keyed by stop position, active once   *)
(* they have existed MinOnTicks, dropped after MinOffTicks without update.  *)

Tick(buf, dt) == {[i EXCEPT !.age = MinOf(@ + dt, MinOnTicks),
                            !.idle = MinOf(@ + dt, MinOffTicks)] : i \in buf}

UpdateBuffer(buf, stop) ==
  LET near == {i \in buf : Abs(i.pos - stop) < UpdateDistTh}
      upd  == IF stop = NoStop THEN buf
              ELSE IF near = {} THEN buf \cup {[pos |-> stop, age |-> 0, idle |-> 0]}
              ELSE (buf \ near) \cup {[i EXCEPT !.pos = stop, !.idle = 0] : i \in near}
  IN  {i \in upd : i.idle < MinOffTicks}

NearestActive(buf) ==
  LET act == {i.pos : i \in {j \in buf : j.age >= MinOnTicks}}
  IN  IF act = {} THEN NoStop ELSE Min(act)

-----------------------------------------------------------------------------

\* The end of plan_stop once a stop d is determined: hold, insertion,
\* and the output directly or through the buffer.
StopOutcome(st, x, stops, closest, d, held) ==
  LET stop   == IF Inserted(held) THEN held ELSE NoStop
      direct == d.obs.vel >= MaxNegativeVelocity
      buf    == IF direct THEN Tick(st.buffer, x.dt)
                ELSE UpdateBuffer(Tick(st.buffer, x.dt), stop)
  IN  [prevStop |-> stops, prevClosest |-> closest,
       prevStopDist |-> StoredStopDist(held, d.zero, st.prevStopDist, x.shift),
       buffer |-> buf,
       ignoreCrossing |-> st.ignoreCrossing, suppressSudden |-> st.suppressSudden,
       out |-> IF direct THEN stop ELSE NearestActive(buf),
       det |-> d]

\* plan_stop on the filtered obstacles with the determined stop d: the
\* result holds the next module state and d.
PlanStop(st, x, stops, closest, d) ==
  IF d = NoStop
    THEN [prevStop |-> stops, prevClosest |-> closest, prevStopDist |-> NoStop,
          buffer |-> Tick(st.buffer, x.dt),
          ignoreCrossing |-> st.ignoreCrossing, suppressSudden |-> st.suppressSudden,
          out |-> NoStop, det |-> NoStop]
    ELSE StopOutcome(st, x, stops, closest, d,
                     HoldPrevious(d.zero, x.vEgo, x.shift, st.prevStopDist))

CycleOn(st, x, stops, closest) ==
  PlanStop(st, x, stops, closest,
           IF stops = << >> THEN NoStop
           ELSE Determine(closest, x.vEgo, x.bs, st.suppressSudden))

\* One call of ObstacleStopModule::plan with point clouds off, from the
\* module state st on the cycle inputs x: the filter of predicted objects
\* with check_consistency, then plan_stop.
Cycle(st, x) ==
  LET stops == FilterStopObstacles(x.objs, Aged(st.prevStop, x.dt),
                                   Aged(st.prevClosest, x.dt), st.ignoreCrossing)
  IN  CycleOn(st, x, stops, GetClosest(stops))

\* The cycle inputs: perceived objects, ego velocity, how far the
\* trajectory front moved, elapsed cycles, an upstream zero-velocity point.
CycleInput ==
  {x \in [objs: {f \in [Obj -> UNION Range(Inputs) \cup {Absent}] :
                   \A o \in Obj : f[o] \in Inputs[o] \cup {Absent}},
          vEgo: EgoVels, shift: 0..MaxShift, dt: {0, 1},
          bs: BehaviorStops \cup {NoStop}] : x.shift <= x.dt * MaxShift}

State == [prevStop |-> prevStop, prevClosest |-> prevClosest,
          prevStopDist |-> prevStopDist, buffer |-> buffer,
          ignoreCrossing |-> ignoreCrossing, suppressSudden |-> suppressSudden,
          out |-> out]

Init ==
  /\ prevStop = << >>
  /\ prevClosest = << >>
  /\ prevStopDist = NoStop
  /\ buffer = {}
  /\ sincePick = [o \in Obj |-> HoldTicks]
  /\ ignoreCrossing \in BOOLEAN
  /\ suppressSudden \in BOOLEAN
  /\ out = NoStop

\* ObstacleStopModule::plan
Plan ==
  \E x \in CycleInput :
    LET n == Cycle(State, x)
        p == Picked(x.objs, Aged(prevStop, x.dt), ignoreCrossing)
    IN  /\ IF prevStopDist = NoStop THEN TRUE ELSE prevStopDist.lag + x.shift <= MaxLag
        /\ prevStop' = n.prevStop
        /\ prevClosest' = n.prevClosest
        /\ prevStopDist' = n.prevStopDist
        /\ buffer' = n.buffer
        /\ out' = n.out
        /\ sincePick' = [o \in Obj |-> IF \E i \in DOMAIN p : p[i].uuid = o THEN 0
                                       ELSE MinOf(sincePick[o] + x.dt, HoldTicks)]
        /\ UNCHANGED <<ignoreCrossing, suppressSudden>>

\* ObstacleStopModule::update_parameters
UpdateParameters ==
  \E ic, ss \in BOOLEAN :
    /\ ignoreCrossing' = ic
    /\ suppressSudden' = ss
    /\ UNCHANGED <<prevStop, prevClosest, prevStopDist, buffer, out, sincePick>>

Next == Plan \/ UpdateParameters

Spec == Init /\ [][Next]_vars

-----------------------------------------------------------------------------
(* Properties.                                                             *)

BufferItem == [pos: 0..RefTrajLen, age: 0..MinOnTicks, idle: 0..MinOffTicks]

TypeOK ==
  /\ prevStop \in Seq(StopObstacle)
  /\ prevClosest \in Seq(StopObstacle)
  /\ prevStopDist \in [dist: 0..RefTrajLen, lag: 0..MaxLag] \cup {NoStop}
  /\ sincePick \in [Obj -> 0..HoldTicks]
  /\ buffer \subseteq BufferItem
  /\ ignoreCrossing \in BOOLEAN /\ suppressSudden \in BOOLEAN
  /\ out \in 0..RefTrajLen \cup {NoStop}

\* check_consistency re-adds the previous closest obstacle, and the
\* re-added copy becomes a previous closest obstacle again.  Because the
\* copy keeps the stamp of the cycle that picked it, however many cycles it
\* is carried over, every stop obstacle prev_stop_obstacles_ holds was
\* picked by the filter less than the hold time ago.
StaleObstacleExpires ==
  \A i \in DOMAIN prevStop : sincePick[prevStop[i].uuid] < HoldTicks

\* The stop policy prev_stop_obstacles_ records for object o.
StopMode(o) ==
  LET i == SelectInSeq(prevStop, LAMBDA s : s.uuid = o)
  IN  IF i = 0 THEN "none"
      ELSE IF prevStop[i].braking = NoBraking THEN "fixed" ELSE "rss"

StopVel(o) ==
  LET i == SelectInSeq(prevStop, LAMBDA s : s.uuid = o)
  IN  IF i = 0 THEN Absent ELSE prevStop[i].vel

Hysteresis == INSTANCE FixedStopHysteresis
                WITH mode <- [o \in Obj |-> StopMode(o)],
                     vel <- [o \in Obj |-> StopVel(o)],
                     NoVel <- Absent

\* The fixed-stop hysteresis of is_obstacle_velocity_requiring_fixed_stop,
\* through check_consistency's re-admissions and update_parameters: the
\* stop policy of every object, as prev_stop_obstacles_ records it from
\* cycle to cycle, behaves as FixedStopHysteresis allows (enter below the
\* enter threshold, leave for RSS only above the exit threshold).
HysteresisRefined == Hysteresis!Spec

\* plan is idempotent: called again at once with the same objects, ego
\* state and trajectory (no time elapsed, the trajectory front unmoved),
\* it returns the same stop point, whatever it stored the first time.
Idempotent ==
  \A x \in CycleInput :
    LET n == Cycle(State, x)
    IN  Cycle(n, [x EXCEPT !.dt = 0, !.shift = 0]).out = n.out


\* Safety of the stop decision: the ego stops before every obstacle that
\* needs a stop.  The stop plan_stop determines is no farther than the
\* stop that any obstacle it was given would need on its own.  The
\* per-label reduction of get_closest_stop_obstacles, which the spec
\* prescribes (4.2, 4.5), decides which obstacles plan_stop compares.
NearestRequiredStopChosen ==
  \A x \in CycleInput :
    LET n == Cycle(State, x)
    IN  n.det # NoStop =>
          \A i \in DOMAIN n.prevStop :
            LET z == StopCandidate(n.prevStop[i], x.vEgo, x.bs, suppressSudden).zero
            IN  z = NoStop \/ n.det.zero <= z

\* Spec 8: for an oncoming obstacle, when the coasting time T_coast of
\* calc_desired_stop_margin is 0, the margin is at most stop_margin.
OpposingMarginBounded ==
  \A x \in CycleInput :
    LET n == Cycle(State, x)
    IN  /\ n.det # NoStop
        /\ x.bs = NoStop
        /\ n.det.obs.vel < MaxNegativeVelocity
        /\ CoastNum(x.vEgo, n.det.obs.vel, n.det.obs.dist) <= 0
        => n.det.margin <= StopMargin

\* Spec 4.5 steps 8-9: only a stop for a fast oncoming obstacle (velocity
\* below max_negative_velocity) bypasses the path-length buffer.  A stop
\* point plan returns for any other obstacle is an active item of the
\* buffer.
StopDebounced ==
  \A x \in CycleInput :
    LET n == Cycle(State, x)
    IN  /\ n.out # NoStop
        /\ n.det # NoStop
        /\ n.det.obs.vel >= MaxNegativeVelocity
        => \E i \in n.buffer : i.pos = n.out /\ i.age >= MinOnTicks

=============================================================================
