-------------------------- MODULE PointCloudFilter --------------------------
(***************************************************************************)
(* The point-cloud stop obstacle history of                               *)
(* ObstacleStopModule::filter_stop_obstacle_for_point_cloud               *)
(* (obstacle_stop_module.cpp).  A cycle creates one stop obstacle per      *)
(* clustered collision point, walks stop_pointcloud_obstacle_history_      *)
(* erasing expired entries and re-using those still beside the trajectory, *)
(* then appends this cycle's obstacles to the history.  The walk is        *)
(* modelled statement by statement: loc is the position in the loop body.  *)
(*                                                                         *)
(* A collision point is a model value; whether it passes the rough lateral *)
(* check (calcLateralOffset) and the precise one (get_dist_to_traj_poly)   *)
(* against this cycle's trajectory is an input, and so is its arc length   *)
(* ahead of the ego (calc_distance_to_front_object, negative when it is    *)
(* behind).  The clusters are sequences of points.  An entry's age is the  *)
(* odometry time elapsed since its point-cloud stamp, saturated at the     *)
(* hold threshold.                                                         *)
(***************************************************************************)
EXTENDS Integers, Sequences, SequencesExt, FiniteSets

CONSTANTS
  Points,      \* collision points the clustering may report
  Clusterings, \* get_cluster_indices results: sequences of clusters
  Offsets,     \* arc lengths from the ego to a point; negative is behind
  HoldTicks,   \* stop_obstacle_hold_time_threshold, in cycles
  MaxHistory   \* bound on the history length explored

ASSUME Clusterings \subseteq Seq(Seq(Points)) /\ Offsets \subseteq Int
ASSUME HoldTicks \in Nat \ {0} /\ MaxHistory \in Nat

VARIABLES
  history,  \* stop_pointcloud_obstacle_history_
  phase,    \* "idle" between calls, "loop" inside one
  loc,      \* "head", "lat" or "precise": position in the loop body
  itr,      \* the history iterator, an index
  cur,      \* this call's stop_obstacles
  past,     \* past_stop_obstacles
  rough,    \* points passing the rough lateral check this call
  precise,  \* points passing the precise lateral check this call
  out       \* the stop obstacles the last completed call returned

vars == <<history, phase, loc, itr, cur, past, rough, precise, out>>

Entry == [pt: Points, age: 0..HoldTicks]

MinOf(a, b) == IF a < b THEN a ELSE b

Aged(h, dt) == [i \in DOMAIN h |-> [h[i] EXCEPT !.age = MinOf(@ + dt, HoldTicks)]]

Init ==
  /\ history = << >>
  /\ phase = "idle" /\ loc = "head" /\ itr = 1
  /\ cur = << >> /\ past = << >>
  /\ rough = {} /\ precise = {}
  /\ out = << >>

\* A point of a cluster is a candidate when it passes the rough and then
\* the precise lateral check and lies ahead of the ego.
Candidate(p, r, q, d) == p \in r /\ p \in q /\ d[p] >= 0

\* The point a cluster reports: the candidate of least distance, the first
\* of equals (the update is taken on a strict <), or none.
ClusterStop(c, r, q, d) ==
  LET won(k) == /\ Candidate(c[k], r, q, d)
                /\ \A m \in 1..k - 1 : Candidate(c[m], r, q, d) => d[c[m]] > d[c[k]]
                /\ \A m \in k + 1..Len(c) : Candidate(c[m], r, q, d) => d[c[m]] >= d[c[k]]
  IN  SelectSeq(c, LAMBDA p : \E k \in DOMAIN c : c[k] = p /\ won(k))

\* convert_point_cloud_to_stop_points: one stop point per cluster that has
\* a candidate, in cluster order.
StopPoints(cl, r, q, d) == FlattenSeq([i \in DOMAIN cl |-> ClusterStop(cl[i], r, q, d)])

\* create_stop_obstacle_for_point_cloud, stamped with the point cloud.
NewObstacles(sp) == [i \in DOMAIN sp |-> [pt |-> sp[i], age |-> 0]]

\* Entry of the call: this cycle's stop obstacles from the clusters, and
\* the odometry clock advanced by dt.
Begin ==
  /\ phase = "idle"
  /\ \E dt \in {0, 1}, r \in SUBSET Points, cl \in Clusterings, d \in [Points -> Offsets] :
       \E q \in SUBSET r :
         /\ Len(history) + Len(StopPoints(cl, r, q, d)) <= MaxHistory
         /\ history' = Aged(history, dt)
         /\ cur' = NewObstacles(StopPoints(cl, r, q, d))
         /\ rough' = r /\ precise' = q
  /\ phase' = "loop" /\ loc' = "head" /\ itr' = 1 /\ past' = << >>
  /\ UNCHANGED out

\* Loop head: erase an entry whose elapsed time reached the threshold.
EraseExpired ==
  /\ phase = "loop" /\ loc = "head" /\ itr <= Len(history)
  /\ history[itr].age >= HoldTicks
  /\ history' = RemoveAt(history, itr)
  /\ UNCHANGED <<phase, loc, itr, cur, past, rough, precise, out>>

\* Loop head: a live entry goes on to the lateral checks.
CheckLateral ==
  /\ phase = "loop" /\ loc = "head" /\ itr <= Len(history)
  /\ history[itr].age < HoldTicks
  /\ loc' = "lat"
  /\ UNCHANGED <<history, phase, itr, cur, past, rough, precise, out>>

\* min_lat_dist_to_traj_poly >= max_lat_margin: continue, the iterator
\* not advanced.
SkipRough ==
  /\ phase = "loop" /\ loc = "lat"
  /\ history[itr].pt \notin rough
  /\ loc' = "head"
  /\ UNCHANGED <<history, phase, itr, cur, past, rough, precise, out>>

PassRough ==
  /\ phase = "loop" /\ loc = "lat"
  /\ history[itr].pt \in rough
  /\ loc' = "precise"
  /\ UNCHANGED <<history, phase, itr, cur, past, rough, precise, out>>

\* precise_min_lat_dist_to_traj_poly >= max_lat_margin: continue, the
\* iterator not advanced.
SkipPrecise ==
  /\ phase = "loop" /\ loc = "precise"
  /\ history[itr].pt \notin precise
  /\ loc' = "head"
  /\ UNCHANGED <<history, phase, itr, cur, past, rough, precise, out>>

\* The entry is re-used with its distance recomputed on this trajectory,
\* and the iterator advances.
KeepPast ==
  /\ phase = "loop" /\ loc = "precise"
  /\ history[itr].pt \in precise
  /\ past' = Append(past, history[itr])
  /\ itr' = itr + 1 /\ loc' = "head"
  /\ UNCHANGED <<history, phase, cur, rough, precise, out>>

\* Mutant: the call returns only this cycle's obstacles.
FinishDropsPast ==
  /\ phase = "loop" /\ loc = "head" /\ itr > Len(history)
  /\ history' = history \o cur
  /\ out' = cur
  /\ phase' = "idle"
  /\ UNCHANGED <<loc, itr, cur, past, rough, precise>>

\* Mutant: the history records the returned list, re-used entries again.
FinishRecordsPast ==
  /\ phase = "loop" /\ loc = "head" /\ itr > Len(history)
  /\ history' = history \o cur \o past
  /\ out' = cur \o past
  /\ phase' = "idle"
  /\ UNCHANGED <<loc, itr, cur, past, rough, precise>>

\* Loop exit: history := history ++ stop_obstacles, and the call returns
\* stop_obstacles ++ past_stop_obstacles.
Finish ==
  /\ phase = "loop" /\ loc = "head" /\ itr > Len(history)
  /\ history' = history \o cur
  /\ out' = cur \o past
  /\ phase' = "idle"
  /\ UNCHANGED <<loc, itr, cur, past, rough, precise>>

Loop == EraseExpired \/ CheckLateral \/ SkipRough \/ PassRough
        \/ SkipPrecise \/ KeepPast \/ Finish

Next == Begin \/ Loop

\* The loop runs to completion on one thread without waiting on anything,
\* so each of its steps is weakly fair.
Spec == Init /\ [][Next]_vars /\ WF_vars(Loop)

-----------------------------------------------------------------------------

TypeOK ==
  /\ history \in Seq(Entry) /\ Len(history) <= MaxHistory /\ cur \in Seq(Entry) /\ past \in Seq(Entry)
  /\ out \in Seq(Entry)
  /\ phase \in {"idle", "loop"} /\ loc \in {"head", "lat", "precise"}
  /\ itr \in 1..MaxHistory + 1
  /\ rough \subseteq Points /\ precise \subseteq rough

\* Spec 4.1: the history holds a point-cloud obstacle for the hold time so
\* that it is not lost to clustering noise: when a call returns, every
\* entry it kept from earlier calls is younger than the threshold and is
\* among the obstacles the call returned.
HistoryReturned ==
  phase = "idle" =>
    \A i \in 1..Len(history) - Len(cur) :
      /\ history[i].age < HoldTicks
      /\ \E j \in DOMAIN out : out[j] = history[i]

\* Spec 4.1: entries no longer within the lateral margin of the current
\* trajectory are aged out, so every call of the filter returns.
FilterReturns == [](phase = "loop" => <>(phase = "idle"))

=============================================================================
