------------------------- MODULE TrajectoryExtension -------------------------
(***************************************************************************)
(* utils::get_extended_trajectory_points (utils.cpp), as called by        *)
(* decimate_trajectory_points_from_ego on the resampled trajectory and by  *)
(* convert_point_cloud_to_stop_points on the raw one: points are appended  *)
(* beyond the goal every step_length while the accumulated length stays    *)
(* within extend_distance - step_length, then one at extend_distance.    *)
(*                                                                         *)
(* A trajectory is the sequence of the arc lengths of its points along its *)
(* driving direction; an extension point is the goal offset by extend_sum *)
(* (calc_offset_pose).  Lengths are integers in one unit.  The loop test  *)
(* compares doubles: extend_sum is a sum of rounded step_lengths, so when  *)
(* it equals extend_distance - step_length exactly over the reals either  *)
(* answer is one the build can produce.                                   *)
(***************************************************************************)
EXTENDS Integers, Sequences

CONSTANTS
  Trajs,    \* the input trajectories (non-empty sequences of arc lengths)
  Dists,    \* extend_distance values
  Steps,    \* step_length values
  MaxPush   \* bound on the points one call appends in the model

ASSUME \A t \in Trajs : Len(t) >= 1
ASSUME MaxPush \in Nat /\ \A s \in Steps : s > 0

VARIABLES
  pc,      \* "done" between calls, "loop" inside the while loop
  raw,     \* the input trajectory
  out,     \* output_points
  dist,    \* extend_distance
  step,    \* step_length
  sum      \* extend_sum

vars == <<pc, raw, out, dist, step, sum>>

Goal == raw[Len(raw)]

\* The loop test extend_sum <= extend_distance - step_length in doubles:
\* the values it may take.
LoopTest(s, d, st) ==
  IF s = d - st THEN BOOLEAN ELSE {s <= d - st}

Init ==
  /\ pc = "done"
  /\ raw = << 0 >> /\ out = << 0 >>
  /\ dist = 0 /\ step = 0 /\ sum = 0

\* Entry: copy the input; an extend_distance below the machine epsilon
\* returns it as is (every length is an integer, so that is <= 0).
Begin ==
  /\ pc = "done"
  /\ \E t \in Trajs, d \in Dists, s \in Steps :
       /\ raw' = t /\ out' = t /\ dist' = d /\ step' = s /\ sum' = 0
       /\ pc' = IF d <= 0 THEN "done" ELSE "loop"

\* Mutant: the offset is taken backwards from the goal.
ExtendBackward ==
  /\ pc = "loop"
  /\ TRUE \in LoopTest(sum, dist, step)
  /\ Len(out) < Len(raw) + MaxPush
  /\ out' = Append(out, Goal - sum)
  /\ sum' = sum - step
  /\ UNCHANGED <<pc, raw, dist, step>>

\* One iteration: append the goal offset by extend_sum, then advance it.
Extend ==
  /\ pc = "loop"
  /\ TRUE \in LoopTest(sum, dist, step)
  /\ Len(out) < Len(raw) + MaxPush
  /\ out' = Append(out, Goal + sum)
  /\ sum' = sum + step
  /\ UNCHANGED <<pc, raw, dist, step>>

\* Mutant: the last point is placed at extend_sum.
FinishAtSum ==
  /\ pc = "loop"
  /\ FALSE \in LoopTest(sum, dist, step)
  /\ out' = Append(out, Goal + sum)
  /\ pc' = "done"
  /\ UNCHANGED <<raw, dist, step, sum>>

\* Loop exit: append the point at extend_distance and return.
Finish ==
  /\ pc = "loop"
  /\ FALSE \in LoopTest(sum, dist, step)
  /\ out' = Append(out, Goal + dist)
  /\ pc' = "done"
  /\ UNCHANGED <<raw, dist, step, sum>>

Next == Begin \/ Extend \/ Finish

Spec == Init /\ [][Next]_vars

-----------------------------------------------------------------------------

TypeOK ==
  /\ pc \in {"done", "loop"}
  /\ raw \in Trajs \cup {<< 0 >>}
  /\ out \in Seq(Int)
  /\ Len(out) <= Len(raw) + MaxPush + 1
  /\ sum \in Nat

\* The extension the loop computes over the reals: the goal offset by
\* 0, step, 2 step, ... up to extend_distance - step, then by
\* extend_distance.  The rounded loop test may leave out the last
\* regular point when it falls exactly on extend_distance - step.
RefExtension(g, d, s) ==
  LET n == IF d < s THEN 0 ELSE (d - s) \div s + 1
      regular(k) == [i \in 1..k |-> g + (i - 1) * s]
  IN  {regular(n) \o << g + d >>}
      \cup (IF n > 0 /\ (n - 1) * s = d - s
              THEN {regular(n - 1) \o << g + d >>} ELSE {})

\* A call of get_extended_trajectory_points returns the input, followed,
\* for a positive extend_distance, by the reference extension: the goal is extended to exactly
\* extend_distance, with points no further apart than step_length except
\* where the rounding of the loop test drops one.
ExtensionMatchesReference ==
  pc = "done" =>
    \E e \in IF dist <= 0 THEN {<< >>} ELSE RefExtension(Goal, dist, step) :
      out = raw \o e

=============================================================================
