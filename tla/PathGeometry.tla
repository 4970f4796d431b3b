---------------------------- MODULE PathGeometry ----------------------------
(***************************************************************************)
(* utils::get_first_self_intersection_arc_length of the path generator    *)
(* (src/unnamed/part_002), which get_first_intersection_arc_length calls   *)
(* on the cropped left and right bounds to find where the drivable area   *)
(* folds onto itself.                                                      *)
(*                                                                         *)
(* A line string is a walk on the integer grid with unit steps, as a       *)
(* sequence of points <<x, y>>.  Two unit segments of such a walk          *)
(* intersect only at a shared grid point, so boost::geometry::intersection *)
(* is a test for a shared endpoint, its first point is that endpoint, and  *)
(* every segment length is 1.  Walks that traverse an edge twice are not   *)
(* enumerated: boost returns two points for a collinear overlap, in an     *)
(* order the model does not fix.                                           *)
(***************************************************************************)
EXTENDS Integers, Sequences, SequencesExt

CONSTANTS
  Lines,   \* the line strings a call may receive
  None     \* std::nullopt

VARIABLES
  line,    \* the argument of the last call
  result   \* what it returned

vars == <<line, result>>

\* The loop's exclusion of segment j against the current segment i: it
\* starts where i ends, ends where i starts, or starts where i starts.
Skipped(l, i, j) == l[j] = l[i + 1] \/ l[j + 1] = l[i] \/ l[j] = l[i]

\* boost::geometry::intersection of the two unit segments is not empty.
Meets(l, i, j) == {l[i], l[i + 1]} \cap {l[j], l[j + 1]} # {}

\* (self_intersections.front() - segment.first).norm() on segment j.
Along(l, i, j) == IF l[j] \in {l[i], l[i + 1]} THEN 0 ELSE 1

\* The inner loop: the first later segment that is not skipped and meets
\* segment i, or 0.
FirstCrossing(l, i) ==
  SelectInSeq([k \in 1..Len(l) - 1 |-> k],
              LAMBDA j : j > i /\ ~Skipped(l, i, j) /\ Meets(l, i, j))

\* The outer loop over segment i, with s the length before segment i,
\* idx the recorded first_self_intersection_index (0 when none) and along
\* intersection_arc_length_on_latter_segment.  On reaching segment idx it
\* returns; every segment that meets a later one overwrites both.
RECURSIVE Scan(_, _, _, _, _)
Scan(l, i, s, idx, along) ==
  IF i > Len(l) - 1 THEN None
  ELSE IF idx # 0 /\ i = idx THEN s + along
  ELSE LET j == FirstCrossing(l, i)
       IN  IF j # 0
             THEN Scan(l, i + 1, s + 1, j, Along(l, i, j))
             ELSE Scan(l, i + 1, s + 1, idx, along)

\* get_first_self_intersection_arc_length
FirstSelfIntersectionArcLength(l) ==
  IF Len(l) < 3 THEN None ELSE Scan(l, 1, 0, 0, 0)

Init ==
  /\ line = None
  /\ result = None

\* One call with a cropped bound.
Call ==
  \E l \in Lines :
    /\ line' = l
    /\ result' = FirstSelfIntersectionArcLength(l)

Next == Call

Spec == Init /\ [][Next]_vars

-----------------------------------------------------------------------------

\* The reference: the arc length of the first point of the walk at which
\* it comes back to a point it passed before, not counting its first point
\* (whose return the code's exclusions leave out by design).
FirstReturn(l) ==
  LET k == SelectInSeq([n \in 1..Len(l) |-> n],
                       LAMBDA n : \E m \in 2..n - 2 : l[m] = l[n])
  IN  IF k = 0 THEN None ELSE k - 1

\* Spec (geometry utilities): the function detects the first
\* self-intersection of the bound, so that the drivable area is cut where
\* the bound first folds onto itself, never at a later fold.
SelfIntersectionIsFirst ==
  line # None => result = FirstReturn(line)

=============================================================================
