------------------------ MODULE MCTrajectoryExtension ------------------------
(* Model-checking instance of TrajectoryExtension: a one-point and a      *)
(* three-point trajectory, extension lengths that are, and are not,       *)
(* multiples of the step, and the early return.                           *)
EXTENDS TrajectoryExtension

MCTrajs == {<< 0 >>, << 0, 2, 5 >>, << 1, 4 >>}

=============================================================================
