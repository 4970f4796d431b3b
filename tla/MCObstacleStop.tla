--------------------------- MODULE MCObstacleStop ---------------------------
(* Model-checking instance of ObstacleStop: two objects, a car and a      *)
(* pedestrian label, one oncoming velocity, one near and one far distance.*)
EXTENDS ObstacleStop

CONSTANTS o1, o2

MCObjOrder == << o1, o2 >>
MCLabels == {"car", "ped"}

\* Observations: the object's twist equals its velocity along the
\* trajectory unless stated; one crossing, one turned, one oncoming object.
MCInputs ==
  o1 :> ({[label |-> "car", lonVel |-> v, twistX |-> v, dist |-> 12, geo |-> "inside",
           crossing |-> FALSE] : v \in {0, 3, 5}}
         \cup
         {[label |-> "car", lonVel |-> 0, twistX |-> 0, dist |-> 4, geo |-> "inside", crossing |-> FALSE],
          [label |-> "car", lonVel |-> 0, twistX |-> 5, dist |-> 4, geo |-> "inside", crossing |-> FALSE],
          [label |-> "car", lonVel |-> 3, twistX |-> 3, dist |-> 12, geo |-> "inside", crossing |-> TRUE],
          [label |-> "car", lonVel |-> 0, twistX |-> 0, dist |-> 12, geo |-> "cutin", crossing |-> FALSE],
          [label |-> "car", lonVel |-> 0, twistX |-> 0, dist |-> 4, geo |-> "far", crossing |-> FALSE]})
  @@
  o2 :> {[label |-> "ped", lonVel |-> 0, twistX |-> 0, dist |-> 4, geo |-> "inside", crossing |-> FALSE],
         [label |-> "car", lonVel |-> -3, twistX |-> -3, dist |-> 12, geo |-> "inside", crossing |-> FALSE]}

\* Observations for the stop-distance runs: a car near, far, fast and
\* turned, and an oncoming pedestrian.
MCInputsHold ==
  o1 :> {[label |-> "car", lonVel |-> v, twistX |-> v, dist |-> d, geo |-> "inside",
          crossing |-> FALSE] : <<v, d>> \in {<<0, 4>>, <<0, 12>>, <<5, 12>>}}
  @@
  o2 :> {[label |-> "ped", lonVel |-> -3, twistX |-> -3, dist |-> 12, geo |-> "inside",
          crossing |-> FALSE]}

\* Observations for the oncoming-traffic runs: a standing car near the
\* ego and an oncoming car of the same label behind or level with it.
MCInputsOncoming ==
  o1 :> {[label |-> "car", lonVel |-> 0, twistX |-> 0, dist |-> 8, geo |-> "inside",
          crossing |-> FALSE]}
  @@
  o2 :> {[label |-> "car", lonVel |-> -3, twistX |-> -3, dist |-> d, geo |-> "inside",
          crossing |-> FALSE] : d \in {8, 12}}

MCVels == {-3, 0, 3, 5}
MCMaxNegativeVelocity == -1
MCLimitMinAccel == -2

MCOutsideTypes == {"car"}
MCSuddenTypes == {"ped"}

MCRssDecel == [l \in MCLabels |-> IF l = "car" THEN -3 ELSE -2]
MCSuddenAccTh == [l \in {"ped"} |-> -1]
MCSuddenDistTh == [l \in {"ped"} |-> 6]
MCAbandonToStop == [l \in {"ped"} |-> FALSE]
MCSuddenLimitMinAcc == [l \in {"ped"} |-> -4]

=============================================================================
