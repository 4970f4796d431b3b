------------------------ MODULE MCObstacleClassifier ------------------------
(* Model-checking instance of ObstacleClassifier: a pedestrian and a      *)
(* bicycle (outside types), a car and an unknown object with a negative   *)
(* margin, on both sides of the path, approaching, still or leaving.     *)
EXTENDS ObstacleClassifier

MCLabels == {"ped", "bike", "car", "unknown"}
MCOutsideTypes == {"ped", "bike"}
MCMaxLatMarginUnknown == -1

MCObjInputs ==
  [label: MCLabels, lat: {0, 2, 4, 6}, latVel: {-1, 0, 2}, lon: {-1, 5, 9},
   lonVel: {0}, half: {0}, ext: {1}, speed: {0, 4}, heading: {"along", "across"},
   hasPath: {TRUE}, vEgo: {2}]

ASSUME \A x \in MCObjInputs : x.speed % 2 = 0

=============================================================================
