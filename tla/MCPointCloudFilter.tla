------------------------- MODULE MCPointCloudFilter -------------------------
(* Two collision points, behind, level with or ahead of the ego, a hold   *)
(* time of two cycles, histories of up to four entries.                   *)
EXTENDS PointCloudFilter

CONSTANTS p1, p2

\* No cluster, one cluster of both points (in either order), and one
\* cluster per point.
MCClusterings == { << >>, << <<p1, p2>> >>, << <<p2, p1>> >>, << <<p1>>, <<p2>> >> }

\* Arc lengths from the ego: behind, level, ahead.
MCOffsets == {-1, 0, 1}

=============================================================================
