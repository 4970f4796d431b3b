---------------------------- MODULE MCCurveMargin ----------------------------
EXTENDS CurveMargin

\* Arc lengths in units of the 0.5 m resampling interval.
MCTrajs == {<< 0, 3, 6, 9, 12 >>, << 0, 6, 12 >>}

\* Distance from a pose's straight forward segment to the obstacle: on a
\* straight road (always 0), an obstacle beside a curve that no straight
\* segment reaches (always 4), and curves whose straight segments reach it
\* from arc length 5 or 9 on.
Bend(k) == [s \in 0..12 |-> IF s >= k THEN 0 ELSE k - s + 1]
MCProfiles == {[s \in 0..12 |-> 0], [s \in 0..12 |-> 4], Bend(5), Bend(9)}
====
