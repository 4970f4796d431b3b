\* Lengths in units of 0.5 m: stop_margin 2 m, dist_to_bumper 1 m,
\* half width 1 m, min_stop_margin_on_curve 1.5 m.
CONSTANTS
  Trajs <- MCTrajs
  Profiles <- MCProfiles
  Defaults = {1, 3, 6}
  StopMargin = 4
  DistToBumper = 2
  HalfWidth = 2
  MinCurveMargin = 3
  AdditionalMargin = 1
  None = None
INIT Init
NEXT Next
INVARIANT MarginOnCurveShrinks
