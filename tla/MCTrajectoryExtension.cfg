\* Extend is bounded by MaxPush, which the loop never reaches on these
\* inputs; a call that ended with points missing would be reported by
\* ExtensionMatchesReference, a loop stuck at the bound as a deadlock.
\* extend_distance - step_length takes the values a loop sum meets exactly
\* (6 - 3, 4 - 2), falls between (7 - 2) or lies below the first sum (4 - 3).
CONSTANTS
  Trajs <- MCTrajs
  Dists = {0, 4, 6, 7}
  Steps = {1, 2, 3}
  MaxPush = 8
SPECIFICATION Spec
INVARIANTS TypeOK ExtensionMatchesReference
