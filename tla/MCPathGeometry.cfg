CONSTANTS
  Lines <- MCLines
  None = None
INIT Init
NEXT Next
INVARIANT SelfIntersectionIsFirst
