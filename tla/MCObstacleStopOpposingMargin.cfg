CONSTANTS
  o1 = o1
  o2 = o2
  Obj = {o1, o2}
  ObjOrder <- MCObjOrder
  Inputs <- MCInputsOncoming
  Labels <- MCLabels
  InsideTypes <- MCLabels
  OutsideTypes <- MCOutsideTypes
  Vels <- MCVels
  Dists = {4, 8, 12}
  EgoVels = {0, 4}
  MaxShift = 0
  MaxLag = 2
  BehaviorStops = {}
  UseRssStop = TRUE
  RssDecel <- MCRssDecel
  RssVelOffset = 1
  EnterFixedStop = 3
  ExitFixedStop = 4
  HoldTicks = 2
  StopMargin = 5
  TerminalStopMargin = 3
  MinBehaviorStopMargin = 3
  StopMarginOpposing = 10
  EffDecelOpposing = 2
  MaxNegativeVelocity <- MCMaxNegativeVelocity
  EgoArc = 2
  RefTrajLen = 16
  LimitMaxAccel = 1
  LimitMinAccel <- MCLimitMinAccel
  SuddenTypes <- MCSuddenTypes
  SuddenAccTh <- MCSuddenAccTh
  SuddenDistTh <- MCSuddenDistTh
  AbandonToStop <- MCAbandonToStop
  SuddenLimitMinAcc <- MCSuddenLimitMinAcc
  HoldStopVelTh = 1
  HoldStopDistTh = 2
  UpdateDistTh = 2
  MinOnTicks = 1
  MinOffTicks = 2
  Absent = Absent
  NoStop = NoStop
  NoBraking = NoBraking
SPECIFICATION Spec
INVARIANT OpposingMarginBounded
