\* Two windows, of which one may clamp its size or be elevated, on two displays.
SPECIFICATION Spec
CONSTANTS
  None = none
  Windows = {w1, w2}
  Kinds <- MCKinds
  FloatRuled = {}
  Rows <- TwoDisplays
  Work <- MCWork
  Dpi <- MCDpi
  InnerGap = 2
  OuterGap = 1
  MinSize = 20
  Slack = 2
  DragSlack = 1
  StrikeLimit = 4
  Deltas <- MCDeltas
  Env = {"drag", "pin", "float", "close"}
  Budget = 2
  a = a
  b = b
  w1 = w1
INVARIANT TilesPartition
INVARIANT LayoutSettles
INVARIANT Converges
PROPERTY FloatDecisionStands
CHECK_DEADLOCK FALSE
