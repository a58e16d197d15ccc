\* Displays attached and detached under a window that is dragged, drifts while
\* hidden and is re-homed.
SPECIFICATION Spec
CONSTANTS
  Monitors = {m1, m2}
  Windows = {w1}
  SystemWindows = {}
  Elevated = {}
  NoWindow = none
  NoMonitor = nomonitor
  MaxSpaces = 2
  DefaultSpaces = 2
  Env = {"topology", "drift"}
INVARIANT PinnedIsUp
PROPERTY NeverSilentlyUntracked
PROPERTY PinSurvives
