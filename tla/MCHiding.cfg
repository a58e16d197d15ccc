\* One window that refuses the cloak and one of the exact-title system list;
\* the daemon is killed and started again.
SPECIFICATION Spec
CONSTANTS
  Monitors = {m1}
  Windows = {w1, w2}
  SystemWindows = {w2}
  Elevated = {w1}
  NoWindow = none
  NoMonitor = nomonitor
  MaxSpaces = 2
  DefaultSpaces = 2
  Env = {"hide", "crash"}
INVARIANT HidingRecorded
INVARIANT ExitReleases
PROPERTY StartRecovers
