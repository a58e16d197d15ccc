\* The shell cloak stops working, or DWM refuses to lift a cloak, and both come
\* back, under a window that rules place, the user minimizes and its application
\* hides.
SPECIFICATION Spec
CONSTANTS
  Monitors = {m1}
  Windows = {w1}
  SystemWindows = {}
  Elevated = {}
  NoWindow = none
  NoMonitor = nomonitor
  MaxSpaces = 2
  DefaultSpaces = 2
  Env = {"shell", "rules", "minimize", "taskbar", "recycle", "hide", "title"}
PROPERTY RecordKept
