\* Two windows on the spaces of one display.
SPECIFICATION Spec
CONSTANTS
  Monitors = {m1}
  Windows = {w1, w2}
  SystemWindows = {}
  Elevated = {}
  NoWindow = none
  NoMonitor = nomonitor
  MaxSpaces = 3
  DefaultSpaces = 2
  Env = {}
SYMMETRY Symmetry
INVARIANT TypeOK
INVARIANT TrackedOnce
INVARIANT SpacesInBounds
INVARIANT MarkedIffTracked
PROPERTY SwitchSettles
PROPERTY SwitchLandsUp
PROPERTY RenumberingKeepsView
