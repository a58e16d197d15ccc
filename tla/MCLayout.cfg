\* Two desk displays and a remote session, one window, a store of two entries.
SPECIFICATION FairSpec
CONSTANTS
  Windows = {w1}
  Monitors = {a, b, r}
  Topologies <- MCTopologies
  Remote <- MCRemote
  MaxSpaces = 2
  DefaultSpaces = 1
  MaxTopologies = 2
  None = none
  Budget = 4
  a = a
  b = b
  r = r
INVARIANT CountsSurvive
PROPERTY ReplayReturns
PROPERTY TableFollows
PROPERTY LayoutReachesDisk
