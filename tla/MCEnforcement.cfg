\* A restored window between two displays, until past the ceiling.
SPECIFICATION Spec
CONSTANTS
  Windows = {w1}
  Monitors = {a, b}
  Rows <- MCRows
  Wrap = 32
  SettleMs = 1
  VerifyMs = 2
  EnforceMs = 3
  MaxAge = 14
  a = a
  b = b
INVARIANT DeadlinesAreExact
INVARIANT EnforcementEnds
PROPERTY DriftNeverAdopted
