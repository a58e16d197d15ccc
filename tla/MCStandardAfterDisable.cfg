\* What --disable-elevation starts is elevated when it is, which it has to be to
\* delete the task.
SPECIFICATION Spec
CONSTANTS
    MaxProcs = 3
    MaxFlags = 2
    MaxSlips = 1
    Logons = 1
    Overlap = FALSE
    None = None
    Hands <- MCHands
    Languages = 2
    Presets <- MCPresets
    Keys = {"F1"}
    Elevations = {FALSE}
    Default <- MCDefault
    Imported <- MCImported
    Captured <- MCCaptured
CHECK_DEADLOCK FALSE
INVARIANT StandardAfterDisable
