\* The hands of MCSettings; two flags from a terminal, a failing call and a
\* logon.  With its commands spent and its window closed the system stops.
SPECIFICATION Spec
CONSTANTS
    MaxProcs = 3
    MaxFlags = 2
    MaxSlips = 1
    Logons = 1
    Overlap = FALSE
    None = None
    Hands <- MCHands
    Languages = 2
    Presets <- MCPresets
    Keys = {"F1"}
    Elevations = {FALSE}
    Default <- MCDefault
    Imported <- MCImported
    Captured <- MCCaptured
CHECK_DEADLOCK FALSE
INVARIANT HookLivesOnlyDuringCapture
INVARIANT PopupIsTheDropdown
PROPERTY AutostartRetained
PROPERTY DaemonComesBack
