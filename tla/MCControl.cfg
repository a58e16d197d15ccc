SPECIFICATION Spec
CONSTANTS
    k1 = k1
    k2 = k2
    k3 = k3
    k4 = k4
    xk = xk
    tk = tk
    None = None
    Missing = Missing
    Corrupt = Corrupt
    MaxSpaces = 2
    Specials <- MCSpecials
    Keys = {k1, k2, k3, k4, xk, tk}
    ExitKey = xk
    ToggleKey = tk
    DefaultBind <- MCBind
    Typed = {k2}
    QueueLimit = 2
    Budget = 5
INVARIANT KeysMeanTheirBinding
INVARIANT DigitsFollowCounts
INVARIANT ConfigConverges
PROPERTY HotkeysAreAtomic
CHECK_DEADLOCK FALSE
