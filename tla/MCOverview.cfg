SPECIFICATION Spec
CONSTANTS
    Windows = {w1, w2}
    None = None
    MaxSpaces = 2
    MaxDisplays = 2
    Budget = 1
INVARIANT ReleaseActsOnPressed
INVARIANT PressesHoldCapture
INVARIANT CardsFollowSpaces
