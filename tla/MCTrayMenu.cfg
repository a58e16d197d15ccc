\* Two displays, two openings of the menu, the table changing once behind it.
SPECIFICATION Spec
CONSTANTS
    MaxDisplays = 2
    MaxSpaces = 2
    MaxPosted = 1
    MaxOpenings = 2
    Budget = 1
CHECK_DEADLOCK FALSE
INVARIANT HooksFollowWindow
INVARIANT SubmenuIsParents
PROPERTY OneCommandAnOpening
PROPERTY CommandsDoAsRowsSay
