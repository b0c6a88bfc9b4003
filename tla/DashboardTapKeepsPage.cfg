\* A touch that does not move, against the page it leaves behind.
SPECIFICATION Spec
CONSTANTS
    a = a
    b = b
    None = None
    Devices = {a, b}
    Watched = {b}
    Points <- MCPoints
    Dots <- MCDots
    Durations = {20, 200, 700, 950}
    Interval = 1
    Idle = 1
    ScreenTimeout = 1
    Wrap = TRUE
    Wrapped = 99
PROPERTIES
    TapKeepsPage
