\* Two machines; one tick for the carousel's interval, its pause and the
\* screen timeout.
SPECIFICATION Spec
CONSTANTS
    a = a
    b = b
    None = None
    Devices = {a, b}
    Watched = {b}
    Points <- MCPoints
    Dots <- MCDots
    Durations = {20, 200, 700, 950}
    Interval = 1
    Idle = 1
    ScreenTimeout = 1
    Wrap = TRUE
    Wrapped = 99
INVARIANTS
    TypeOK
    PaintedIsCurrent
PROPERTIES
    EveryPageComesRound
    LeftAloneGoesDark
