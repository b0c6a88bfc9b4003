\* Two saved networks at most, one in range; the clock wraps once.
SPECIFICATION Spec
CONSTANTS
    home = home
    away = away
    None = None
    Asap = Asap
    Far = Far
    Ssids = {home, away}
    Reachable = {home}
    MaxNetworks = 2
    ConnectTimeout = 1
    FirstBackoff = 1
    MaxBackoff = 2
    NothingSavedWait = 1
    FailureFactor = 1
    MaxWraps = 1
PROPERTIES
    WayIn
    ReachesSaved
    PortalComesDownInTime
    PhaseCatchesUp
