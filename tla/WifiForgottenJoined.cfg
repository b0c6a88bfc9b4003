\* One network, in range; the clock does not wrap.
SPECIFICATION Spec
CONSTANTS
    home = home
    away = away
    None = None
    Asap = Asap
    Far = Far
    Ssids = {home}
    Reachable = {home}
    MaxNetworks = 1
    ConnectTimeout = 1
    FirstBackoff = 1
    MaxBackoff = 1
    NothingSavedWait = 1
    FailureFactor = 1
    MaxWraps = 0
PROPERTIES
    NothingSavedMeansPortal
