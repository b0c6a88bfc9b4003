\* Two tabs and a peer; two sessions, one entry for failures; one misfortune.
SPECIFICATION Spec
CONSTANTS
    t1 = t1
    t2 = t2
    home = home
    peer = peer
    p2 = p2
    None = None
    Tabs = {t1, t2}
    Front = t1
    Peers = {peer}
    Home = home
    MaxSessions = 2
    MaxRateEntries = 1
    FailuresBeforeLockout = 1
    MaxFailures = 2
    BaseLockout = 1
    MaxLockout = 2
    MaxTrouble = 1
INVARIANTS
    TypeOK
PROPERTIES
    LoginMakesRoom
    StaleTabIsTold
    PersistentGetIn
