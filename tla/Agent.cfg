\* A queue of two and enough samples to overrun it twice.
SPECIFICATION Spec
CONSTANTS
    QueueSize = 2
    MaxSamples = 5
INVARIANTS
    TypeOK
    FirstVisitorServed
    FreshOnRecovery
PROPERTIES
    OnlineHasItsWill
    AvailabilityTrue
