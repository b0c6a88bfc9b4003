\* The registry under discovery, samples and every request of the user.
SPECIFICATION Spec
CONSTANTS
    MaxDevices = 2
    Ids = {1, 2, 3}
    Adverts <- MCAdverts
    Manuals <- MCManuals
    Edits <- MCEdits
    AgentNames = {2}
    Documents <- MCDocuments
    MaxListed = 2
INVARIANTS
    TypeOK
    UniqueUnlessOverlap
    PendingIsLatestHeard
    ManualAddressKept
    ReorderShowsListedFirst
PROPERTIES
    DismissedStaysOut
