\* Memory, registry and flash under every handler, restarts and a factory reset.
SPECIFICATION Spec
CONSTANTS
    MaxDevices = 1
    Settings = {0, 1, 2}
    AutoAdding = {1}
    Oversized = {2}
    Ids = {1, 2}
    Adverts <- MCAdverts
    AgentNames = {2}
    Manuals <- MCManuals
    Edits <- MCEdits
    OldDocuments <- MCOldDocuments
INVARIANTS
    TypeOK
    NothingForgotten
    CopyFreshOnceSaved
    ResetForgotten
PROPERTIES
    QuietMeansSaved
