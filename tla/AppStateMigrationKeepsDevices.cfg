\* A claim of the sources, against the code.
SPECIFICATION Spec
CONSTANTS
    MaxDevices = 1
    Settings = {0, 1, 2}
    AutoAdding = {1}
    Oversized = {2}
    Ids = {1, 2}
    Adverts <- MCAdverts
    AgentNames = {2}
    Manuals <- MCManuals
    Edits <- MCEdits
    OldDocuments <- MCOldDocuments
PROPERTIES
    MigrationKeepsDevices
