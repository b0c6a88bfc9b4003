\* Crash recovery of the configuration files.
SPECIFICATION Spec
CONSTANTS
    blank = blank
    d1 = d1
    d2 = d2
    Docs <- MCDocs
    Defaults = blank
    NoFile = NoFile
    Torn = Torn
    Nothing = Nothing
    MaxInterruptions = 3
INVARIANTS
    TypeOK
    SavedSurvivesOneInterruption
    ResetForgets
PROPERTIES
    ImplementsVault
