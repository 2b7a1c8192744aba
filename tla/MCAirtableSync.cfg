SPECIFICATION FairSpec
CONSTANTS
    Employees = {"ana", "luz"}
    FirstAdmin = "ana"
    Rows = {"corte", "ticket"}
    Parent <- MCParent
    Author <- MCAuthor
    Closers <- MCClosers
    Level <- MCLevel
    LastLevel = 2
    NoRow = NoRow
    PullEnabled = TRUE
    PushEnabled = TRUE
    SkipPull = TRUE
    MaxEdits = 2
    MaxManuals = 1
    MaxFaults = 2
INVARIANTS
    MirrorFollows
PROPERTIES
    AdminsRemain
    OnlyResendsDuplicate
    MirrorCatchesUp
