\* Two people, three runs, two faults, three files in two versions each.
SPECIFICATION Spec
CONSTANTS
    Tables <- const_Tables
    Fields <- const_Fields
    NoTable = NoTable
    Primary <- const_Primary
    LedgerSteps <- const_LedgerSteps
    Migrations <- const_Migrations
    Runners = {r1, r2}
    MaxRuns = 3
    MaxFaults = 2
SYMMETRY Symmetry
INVARIANTS
    LedgerIsTrue
    RerunCompletes
\* The runs may all be over.
CHECK_DEADLOCK FALSE
