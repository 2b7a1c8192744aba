\* Two workers, two printers, customers' tickets, two retries at once, a timeout or a crash.
SPECIFICATION Spec
CONSTANTS
    Workers = {w1, w2}
    Clerks = {c1, c2}
    Printers = 2
    Inactive = {}
    CashPrinter = 2
    NoWorker = NoWorker
    Documents = {"Ticket"}
    MaxJobs = 2
    MaxAttempts = 2
    MaxFaults = 1
SYMMETRY Symmetry
INVARIANTS
    PrintedCameOut
    OneHolder
    PaperIsCounted
    TriedInOrder
    ClaimedIsHeld
