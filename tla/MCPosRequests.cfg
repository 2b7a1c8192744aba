SPECIFICATION PosSpec
CONSTANTS
    Tables = {b1}
    Shifts = {1, 2}
    Tickets = {1, 2}
    Payments = {1, 2}
    Expenses = {1}
    Amounts = {0, 1, 2}
    NoTable = NoTable
    NoShift = NoShift
    NoTicket = NoTicket
    Requests = {c1, c2}
    Lines = {l1, l2}
    MaxRequests = 9
SYMMETRY Symmetry
INVARIANTS
    FoliosAreConsecutive
    PaidOnce
PROPERTIES
    FreshRequestsAreCalls
CHECK_DEADLOCK FALSE
