SPECIFICATION Spec
CONSTANTS
    Tables = {b1, b2}
    Shifts = {s1, s2}
    Tickets = {t1, t2}
    Payments = {p1, p2}
    Expenses = {e1}
    Amounts = {0, 1, 2}
    NoTable = NoTable
    NoShift = NoShift
    NoTicket = NoTicket
SYMMETRY Symmetry
INVARIANTS
    PreflightPasses
    ActiveTicketsInOpenShift
    CacheAgrees
    MoneyFollowsTickets
    ClosedShiftBalances
PROPERTIES
    RefinesLifecycle
CHECK_DEADLOCK FALSE
