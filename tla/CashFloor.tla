----------------------------- MODULE CashFloor -----------------------------
(***************************************************************************)
(* The floor of the restaurant during its cash shifts: shifts are opened   *)
(* and closed with a cash count, tickets are opened on tables, billed,     *)
(* paid or cancelled, payments and expenses are booked on the shift.       *)
(*                                                                         *)
(* A ticket is seen here through its status and its total only: how lines, *)
(* discounts and splits move that total is TicketAccount, and both modules *)
(* refine AccountLifecycle.  Each action is one service call, committed or *)
(* rolled back as a whole by its route; calls that overlap in time are the *)
(* subject of PosRequests.                                                 *)
(***************************************************************************)
EXTENDS Integers, FiniteSets, Functions

CONSTANTS
    Tables, Shifts, Tickets, Payments, Expenses,  \* the rows that can ever exist
    Amounts,             \* totals, payments, expenses and cash counts, in cents
    NoTable, NoShift, NoTicket

ASSUME CashFloorAssumption ==
    /\ Amounts \subseteq Nat /\ 0 \in Amounts
    /\ NoTable \notin Tables
    /\ NoShift \notin Shifts
    /\ NoTicket \notin Tickets

VARIABLES
    shift,      \* CashShift rows: status, opening cash, declared cash
    expected,   \* CashShift.expected_cash_cents, stored when the shift closes
    ticket,     \* Ticket rows: status, table, shift, total
    cache,      \* DiningTable.status_cache
    payment,    \* Payment rows
    expense     \* CashExpense rows

vars == <<shift, expected, ticket, cache, payment, expense>>

Absent    == "Ausente"
Open      == "Abierto"
Closed    == "Cerrado"
InPayment == "En cobro"
Paid      == "Cobrado"
Cancelled == "Cancelado"
Free      == "Libre"
Occupied  == "Ocupada"
Active    == "Activo"

ActiveStatus == {Open, InPayment}

-----------------------------------------------------------------------------
(* Queries.                                                                *)

\* [Defect] A closed shift is still found.
IsCurrentOrClosed(s) == shift[s].status \in {Open, Closed}

\* get_current_cash_shift
IsCurrent(s) == shift[s].status = Open

ActivePaymentsOf(pay, t) == {p \in Payments : pay[p].status = Active /\ pay[p].ticket = t}

\* _active_payment_total
PaidTo(pay, t) == SumFunction([p \in ActivePaymentsOf(pay, t) |-> pay[p].amount])

CashPaymentsIn(pay, s) ==
    {p \in Payments : pay[p].status = Active /\ pay[p].cash /\ pay[p].shift = s}

ExpensesIn(exp, s) == {e \in Expenses : exp[e].status = Active /\ exp[e].shift = s}

\* expected_cash of get_cash_shift_summary: opening cash plus cash payments
\* minus every active expense, whatever method paid it.
ExpectedCash(s) ==
    shift[s].opening
      + SumFunction([p \in CashPaymentsIn(payment, s) |-> payment[p].amount])
      - SumFunction([e \in ExpensesIn(expense, s) |-> expense[e].amount])

Init ==
    /\ shift = [s \in Shifts |-> [status |-> Absent, opening |-> 0, declared |-> 0]]
    /\ expected = [s \in Shifts |-> 0]
    /\ ticket = [t \in Tickets |->
                    [status |-> Absent, table |-> NoTable, shift |-> NoShift, due |-> 0]]
    /\ cache = [b \in Tables |-> Free]
    /\ payment = [p \in Payments |->
                    [status |-> Absent, ticket |-> NoTicket, shift |-> NoShift,
                     amount |-> 0, cash |-> FALSE]]
    /\ expense = [e \in Expenses |-> [status |-> Absent, shift |-> NoShift, amount |-> 0]]

-----------------------------------------------------------------------------
(* Shifts and expenses.                                                    *)

\* open_cash_shift
OpenShift(s, opening) ==
    /\ shift[s].status = Absent
    /\ \A r \in Shifts : ~IsCurrent(r)
    /\ shift' = [shift EXCEPT ![s] = [@ EXCEPT !.status = Open, !.opening = opening]]
    /\ UNCHANGED <<expected, ticket, cache, payment, expense>>

\* [Defect] Accounts being billed do not block the closing.
BlocksOnlyOpen(t, s) == ticket[t].shift = s /\ ticket[t].status = Open

BlocksClosing(t, s) == ticket[t].shift = s /\ ticket[t].status \in ActiveStatus

\* close_cash_shift: refused while an account of the shift is open or being
\* billed; stores the expected cash computed at that moment.
CloseShift(s, declared) ==
    /\ shift[s].status = Open
    /\ \A t \in Tickets : ~BlocksClosing(t, s)
    /\ shift' = [shift EXCEPT ![s] = [@ EXCEPT !.status = Closed, !.declared = declared]]
    /\ expected' = [expected EXCEPT ![s] = ExpectedCash(s)]
    /\ UNCHANGED <<ticket, cache, payment, expense>>

\* create_cash_expense, which a purchase receipt may also call.
RegisterExpense(e, s, amount) ==
    /\ expense[e].status = Absent
    /\ IsCurrent(s)
    /\ amount > 0
    /\ expense' = [expense EXCEPT ![e] = [status |-> Active, shift |-> s, amount |-> amount]]
    /\ UNCHANGED <<shift, expected, ticket, cache, payment>>

-----------------------------------------------------------------------------
(* Tickets.                                                                *)

\* [Defect] A table whose account is being billed counts as free.
TakenOnlyOpen(b) == \E t \in Tickets : ticket[t].table = b /\ ticket[t].status = Open

\* get_free_active_table looks at tickets, not at the cached status.
Taken(b) == \E t \in Tickets : ticket[t].table = b /\ ticket[t].status \in ActiveStatus

\* open_ticket_for_table
OpenTicket(t, b, s) ==
    /\ ticket[t].status = Absent
    /\ IsCurrent(s)
    /\ ~Taken(b)
    /\ ticket' = [ticket EXCEPT ![t] =
                    [status |-> Open, table |-> b, shift |-> s, due |-> 0]]
    /\ cache' = [cache EXCEPT ![b] = Occupied]
    /\ UNCHANGED <<shift, expected, payment, expense>>

\* [Defect] The total may be edited while the account is being billed.
EditBilledTicket(t, amount) ==
    /\ ticket[t].status \in ActiveStatus
    /\ ticket' = [ticket EXCEPT ![t].due = amount]
    /\ UNCHANGED <<shift, expected, cache, payment, expense>>

\* Lines and discounts of an open account give it any total.
EditTicket(t, amount) ==
    /\ ticket[t].status = Open
    /\ ticket' = [ticket EXCEPT ![t].due = amount]
    /\ UNCHANGED <<shift, expected, cache, payment, expense>>

\* cancel_ticket_line on an account being billed can only lower its total.
ReduceTicket(t, amount) ==
    /\ ticket[t].status = InPayment
    /\ amount <= ticket[t].due
    /\ ticket' = [ticket EXCEPT ![t].due = amount]
    /\ UNCHANGED <<shift, expected, cache, payment, expense>>

\* start_payment
StartPayment(t) ==
    /\ ticket[t].status = Open
    /\ ticket[t].due > 0
    /\ ticket' = [ticket EXCEPT ![t].status = InPayment]
    /\ cache' = [cache EXCEPT ![ticket[t].table] = InPayment]
    /\ UNCHANGED <<shift, expected, payment, expense>>

\* [Defect] The table is not released.
NotReleased(t) == cache

\* release_table_for_paid_ticket and release_table_for_cancelled_ticket
Released(t) == [cache EXCEPT ![ticket[t].table] = Free]

\* _close_zero_total_courtesy_ticket
CloseByCourtesy(t) ==
    /\ ticket[t].status = Open
    /\ ticket[t].due = 0
    /\ ticket' = [ticket EXCEPT ![t].status = Paid]
    /\ cache' = Released(t)
    /\ UNCHANGED <<shift, expected, payment, expense>>

\* [Defect] The ticket settles one cent short.
CoversShort(pay, t) == PaidTo(pay, t) + 1 >= ticket[t].due

Covers(pay, t) == PaidTo(pay, t) >= ticket[t].due

\* create_payment: booked on the ticket's shift; the payment that covers the
\* total settles the ticket and frees its table.
CreatePayment(p, t, amount, cash) ==
    /\ payment[p].status = Absent
    /\ ticket[t].status = InPayment
    /\ amount > 0
    /\ payment' = [payment EXCEPT ![p] =
                    [status |-> Active, ticket |-> t, shift |-> ticket[t].shift,
                     amount |-> amount, cash |-> cash]]
    /\ IF Covers(payment', t)
       THEN /\ ticket' = [ticket EXCEPT ![t].status = Paid]
            /\ cache' = Released(t)
       ELSE UNCHANGED <<ticket, cache>>
    /\ UNCHANGED <<shift, expected, expense>>

CancelledPayments(t) ==
    [p \in Payments |-> IF p \in ActivePaymentsOf(payment, t)
                        THEN [payment[p] EXCEPT !.status = Cancelled] ELSE payment[p]]

\* cancel_ticket
CancelTicket(t) ==
    /\ ticket[t].status \in ActiveStatus
    /\ ticket' = [ticket EXCEPT ![t].status = Cancelled]
    /\ payment' = CancelledPayments(t)
    /\ cache' = Released(t)
    /\ UNCHANGED <<shift, expected, expense>>

-----------------------------------------------------------------------------
ShiftStep(s) ==
    \E a \in Amounts :
        \/ OpenShift(s, a)
        \/ CloseShift(s, a)
        \/ \E e \in Expenses : RegisterExpense(e, s, a)

TicketStep(t) ==
    \/ \E b \in Tables, s \in Shifts : OpenTicket(t, b, s)
    \/ \E a \in Amounts : EditTicket(t, a) \/ ReduceTicket(t, a)
    \/ StartPayment(t)
    \/ CloseByCourtesy(t)
    \/ \E p \in Payments, a \in Amounts, cash \in BOOLEAN : CreatePayment(p, t, a, cash)
    \/ CancelTicket(t)

Next == (\E s \in Shifts : ShiftStep(s)) \/ (\E t \in Tickets : TicketStep(t))

Spec == Init /\ [][Next]_vars

-----------------------------------------------------------------------------
(* Properties.                                                             *)

ShiftRow == [status : {Absent, Open, Closed}, opening : Amounts, declared : Amounts]

TicketRow == [status : {Absent, Open, InPayment, Paid, Cancelled},
              table : Tables \cup {NoTable}, shift : Shifts \cup {NoShift}, due : Amounts]

PaymentRow == [status : {Absent, Active, Cancelled}, ticket : Tickets \cup {NoTicket},
               shift : Shifts \cup {NoShift}, amount : Amounts, cash : BOOLEAN]

ExpenseRow == [status : {Absent, Active}, shift : Shifts \cup {NoShift}, amount : Amounts]

TypeOK ==
    /\ shift \in [Shifts -> ShiftRow]
    /\ DOMAIN expected = Shifts
    /\ ticket \in [Tickets -> TicketRow]
    /\ cache \in [Tables -> {Free, Occupied, InPayment}]
    /\ payment \in [Payments -> PaymentRow]
    /\ expense \in [Expenses -> ExpenseRow]

\* At most one cash shift is open (open_cash_shift).
OneOpenShift ==
    \A r, s \in Shifts : IsCurrent(r) /\ IsCurrent(s) => r = s

\* An account that can still take money belongs to a shift that is open, so
\* no payment ever lands in a shift whose cash was already counted
\* (close_cash_shift, open_ticket_for_table, create_payment).
ActiveTicketsInOpenShift ==
    \A t \in Tickets : ticket[t].status \in ActiveStatus =>
        ticket[t].shift \in Shifts /\ IsCurrent(ticket[t].shift)

\* No table has two accounts open or being billed (get_free_active_table).
OneActiveTicketPerTable ==
    \A t, u \in Tickets :
        /\ ticket[t].status \in ActiveStatus
        /\ ticket[u].status \in ActiveStatus
        /\ ticket[t].table = ticket[u].table
        => t = u

\* The checks that preflight_service makes of the floor before a service, and
\* the preflight never finds anything: whatever calls came, no two shifts are
\* open, no table has two accounts and no cancelled account holds money.
SeveralOpenShifts == \E r, s \in Shifts : r # s /\ IsCurrent(r) /\ IsCurrent(s)

ActiveTicketsAt(b) == {t \in Tickets : ticket[t].status \in ActiveStatus /\ ticket[t].table = b}

DuplicateActiveTables == {b \in Tables : \E t, u \in ActiveTicketsAt(b) : t # u}

CancelledTicketPayments ==
    {p \in Payments : \E t \in Tickets :
        ticket[t].status = Cancelled /\ p \in ActivePaymentsOf(payment, t)}

PreflightPasses ==
    /\ ~SeveralOpenShifts
    /\ DuplicateActiveTables = {}
    /\ CancelledTicketPayments = {}

\* The cached status of a table is the one its active account implies, so the
\* reconciliation script finds nothing to repair (status_cache writers).
CacheAgrees ==
    /\ \A b \in Tables : ~Taken(b) => cache[b] = Free
    /\ \A t \in Tickets :
          /\ ticket[t].status = Open => cache[ticket[t].table] = Occupied
          /\ ticket[t].status = InPayment => cache[ticket[t].table] = InPayment

\* Only an account that was billed holds money, and a cancelled one gives all
\* of it back; a settled account was covered by its active payments, and stays
\* covered (cancel_ticket, create_payment).
MoneyOnlyOnBilled ==
    \A t \in Tickets :
        ticket[t].status \in {Absent, Open, Cancelled} => ActivePaymentsOf(payment, t) = {}

PaidIsCovered ==
    \A t \in Tickets :
        ticket[t].status = Paid => ticket[t].due = 0 \/ PaidTo(payment, t) >= ticket[t].due

MoneyFollowsTickets == MoneyOnlyOnBilled /\ PaidIsCovered

\* The expected cash a shift stored when it closed is what a recount of its
\* payments and expenses gives at any later time: nothing is booked on, or
\* taken back from, a shift that is closed (close_cash_shift against
\* create_payment, cancel_ticket and create_cash_expense).
ClosedShiftBalances ==
    \A s \in Shifts : shift[s].status = Closed => expected[s] = ExpectedCash(s)

\* Every account of the floor lives by AccountLifecycle: the conjunction over
\* all tickets of Account(t)!Spec, with the quantifier moved inside the box.
Account(t) == INSTANCE AccountLifecycle WITH
    status   <- ticket[t].status,
    due      <- ticket[t].due,
    received <- PaidTo(payment, t)

RefinesLifecycle ==
    /\ \A t \in Tickets : Account(t)!Init
    /\ [][\A t \in Tickets : Account(t)!Next \/ UNCHANGED Account(t)!accountVars]_vars

=============================================================================
